-------------------------- MODULE PrintQueueProofs --------------------------
(***************************************************************************)
(* Proofs about the print queue and its workers, for any number of         *)
(* workers, printers, jobs, retries, timeouts and crashes.                 *)
(*                                                                         *)
(* Everything rests on what a worker and the calls it sent, those it gave  *)
(* up on included, still know of a job.  Wire ties each worker to the one  *)
(* call it waits for; whatever else is on the wire is late, and a late     *)
(* call has nothing to say to its worker but may still write its job.      *)
(***************************************************************************)
EXTENDS PrintQueue, SumTheorems

WorkerRow == [pc : {Idle, Claiming, Printing, Confirming, Reporting},
              at : 1..Printers, job : 0..MaxJobs, copies : 0..2]

\* The part of TypeOK that speaks of each variable alone, with the bound on the rows.
Shape ==
    /\ jobs \in Seq(JobRow)
    /\ Len(jobs) <= MaxJobs
    /\ paper \in [1..MaxJobs -> Nat]
    /\ worker \in [Workers -> WorkerRow]
    /\ calls \subseteq CallRow
    /\ clerk \in [Clerks -> SUBSET (1..MaxJobs)]
    /\ shared \subseteq 1..MaxJobs
    /\ faults \in 0..MaxFaults

\* m is what worker w waits for.
Awaits(w, m) ==
    /\ m.kind = worker[w].pc
    /\ m.kind # Claiming => m.job = worker[w].job

\* A worker waits for one call exactly, unless it is free or printing.
Wire ==
    \A w \in Workers :
        IF worker[w].pc \in {Idle, Printing}
        THEN WaitedFor(w) = {}
        ELSE \E m \in calls : WaitedFor(w) = {m} /\ Awaits(w, m)

\* A job that was claimed at least once.
Tried(j) == j \in DOMAIN jobs /\ jobs[j].attempts > 0

WorkerKnows(w) ==
    /\ worker[w].pc \in {Idle, Claiming} => worker[w].job = NoJob /\ worker[w].copies = 0
    /\ worker[w].pc \notin {Idle, Claiming} => Tried(worker[w].job)
    /\ worker[w].pc = Printing =>
          /\ worker[w].copies <= Copies(worker[w].job)
          /\ worker[w].copies <= paper[worker[w].job]

CallKnows(m) ==
    /\ m.kind # Claiming => Tried(m.job)
    /\ m.kind = Confirming => paper[m.job] >= Copies(m.job)

\* Only a job that was tried leaves the queue or comes back to it.
TriedOnly ==
    /\ \A j \in DOMAIN jobs : jobs[j].status # Pending => jobs[j].attempts > 0
    /\ \A c \in Clerks : \A j \in clerk[c] : Tried(j)
    /\ \A w \in Workers : WorkerKnows(w)
    /\ \A m \in calls : CallKnows(m)

NoneLate == faults = 0 => \A m \in calls : m.late = 0

IInv ==
    /\ Shape
    /\ Wire
    /\ TriedOnly
    /\ PrintedCameOut
    /\ TriedInOrder
    /\ NoneLate
    /\ ClaimedIsHeld

Kinds == {Claiming, Confirming, Reporting}

-----------------------------------------------------------------------------
(* What the steps do to the wire.                                          *)

LEMMA CallType ==
    ASSUME Shape, NEW w \in Workers, NEW kind \in Kinds, NEW j \in 0..MaxJobs
    PROVE  /\ Call(w, kind, j) \in CallRow
           /\ Call(w, kind, j).from = w
           /\ Call(w, kind, j).kind = kind
           /\ Call(w, kind, j).job = j
           /\ Call(w, kind, j).late = 0
  BY PrintQueueAssumption DEF Shape, Call, CallRow, WorkerRow, Kinds

LEMMA RowTypes ==
    ASSUME Shape, NEW w \in Workers
    PROVE  NextPrinter(w) \in WorkerRow /\ NewCycle \in WorkerRow
  BY PrintQueueAssumption DEF Shape, NextPrinter, NewCycle, WorkerRow, NoJob

\* rest is what stays on the wire when w hangs up: the calls the others wait
\* for are the same, and w waits for none.
Quiet(w, rest) ==
    /\ rest \subseteq CallRow
    /\ \A m \in rest : m.late = 0 => m \in calls /\ m.from # w
    /\ \A m \in calls : m.late = 0 /\ m.from # w => m \in rest

LEMMA QuietByAnswer ==
    ASSUME Shape, Wire, NEW m \in calls, m.late = 0
    PROVE  m.from \in Workers /\ Quiet(m.from, calls \ {m})
<1>1. m.from \in Workers
  BY DEF Shape, CallRow
<1>2. m \in WaitedFor(m.from)
  BY DEF WaitedFor
<1>3. WaitedFor(m.from) = {m}
  BY <1>1, <1>2 DEF Wire
<1>4. \A n \in calls \ {m} : n.late = 0 => n.from # m.from
  BY <1>3 DEF WaitedFor
<1> QED BY <1>1, <1>4 DEF Quiet, Shape

LEMMA QuietAlready ==
    ASSUME Shape, Wire, NEW w \in Workers, worker[w].pc \in {Idle, Printing}
    PROVE  Quiet(w, calls)
<1>1. WaitedFor(w) = {}
  BY DEF Wire
<1> QED BY <1>1 DEF Quiet, Shape, WaitedFor

LEMMA QuietByGivingUp ==
    ASSUME Shape, NEW w \in Workers, faults < MaxFaults
    PROVE  /\ Quiet(w, Others(w) \cup GivenUp(w))
           /\ \A m \in GivenUp(w) : m.late # 0
           /\ \A m \in GivenUp(w) :
                 \E n \in calls : n.from = w /\ m.from = w /\ m.kind = n.kind /\ m.job = n.job
<1>1. ASSUME NEW n \in calls
      PROVE  /\ Late(n) \in CallRow
             /\ Late(n).late # 0
             /\ Late(n).from = n.from /\ Late(n).kind = n.kind /\ Late(n).job = n.job
  <2>1. n \in CallRow /\ faults + 1 \in 0..MaxFaults /\ faults + 1 # 0
    BY PrintQueueAssumption DEF Shape
  <2>2. Late(n) = [from |-> n.from, kind |-> n.kind, printer |-> n.printer,
                   job |-> n.job, read |-> n.read, late |-> faults + 1]
    BY <2>1 DEF CallRow, Late
  <2> QED BY <2>1, <2>2 DEF CallRow
<1>2. \A m \in GivenUp(w) : \E n \in calls : n.from = w /\ m = Late(n)
  BY DEF GivenUp, WaitedFor
<1>3. \A m \in GivenUp(w) :
         /\ m \in CallRow /\ m.late # 0
         /\ \E n \in calls : n.from = w /\ m.from = w /\ m.kind = n.kind /\ m.job = n.job
  BY <1>1, <1>2
<1>4. Quiet(w, Others(w) \cup GivenUp(w))
  <2>1. Others(w) \subseteq calls /\ calls \subseteq CallRow
    BY DEF Others, Shape
  <2>2. \A m \in Others(w) : m.late = 0 => m.from # w
    BY DEF Others, WaitedFor
  <2>3. \A m \in calls : m.late = 0 /\ m.from # w => m \in Others(w)
    BY DEF Others, WaitedFor
  <2> QED BY <1>3, <2>1, <2>2, <2>3 DEF Quiet
<1> QED BY <1>3, <1>4

\* w hangs up, or hangs up and calls again.
LEMMA WireKept ==
    ASSUME Shape, Wire, NEW w \in Workers, NEW rest, Quiet(w, rest),
           NEW r \in WorkerRow, worker' = [worker EXCEPT ![w] = r],
           \/ r.pc \in {Idle, Printing} /\ calls' = rest
           \/ \E n \in CallRow : /\ n.from = w /\ n.late = 0 /\ r.pc = n.kind
                                 /\ n.kind # Claiming => n.job = r.job
                                 /\ calls' = rest \cup {n}
    PROVE  Wire'
<1> SUFFICES ASSUME NEW v \in Workers
             PROVE  IF worker'[v].pc \in {Idle, Printing}
                    THEN WaitedFor(v)' = {}
                    ELSE \E m \in calls' : WaitedFor(v)' = {m} /\ Awaits(v, m)'
  BY DEF Wire
<1>1. worker'[w] = r /\ \A u \in Workers : u # w => worker'[u] = worker[u]
  BY DEF Shape
<1>2. CASE v # w
  <2>1. WaitedFor(v)' = WaitedFor(v)
    BY <1>2 DEF WaitedFor, Quiet
  <2> QED BY <1>1, <1>2, <2>1 DEF Wire, Awaits, WaitedFor
<1>3. CASE v = w /\ r.pc \in {Idle, Printing} /\ calls' = rest
  BY <1>1, <1>3 DEF WaitedFor, Quiet
<1>4. ASSUME v = w,
             NEW n \in CallRow, n.from = w, n.late = 0, r.pc = n.kind,
             n.kind # Claiming => n.job = r.job,
             calls' = rest \cup {n}
      PROVE  IF worker'[v].pc \in {Idle, Printing}
             THEN WaitedFor(v)' = {}
             ELSE \E m \in calls' : WaitedFor(v)' = {m} /\ Awaits(v, m)'
  <2>1. WaitedFor(w)' = {n}
    BY <1>4 DEF WaitedFor, Quiet
  <2>2. worker'[w].pc \notin {Idle, Printing}
    BY <1>1, <1>4 DEF CallRow, Idle, Printing, Claiming, Confirming, Reporting
  <2> QED BY <1>1, <1>4, <2>1, <2>2 DEF Awaits
<1> QED BY <1>2, <1>3, <1>4

\* A late call leaves the wire, or a call is read.
LEMMA WireKeptByLate ==
    ASSUME Shape, Wire, NEW m \in calls, m.late # 0, calls' = calls \ {m}, UNCHANGED worker
    PROVE  Wire'
<1>1. \A w \in Workers : WaitedFor(w)' = WaitedFor(w)
  BY DEF WaitedFor
<1> QED BY <1>1 DEF Wire, Awaits, WaitedFor

LEMMA WireKeptByRead ==
    ASSUME Shape, Wire, NEW m \in calls, NEW n \in CallRow,
           n.from = m.from, n.kind = m.kind, n.job = m.job, n.late = m.late,
           calls' = (calls \ {m}) \cup {n}, UNCHANGED worker
    PROVE  Wire'
<1> SUFFICES ASSUME NEW v \in Workers
             PROVE  IF worker[v].pc \in {Idle, Printing}
                    THEN WaitedFor(v)' = {}
                    ELSE \E k \in calls' : WaitedFor(v)' = {k} /\ Awaits(v, k)
  BY DEF Wire, Awaits
<1>1. CASE m \in WaitedFor(v)
  <2>1. WaitedFor(v) = {m} /\ Awaits(v, m) /\ worker[v].pc \notin {Idle, Printing}
    BY <1>1 DEF Wire
  <2>2. WaitedFor(v)' = {n} /\ Awaits(v, n)
    BY <1>1, <2>1 DEF WaitedFor, Awaits
  <2> QED BY <2>1, <2>2
<1>2. CASE m \notin WaitedFor(v)
  <2>1. WaitedFor(v)' = WaitedFor(v)
    BY <1>2 DEF WaitedFor
  <2> QED BY <2>1 DEF Wire, WaitedFor
<1> QED BY <1>1, <1>2

-----------------------------------------------------------------------------
(* What the steps do to the rows.                                          *)

LEMMA RowsOfJobs ==
    ASSUME Shape
    PROVE  /\ jobs \in [1..Len(jobs) -> JobRow]
           /\ Len(jobs) \in Nat
           /\ DOMAIN jobs = 1..Len(jobs)
           /\ DOMAIN jobs \subseteq 1..MaxJobs
  BY PrintQueueAssumption DEF Shape

LEMMA SeqOfRows ==
    ASSUME NEW n \in Nat, NEW f \in [1..n -> JobRow]
    PROVE  f \in Seq(JobRow) /\ Len(f) = n /\ DOMAIN f = 1..n
  OBVIOUS

LEMMA AddedRow ==
    ASSUME Shape, NEW printer \in 1..Printers, NEW type, AddJob(printer, type)
    PROVE  /\ jobs' \in Seq(JobRow)
           /\ Len(jobs') <= MaxJobs
           /\ DOMAIN jobs' = DOMAIN jobs \cup {Len(jobs) + 1}
           /\ Len(jobs) + 1 \notin DOMAIN jobs
           /\ \A j \in DOMAIN jobs : j < Len(jobs) + 1 /\ jobs'[j] = jobs[j]
           /\ jobs'[Len(jobs) + 1] = NewJob(printer, type)
           /\ NewJob(printer, type) \in JobRow
<1>1. NewJob(printer, type) \in JobRow
  BY PrintQueueAssumption DEF AddJob, NewJob, JobRow
<1>2. jobs' = Append(jobs, NewJob(printer, type)) /\ Len(jobs) < MaxJobs
  BY DEF AddJob
<1>3. jobs \in Seq(JobRow)
  BY DEF Shape
<1>4. jobs' \in Seq(JobRow) /\ Len(jobs') = Len(jobs) + 1
  BY <1>1, <1>2, <1>3
<1>5. /\ \A j \in 1..Len(jobs) : jobs'[j] = jobs[j]
      /\ jobs'[Len(jobs) + 1] = NewJob(printer, type)
  BY <1>1, <1>2, <1>3
<1> QED BY <1>1, <1>2, <1>3, <1>4, <1>5, RowsOfJobs, PrintQueueAssumption

\* The fields of a row that a claim, a mark and a retry leave as they were.
LEMMA ClaimedRow ==
    ASSUME Shape, NEW j \in DOMAIN jobs, NEW w \in Workers,
           jobs' = [jobs EXCEPT ![j].status = Claimed, ![j].by = w, ![j].attempts = @ + 1]
    PROVE  /\ jobs' \in Seq(JobRow)
           /\ Len(jobs') <= MaxJobs
           /\ DOMAIN jobs' = DOMAIN jobs
           /\ \A k \in DOMAIN jobs : k # j => jobs'[k] = jobs[k]
           /\ jobs'[j].status = Claimed
           /\ jobs'[j].by = w
           /\ jobs'[j].attempts = jobs[j].attempts + 1
           /\ jobs'[j].printer = jobs[j].printer
           /\ jobs'[j].type = jobs[j].type
<1>1. jobs[j] \in JobRow /\ jobs \in [1..Len(jobs) -> JobRow] /\ Len(jobs) \in Nat
  BY RowsOfJobs
<1> DEFINE row == [jobs[j] EXCEPT !.status = Claimed, !.by = w, !.attempts = @ + 1]
<1>2. /\ row \in JobRow
      /\ row.status = Claimed /\ row.by = w /\ row.attempts = jobs[j].attempts + 1
      /\ row.printer = jobs[j].printer /\ row.type = jobs[j].type
  BY <1>1 DEF JobRow
<1>3. jobs' = [jobs EXCEPT ![j] = row]
  OBVIOUS
<1> HIDE DEF row
<1>4. jobs' \in [1..Len(jobs) -> JobRow]
  BY <1>1, <1>2, <1>3
<1>5. jobs' \in Seq(JobRow) /\ Len(jobs') = Len(jobs) /\ DOMAIN jobs' = 1..Len(jobs)
  BY <1>1, <1>4, SeqOfRows
<1> QED BY <1>1, <1>2, <1>3, <1>5, RowsOfJobs DEF Shape

LEMMA MarkedRow ==
    ASSUME Shape, NEW j \in DOMAIN jobs, NEW status \in {Printed, Failed},
           jobs' = [jobs EXCEPT ![j].status = status]
    PROVE  /\ jobs' \in Seq(JobRow)
           /\ Len(jobs') <= MaxJobs
           /\ DOMAIN jobs' = DOMAIN jobs
           /\ \A k \in DOMAIN jobs : k # j => jobs'[k] = jobs[k]
           /\ jobs'[j].status = status
           /\ jobs'[j].by = jobs[j].by
           /\ jobs'[j].attempts = jobs[j].attempts
           /\ jobs'[j].printer = jobs[j].printer
           /\ jobs'[j].type = jobs[j].type
<1>1. jobs[j] \in JobRow /\ jobs \in [1..Len(jobs) -> JobRow] /\ Len(jobs) \in Nat
  BY RowsOfJobs
<1> DEFINE row == [jobs[j] EXCEPT !.status = status]
<1>2. /\ row \in JobRow
      /\ row.status = status /\ row.by = jobs[j].by /\ row.attempts = jobs[j].attempts
      /\ row.printer = jobs[j].printer /\ row.type = jobs[j].type
  BY <1>1 DEF JobRow
<1>3. jobs' = [jobs EXCEPT ![j] = row]
  OBVIOUS
<1> HIDE DEF row
<1>4. jobs' \in [1..Len(jobs) -> JobRow]
  BY <1>1, <1>2, <1>3
<1>5. jobs' \in Seq(JobRow) /\ Len(jobs') = Len(jobs) /\ DOMAIN jobs' = 1..Len(jobs)
  BY <1>1, <1>4, SeqOfRows
<1> QED BY <1>1, <1>2, <1>3, <1>5, RowsOfJobs DEF Shape

LEMMA RequeuedRows ==
    ASSUME Shape, NEW c \in Clerks, Requeue(c)
    PROVE  /\ jobs' \in Seq(JobRow)
           /\ Len(jobs') <= MaxJobs
           /\ DOMAIN jobs' = DOMAIN jobs
           /\ \A k \in DOMAIN jobs :
                 /\ k \notin clerk[c] => jobs'[k] = jobs[k]
                 /\ k \in clerk[c] => jobs'[k].status = Pending /\ jobs'[k].by = NoWorker
                 /\ jobs'[k].attempts = jobs[k].attempts
                 /\ jobs'[k].printer = jobs[k].printer
                 /\ jobs'[k].type = jobs[k].type
<1>1. jobs \in [1..Len(jobs) -> JobRow] /\ Len(jobs) \in Nat
  BY RowsOfJobs
<1> DEFINE Back(k) == [jobs[k] EXCEPT !.status = Pending, !.by = NoWorker]
<1>2. ASSUME NEW k \in 1..Len(jobs)
      PROVE  /\ Back(k) \in JobRow
             /\ Back(k).status = Pending /\ Back(k).by = NoWorker
             /\ Back(k).attempts = jobs[k].attempts
             /\ Back(k).printer = jobs[k].printer /\ Back(k).type = jobs[k].type
  <2>1. jobs[k] \in JobRow
    BY <1>1
  <2> QED BY <2>1 DEF JobRow
<1>3. jobs' = [k \in 1..Len(jobs) |-> IF k \in clerk[c] THEN Back(k) ELSE jobs[k]]
  BY RowsOfJobs DEF Requeue
<1> HIDE DEF Back
<1>4. jobs' \in [1..Len(jobs) -> JobRow]
  BY <1>1, <1>2, <1>3
<1>5. jobs' \in Seq(JobRow) /\ Len(jobs') = Len(jobs) /\ DOMAIN jobs' = 1..Len(jobs)
  BY <1>1, <1>4, SeqOfRows
<1> QED BY <1>1, <1>2, <1>3, <1>5, RowsOfJobs DEF Shape

-----------------------------------------------------------------------------
(* What an answer does.                                                    *)

\* w hears the outcome of its call: it starts over, or reports a failure.
Heard(w, rest) ==
    /\ \A v \in Workers \ {w} : worker'[v] = worker[v]
    /\ \/ /\ worker'[w].pc = Idle /\ worker'[w].job = NoJob /\ worker'[w].copies = 0
          /\ calls' = rest
       \/ /\ worker[w].pc = Confirming
          /\ worker'[w].pc = Reporting /\ worker'[w].job = worker[w].job
          /\ \E n \in CallRow : /\ n.kind = Reporting /\ n.job = worker[w].job
                                /\ n.from = w /\ n.late = 0
                                /\ calls' = rest \cup {n}

LEMMA ReceiveEffect ==
    ASSUME Shape, Wire, NEW w \in Workers, NEW rest, Quiet(w, rest),
           NEW outcome \in {OK, Error}, Receive(w, outcome, rest)
    PROVE  /\ worker' \in [Workers -> WorkerRow]
           /\ calls' \subseteq CallRow
           /\ Wire'
           /\ Heard(w, rest)
<1>1. worker[w] \in WorkerRow /\ worker \in [Workers -> WorkerRow] /\ rest \subseteq CallRow
  BY DEF Shape, Quiet
<1>2. ASSUME NEW r \in WorkerRow, r.pc = Idle, r.job = NoJob, r.copies = 0,
             worker' = [worker EXCEPT ![w] = r], calls' = rest
      PROVE  /\ worker' \in [Workers -> WorkerRow]
             /\ calls' \subseteq CallRow
             /\ Wire'
             /\ Heard(w, rest)
  BY <1>1, <1>2, WireKept DEF Heard
<1>3. NextPrinter(w) \in WorkerRow /\ NewCycle \in WorkerRow
  BY RowTypes
<1>4. CASE worker' = [worker EXCEPT ![w] = NextPrinter(w)] /\ calls' = rest
  BY <1>2, <1>3, <1>4 DEF NextPrinter
<1>5. CASE worker' = [worker EXCEPT ![w] = NewCycle] /\ calls' = rest
  BY <1>2, <1>3, <1>5 DEF NewCycle
<1>6. CASE /\ worker[w].pc = Confirming
           /\ worker' = [worker EXCEPT ![w].pc = Reporting]
           /\ calls' = rest \cup {Call(w, Reporting, worker[w].job)}
  <2> DEFINE n == Call(w, Reporting, worker[w].job)
             r == [worker[w] EXCEPT !.pc = Reporting]
  <2>1. n \in CallRow /\ n.from = w /\ n.kind = Reporting /\ n.job = worker[w].job /\ n.late = 0
    BY <1>1, CallType DEF WorkerRow, Kinds
  <2>2. r \in WorkerRow /\ r.pc = Reporting /\ r.job = worker[w].job
    BY <1>1 DEF WorkerRow
  <2>3. worker' = [worker EXCEPT ![w] = r] /\ calls' = rest \cup {n}
    BY <1>6
  <2> HIDE DEF n, r
  <2>4. Wire'
    BY <2>1, <2>2, <2>3, WireKept
  <2> QED BY <1>1, <1>6, <2>1, <2>2, <2>3, <2>4 DEF Heard
<1> QED BY <1>4, <1>5, <1>6 DEF Receive

LEMMA AnswerEffect ==
    ASSUME Shape, Wire, NEW m \in calls, NEW outcome \in {OK, Error}, Answer(m, outcome)
    PROVE  /\ m.from \in Workers
           /\ worker' \in [Workers -> WorkerRow]
           /\ calls' \subseteq CallRow
           /\ Wire'
           /\ \/ m.late = 0 /\ Heard(m.from, calls \ {m})
              \/ m.late # 0 /\ calls' = calls \ {m} /\ worker' = worker
<1>1. m \in CallRow
  BY DEF Shape
<1>2. CASE m.late = 0
  <2>1. m.from \in Workers /\ Quiet(m.from, calls \ {m})
    BY <1>2, QuietByAnswer
  <2>2. Receive(m.from, outcome, calls \ {m})
    BY <1>2 DEF Answer
  <2> QED BY <1>2, <2>1, <2>2, ReceiveEffect
<1>3. CASE m.late # 0
  <2>1. calls' = calls \ {m} /\ UNCHANGED worker
    BY <1>3 DEF Answer
  <2> QED BY <1>1, <1>3, <2>1, WireKeptByLate DEF Shape, CallRow
<1> QED BY <1>2, <1>3

-----------------------------------------------------------------------------
(* Type correctness.                                                       *)

LEMMA TypeOKMeans == Shape /\ Wire => TypeOK
  BY DEF Shape, Wire, TypeOK, WorkerRow

LEMMA InitTyped == Init => Shape /\ Wire
<1> SUFFICES ASSUME Init PROVE Shape /\ Wire
  OBVIOUS
<1>1. 1 \in 1..Printers /\ 0 \in 0..MaxJobs /\ 0 \in 0..MaxFaults /\ 0 <= MaxJobs
  BY PrintQueueAssumption
<1>2. Shape
  BY <1>1 DEF Init, Shape, WorkerRow, NoJob
<1>3. Wire
  BY DEF Init, Wire, WaitedFor
<1> QED BY <1>2, <1>3

\* A worker that is free or printing sends a call.
LEMMA SendTyped ==
    ASSUME Shape, Wire, NEW w \in Workers, NEW kind \in Kinds, NEW j \in 0..MaxJobs,
           worker[w].pc \in {Idle, Printing},
           kind # Claiming => j = worker[w].job,
           worker' = [worker EXCEPT ![w].pc = kind],
           calls' = calls \cup {Call(w, kind, j)},
           UNCHANGED <<jobs, paper, clerk, shared, faults>>
    PROVE  Shape' /\ Wire'
<1> DEFINE r == [worker[w] EXCEPT !.pc = kind]
           n == Call(w, kind, j)
<1>1. worker[w] \in WorkerRow
  BY DEF Shape
<1>2. r \in WorkerRow /\ r.pc = kind /\ r.job = worker[w].job
  BY <1>1 DEF WorkerRow, Kinds
<1>3. worker' = [worker EXCEPT ![w] = r]
  OBVIOUS
<1>4. n \in CallRow /\ n.from = w /\ n.kind = kind /\ n.job = j /\ n.late = 0
  BY CallType
<1> HIDE DEF r, n
<1>5. Quiet(w, calls) /\ calls' = calls \cup {n}
  BY QuietAlready DEF n
<1>6. \E k \in CallRow : /\ k.from = w /\ k.late = 0 /\ r.pc = k.kind
                         /\ k.kind # Claiming => k.job = r.job
                         /\ calls' = calls \cup {k}
  BY <1>2, <1>4, <1>5
<1>7. Wire'
  BY <1>2, <1>3, <1>5, <1>6, WireKept, ZenonT(40)
<1>8. worker' \in [Workers -> WorkerRow]
  BY <1>2, <1>3 DEF Shape
<1>9. calls' \subseteq CallRow
  BY <1>4, <1>5 DEF Shape
<1>10. Shape'
  BY <1>8, <1>9 DEF Shape
<1> QED BY <1>7, <1>10

LEMMA ServeTyped ==
    ASSUME Shape, Wire, NEW m \in calls, Serve(m),
           \A n \in calls : n.kind # Claiming => n.job \in DOMAIN jobs
    PROVE  Shape' /\ Wire'
<1>1. m \in CallRow
  BY DEF Shape
<1>2. CASE ClaimNothing(m)
  <2>1. \E outcome \in {OK, Error} : Answer(m, outcome)
    BY <1>2 DEF ClaimNothing
  <2>2. worker' \in [Workers -> WorkerRow] /\ calls' \subseteq CallRow /\ Wire'
    BY <2>1, AnswerEffect
  <2> QED BY <1>2, <2>2 DEF ClaimNothing, Shape
<1>3. CASE ClaimNext(m)
  <2>1. PICK j \in NextAt(m.printer) :
           /\ jobs' = [jobs EXCEPT ![j].status = Claimed, ![j].by = m.from,
                                   ![j].attempts = @ + 1]
           /\ \/ m.late = 0 /\ TakeJob(m.from, j, calls \ {m})
              \/ m.late > 0 /\ calls' = calls \ {m} /\ UNCHANGED worker
    BY <1>3 DEF ClaimNext
  <2>2. j \in DOMAIN jobs /\ m.from \in Workers /\ j \in 0..MaxJobs
    BY <1>1, RowsOfJobs DEF NextAt, PendingAt, CallRow
  <2>3. jobs' \in Seq(JobRow) /\ Len(jobs') <= MaxJobs
    BY <2>1, <2>2, ClaimedRow
  <2>4. UNCHANGED <<paper, clerk, shared, faults>>
    BY <1>3 DEF ClaimNext
  <2>5. CASE m.late = 0 /\ TakeJob(m.from, j, calls \ {m})
    <3> DEFINE r == [worker[m.from] EXCEPT !.pc = Printing, !.job = j]
    <3>1. worker[m.from] \in WorkerRow
      BY <2>2 DEF Shape
    <3>2. r \in WorkerRow /\ r.pc = Printing
      BY <2>2, <3>1 DEF WorkerRow
    <3>3. worker' = [worker EXCEPT ![m.from] = r] /\ calls' = calls \ {m}
      BY <2>5 DEF TakeJob
    <3> HIDE DEF r
    <3>4. Quiet(m.from, calls \ {m})
      BY <2>5, QuietByAnswer
    <3>5. Wire'
      BY <2>2, <3>2, <3>3, <3>4, WireKept
    <3> QED BY <2>2, <2>3, <2>4, <3>2, <3>3, <3>5 DEF Shape
  <2>6. CASE m.late > 0 /\ calls' = calls \ {m} /\ UNCHANGED worker
    <3>1. m.late # 0
      BY <1>1, <2>6 DEF CallRow
    <3>2. Wire'
      BY <2>6, <3>1, WireKeptByLate
    <3> QED BY <2>3, <2>4, <2>6, <3>2 DEF Shape
  <2> QED BY <2>1, <2>5, <2>6
<1>4. CASE CheckClaimed(m)
  <2>1. CASE calls' = (calls \ {m}) \cup {[m EXCEPT !.read = TRUE]} /\ UNCHANGED worker
    <3> DEFINE n == [m EXCEPT !.read = TRUE]
    <3>1. /\ n \in CallRow
          /\ n.from = m.from /\ n.kind = m.kind /\ n.job = m.job /\ n.late = m.late
      BY <1>1 DEF CallRow
    <3> HIDE DEF n
    <3>2. calls' = (calls \ {m}) \cup {n} /\ UNCHANGED worker
      BY <2>1 DEF n
    <3>3. Wire'
      BY <3>1, <3>2, WireKeptByRead
    <3> QED BY <1>4, <3>1, <3>2, <3>3 DEF CheckClaimed, Shape
  <2>2. CASE Answer(m, Error)
    <3>1. worker' \in [Workers -> WorkerRow] /\ calls' \subseteq CallRow /\ Wire'
      BY <2>2, AnswerEffect
    <3> QED BY <1>4, <3>1 DEF CheckClaimed, Shape
  <2> QED BY <1>4, <2>1, <2>2 DEF CheckClaimed
<1>5. CASE Mark(m)
  <2> DEFINE status == IF m.kind = Confirming THEN Printed ELSE Failed
  <2>1. m.job \in DOMAIN jobs
    BY <1>5 DEF Mark, Claiming, Confirming, Reporting
  <2>2. jobs' = [jobs EXCEPT ![m.job].status = status] /\ status \in {Printed, Failed}
    BY <1>5 DEF Mark
  <2> HIDE DEF status
  <2>3. jobs' \in Seq(JobRow) /\ Len(jobs') <= MaxJobs
    BY <2>1, <2>2, MarkedRow
  <2>4. worker' \in [Workers -> WorkerRow] /\ calls' \subseteq CallRow /\ Wire'
    BY <1>5, AnswerEffect DEF Mark
  <2> QED BY <1>5, <2>3, <2>4 DEF Mark, Shape
<1> QED BY <1>2, <1>3, <1>4, <1>5 DEF Serve

LEMMA TimeOutTyped ==
    ASSUME Shape, Wire, NEW w \in Workers, TimeOut(w)
    PROVE  /\ Shape' /\ Wire'
           /\ Heard(w, Others(w) \cup GivenUp(w))
<1>1. Quiet(w, Others(w) \cup GivenUp(w))
  BY QuietByGivingUp DEF TimeOut
<1>2. Receive(w, Error, Others(w) \cup GivenUp(w))
  BY DEF TimeOut
<1>3. /\ worker' \in [Workers -> WorkerRow] /\ calls' \subseteq CallRow /\ Wire'
      /\ Heard(w, Others(w) \cup GivenUp(w))
  BY <1>1, <1>2, ReceiveEffect
<1>4. faults' \in 0..MaxFaults
  BY PrintQueueAssumption DEF TimeOut, Shape
<1> QED BY <1>3, <1>4 DEF TimeOut, Shape

LEMMA CrashTyped ==
    ASSUME Shape, Wire, NEW w \in Workers, Crash(w)
    PROVE  /\ Shape' /\ Wire'
           /\ Heard(w, Others(w) \cup GivenUp(w))
<1>1. Quiet(w, Others(w) \cup GivenUp(w))
  BY QuietByGivingUp DEF Crash
<1>2. NewCycle \in WorkerRow /\ NewCycle.pc = Idle /\ NewCycle.job = NoJob /\ NewCycle.copies = 0
  BY RowTypes DEF NewCycle
<1>3. worker' = [worker EXCEPT ![w] = NewCycle] /\ calls' = Others(w) \cup GivenUp(w)
  BY DEF Crash
<1>4. Wire'
  BY <1>1, <1>2, <1>3, WireKept
<1>5. faults' \in 0..MaxFaults
  BY PrintQueueAssumption DEF Crash, Shape
<1>6. Shape'
  BY <1>1, <1>2, <1>3, <1>5 DEF Crash, Shape, Quiet
<1> QED BY <1>2, <1>3, <1>4, <1>6 DEF Heard, Shape

LEMMA PrintCopyTyped ==
    ASSUME Shape, Wire, NEW w \in Workers, PrintCopy(w), Tried(worker[w].job)
    PROVE  /\ Shape' /\ Wire'
           /\ worker'[w].pc = Printing /\ worker'[w].job = worker[w].job
           /\ worker'[w].copies = worker[w].copies + 1
           /\ \A v \in Workers : v # w => worker'[v] = worker[v]
           /\ paper'[worker[w].job] = paper[worker[w].job] + 1
           /\ \A j \in 1..MaxJobs : j # worker[w].job => paper'[j] = paper[j]
<1> DEFINE r == [worker[w] EXCEPT !.copies = @ + 1]
<1>1. worker[w] \in WorkerRow /\ worker[w].pc = Printing
  BY DEF Shape, PrintCopy
<1>2. worker[w].copies < 2
  BY <1>1 DEF PrintCopy, Copies, WorkerRow
<1>3. r \in WorkerRow /\ r.pc = Printing /\ r.job = worker[w].job /\ r.copies = worker[w].copies + 1
  BY <1>1, <1>2 DEF WorkerRow
<1>4. worker' = [worker EXCEPT ![w] = r]
  BY DEF PrintCopy
<1> HIDE DEF r
<1>5. worker[w].job \in 1..MaxJobs
  BY RowsOfJobs DEF Tried
<1>6. paper' = [paper EXCEPT ![worker[w].job] = @ + 1]
  BY DEF PrintCopy, WriteCopy
<1>7. Quiet(w, calls) /\ calls' = calls
  BY <1>1, QuietAlready DEF PrintCopy
<1>8. Wire'
  BY <1>3, <1>4, <1>7, WireKept
<1>9. Shape'
  BY <1>3, <1>4, <1>5, <1>6, SMTT(30) DEF PrintCopy, Shape
<1> QED BY <1>3, <1>4, <1>5, <1>6, <1>8, <1>9 DEF Shape

-----------------------------------------------------------------------------
(* The inductive invariant.                                                *)

\* No job loses its attempts, its type, its printer or its paper.
Onward ==
    /\ DOMAIN jobs \subseteq DOMAIN jobs'
    /\ \A j \in DOMAIN jobs : /\ jobs'[j].attempts >= jobs[j].attempts
                              /\ jobs'[j].type = jobs[j].type
                              /\ jobs'[j].printer = jobs[j].printer
    /\ \A j \in 1..MaxJobs : paper'[j] >= paper[j]

LEMMA OnwardByDefault == Shape /\ UNCHANGED <<jobs, paper>> => Onward
<1> SUFFICES ASSUME Shape, UNCHANGED <<jobs, paper>> PROVE Onward
  OBVIOUS
<1>1. \A j \in DOMAIN jobs : jobs[j].attempts \in Nat
  BY RowsOfJobs DEF JobRow
<1>2. \A j \in 1..MaxJobs : paper[j] \in Nat
  BY DEF Shape
<1> QED BY <1>1, <1>2 DEF Onward

\* What workers and calls knew of a job stays so.
LEMMA KnowledgeKept ==
    ASSUME Shape, Shape', TriedOnly, Onward,
           \A v \in Workers : worker'[v] = worker[v] \/ WorkerKnows(v)',
           \A m \in calls' : CallKnows(m)' \/ \E n \in calls : m.kind = n.kind /\ m.job = n.job
    PROVE  /\ \A v \in Workers : WorkerKnows(v)'
           /\ \A m \in calls' : CallKnows(m)'
           /\ \A j : Tried(j) => Tried(j)'
<1>1. ASSUME NEW j, Tried(j)
      PROVE  Tried(j)' /\ Copies(j)' = Copies(j) /\ paper'[j] >= paper[j]
             /\ Copies(j) \in Nat /\ paper[j] \in Nat /\ paper'[j] \in Nat
  <2>1. j \in DOMAIN jobs /\ j \in DOMAIN jobs' /\ j \in 1..MaxJobs
    BY <1>1, RowsOfJobs DEF Tried, Onward
  <2>2. jobs[j].attempts \in Nat
    BY <2>1, RowsOfJobs DEF JobRow
  <2>3. jobs'[j] \in JobRow
    BY <2>1 DEF Shape
  <2>4. jobs'[j].attempts \in Nat
    BY <2>3 DEF JobRow
  <2>5. paper[j] \in Nat /\ paper'[j] \in Nat
    BY <2>1 DEF Shape
  <2> QED BY <1>1, <2>1, <2>2, <2>4, <2>5 DEF Tried, Onward, Copies
<1>2. ASSUME NEW v \in Workers, worker'[v] = worker[v] PROVE WorkerKnows(v)'
  <2>1. WorkerKnows(v)
    BY DEF TriedOnly
  <2>2. worker[v].copies \in Nat
    BY DEF Shape, WorkerRow
  <2> QED BY <1>1, <1>2, <2>1, <2>2 DEF WorkerKnows, Idle, Claiming, Printing
<1>3. ASSUME NEW m \in calls', NEW n \in calls, m.kind = n.kind, m.job = n.job PROVE CallKnows(m)'
  <2>1. CallKnows(n)
    BY DEF TriedOnly
  <2> QED BY <1>1, <1>3, <2>1 DEF CallKnows, Claiming, Confirming
<1> QED BY <1>1, <1>2, <1>3

\* The call a worker waits for tells where the worker is.
LEMMA AwaitedCall ==
    ASSUME Shape, Wire, NEW m \in calls, m.late = 0
    PROVE  /\ m.from \in Workers
           /\ Awaits(m.from, m)
           /\ worker[m.from].pc \notin {Idle, Printing}
<1>1. m.from \in Workers /\ m \in WaitedFor(m.from)
  BY DEF Shape, CallRow, WaitedFor
<1> QED BY <1>1 DEF Wire

\* What a worker that hears an outcome knows, and the call it may send.
LEMMA HeardKnows ==
    ASSUME Shape, Shape', TriedOnly, Onward, NEW w \in Workers, NEW rest, Heard(w, rest),
           \A m \in rest : \E n \in calls : m.kind = n.kind /\ m.job = n.job
    PROVE  /\ \A v \in Workers : WorkerKnows(v)'
           /\ \A m \in calls' : CallKnows(m)'
           /\ \A j : Tried(j) => Tried(j)'
<1>1. ASSUME NEW j, Tried(j) PROVE Tried(j)'
  <2>1. j \in DOMAIN jobs /\ j \in DOMAIN jobs'
    BY <1>1 DEF Tried, Onward
  <2>2. jobs[j].attempts \in Nat /\ jobs'[j].attempts \in Nat
    <3>1. jobs[j] \in JobRow /\ jobs'[j] \in JobRow
      BY <2>1 DEF Shape
    <3> QED BY <3>1 DEF JobRow
  <2> QED BY <1>1, <2>1, <2>2 DEF Tried, Onward
<1>2. CASE /\ worker'[w].pc = Idle /\ worker'[w].job = NoJob /\ worker'[w].copies = 0
           /\ calls' = rest
  <2>1. WorkerKnows(w)'
    BY <1>2 DEF WorkerKnows, Idle, Printing, Claiming
  <2> QED BY <1>2, <2>1, KnowledgeKept DEF Heard
<1>3. ASSUME worker[w].pc = Confirming,
             worker'[w].pc = Reporting, worker'[w].job = worker[w].job,
             NEW n \in CallRow, n.kind = Reporting, n.job = worker[w].job,
             calls' = rest \cup {n}
      PROVE  /\ WorkerKnows(w)'
             /\ CallKnows(n)'
  <2>1. Tried(worker[w].job)
    BY <1>3 DEF TriedOnly, WorkerKnows, Idle, Claiming, Confirming
  <2>2. Tried(worker[w].job)'
    BY <1>1, <1>3, <2>1 DEF Tried
  <2> QED BY <1>3, <2>2 DEF WorkerKnows, CallKnows, Tried, Idle, Claiming, Printing, Reporting,
                            Confirming
<1>4. CASE /\ worker[w].pc = Confirming
           /\ worker'[w].pc = Reporting /\ worker'[w].job = worker[w].job
           /\ \E n \in CallRow : /\ n.kind = Reporting /\ n.job = worker[w].job
                                 /\ n.from = w /\ n.late = 0
                                 /\ calls' = rest \cup {n}
  <2>1. PICK n \in CallRow : /\ n.kind = Reporting /\ n.job = worker[w].job
                             /\ calls' = rest \cup {n}
    BY <1>4
  <2>2. WorkerKnows(w)' /\ CallKnows(n)'
    BY <1>3, <1>4, <2>1
  <2>3. \A v \in Workers : worker'[v] = worker[v] \/ WorkerKnows(v)'
    BY <2>2 DEF Heard
  <2>4. \A m \in calls' : CallKnows(m)' \/ \E k \in calls : m.kind = k.kind /\ m.job = k.job
    BY <2>1, <2>2
  <2> QED BY <2>3, <2>4, KnowledgeKept
<1> QED BY <1>2, <1>4 DEF Heard

\* A step that leaves the rows and the paper alone.
LEMMA RowsKept ==
    ASSUME IInv, UNCHANGED <<jobs, paper>>
    PROVE  /\ \A j \in DOMAIN jobs' : jobs'[j].status # Pending => jobs'[j].attempts > 0
           /\ PrintedCameOut'
           /\ TriedInOrder'
  BY DEF IInv, TriedOnly, PrintedCameOut, TriedInOrder, Copies

LEMMA InitIInv == Init => IInv
<1> SUFFICES ASSUME Init PROVE IInv
  OBVIOUS
<1>1. Shape /\ Wire
  BY InitTyped
<1>2. DOMAIN jobs = {} /\ calls = {}
  BY DEF Init
<1>3. \A w \in Workers : WorkerKnows(w)
  BY DEF Init, WorkerKnows, Idle, Claiming, Printing
<1>4. \A c \in Clerks : clerk[c] = {}
  BY DEF Init
<1> QED BY <1>1, <1>2, <1>3, <1>4
        DEF IInv, TriedOnly, PrintedCameOut, TriedInOrder, NoneLate, ClaimedIsHeld

LEMMA AddJobKeepsIInv ==
    ASSUME IInv, NEW printer \in 1..Printers, NEW type, AddJob(printer, type)
    PROVE  IInv'
<1> DEFINE new == Len(jobs) + 1
<1>1. /\ jobs' \in Seq(JobRow)
      /\ Len(jobs') <= MaxJobs
      /\ DOMAIN jobs' = DOMAIN jobs \cup {new}
      /\ new \notin DOMAIN jobs
      /\ \A j \in DOMAIN jobs : j < new /\ jobs'[j] = jobs[j]
      /\ jobs'[new] = NewJob(printer, type)
  BY AddedRow DEF IInv
<1> HIDE DEF new
<1>2. jobs'[new].status = Pending /\ jobs'[new].attempts = 0
  BY <1>1 DEF NewJob
<1>3. UNCHANGED <<paper, worker, calls, clerk, shared, faults>>
  BY DEF AddJob
<1>4. Shape'
  BY <1>1, <1>3 DEF IInv, Shape
<1>5. Wire'
  BY <1>3 DEF IInv, Wire, WaitedFor, Awaits
<1>6. Onward
  <2>1. \A j \in DOMAIN jobs : jobs[j].attempts \in Nat
    BY RowsOfJobs DEF IInv, JobRow
  <2>2. \A j \in 1..MaxJobs : paper[j] \in Nat
    BY DEF IInv, Shape
  <2> QED BY <1>1, <1>3, <2>1, <2>2 DEF Onward
<1>7. /\ \A v \in Workers : WorkerKnows(v)'
      /\ \A m \in calls' : CallKnows(m)'
      /\ \A j : Tried(j) => Tried(j)'
  BY <1>3, <1>4, <1>6, KnowledgeKept DEF IInv
<1>8. TriedOnly'
  BY <1>1, <1>2, <1>3, <1>7 DEF IInv, TriedOnly
<1>9. PrintedCameOut'
  BY <1>1, <1>2, <1>3 DEF IInv, PrintedCameOut, Copies, Pending, Printed
<1>10. TriedInOrder'
  <2> SUFFICES ASSUME NEW j \in DOMAIN jobs', NEW k \in DOMAIN jobs', j < k,
                      jobs'[j].printer = jobs'[k].printer, jobs'[k].attempts > 0
               PROVE  jobs'[j].attempts > 0
    BY DEF TriedInOrder
  <2>1. k \in DOMAIN jobs
    BY <1>1, <1>2
  <2>2. j \in DOMAIN jobs
    BY <1>1, <2>1, RowsOfJobs DEF IInv, new
  <2> QED BY <1>1, <2>1, <2>2 DEF IInv, TriedInOrder
<1>11. NoneLate' /\ ClaimedIsHeld'
  BY <1>1, <1>2, <1>3 DEF IInv, NoneLate, ClaimedIsHeld, Pending, Claimed
<1> QED BY <1>4, <1>5, <1>8, <1>9, <1>10, <1>11 DEF IInv

LEMMA SendClaimKeepsIInv ==
    ASSUME IInv, NEW w \in Workers, SendClaim(w)
    PROVE  IInv'
<1>0. PICK n \in CallRow : n = Call(w, Claiming, NoJob) /\ n.kind = Claiming /\ n.late = 0
  <2>1. NoJob \in 0..MaxJobs /\ Claiming \in Kinds
    BY PrintQueueAssumption DEF NoJob, Kinds
  <2> QED BY <2>1, CallType DEF IInv
<1>1. /\ worker[w].pc = Idle /\ worker[w] \in WorkerRow
      /\ worker' = [worker EXCEPT ![w].pc = Claiming]
      /\ calls' = calls \cup {n}
      /\ UNCHANGED <<jobs, paper, clerk, shared, faults>>
  BY <1>0 DEF SendClaim, IInv, Shape
<1>2. Shape' /\ Wire'
  <2>1. NoJob \in 0..MaxJobs /\ Claiming \in Kinds
    BY PrintQueueAssumption DEF NoJob, Kinds
  <2> QED BY <1>0, <1>1, <2>1, SendTyped DEF IInv
<1>4. /\ worker'[w].pc = Claiming /\ worker'[w].job = worker[w].job
      /\ worker'[w].copies = worker[w].copies
      /\ \A v \in Workers : v # w => worker'[v] = worker[v]
  BY <1>1 DEF IInv, Shape, WorkerRow
<1>5. WorkerKnows(w)'
  <2>1. WorkerKnows(w)
    BY DEF IInv, TriedOnly
  <2> QED BY <1>1, <1>4, <2>1 DEF WorkerKnows, Idle, Claiming, Printing
<1>6. CallKnows(n)'
  BY <1>0 DEF CallKnows, Claiming, Confirming
<1>7. Onward
  BY <1>1, OnwardByDefault DEF IInv
<1>8. /\ \A v \in Workers : WorkerKnows(v)'
      /\ \A m \in calls' : CallKnows(m)'
      /\ \A j : Tried(j) => Tried(j)'
  BY <1>1, <1>2, <1>4, <1>5, <1>6, <1>7, KnowledgeKept DEF IInv
<1>9. TriedOnly' /\ PrintedCameOut' /\ TriedInOrder'
  BY <1>1, <1>8, RowsKept DEF TriedOnly, IInv
<1>10. NoneLate'
  BY <1>0, <1>1 DEF IInv, NoneLate
<1>11. ClaimedIsHeld'
  BY <1>1, <1>4 DEF IInv, ClaimedIsHeld
<1> QED BY <1>2, <1>9, <1>10, <1>11 DEF IInv

LEMMA PrintCopyKeepsIInv ==
    ASSUME IInv, NEW w \in Workers, PrintCopy(w)
    PROVE  IInv'
<1>1. /\ worker[w].pc = Printing
      /\ worker[w].copies < Copies(worker[w].job)
      /\ UNCHANGED <<jobs, calls, clerk, shared, faults>>
  BY DEF PrintCopy
<1>0. PICK j \in 0..MaxJobs : j = worker[w].job
  BY DEF IInv, Shape, WorkerRow
<1>2. WorkerKnows(w) /\ Tried(j)
  BY <1>0, <1>1 DEF IInv, TriedOnly, WorkerKnows, Idle, Claiming, Printing
<1>3. /\ Shape' /\ Wire'
      /\ worker'[w].pc = Printing /\ worker'[w].job = j
      /\ worker'[w].copies = worker[w].copies + 1
      /\ \A v \in Workers : v # w => worker'[v] = worker[v]
      /\ paper'[j] = paper[j] + 1
      /\ \A k \in 1..MaxJobs : k # j => paper'[k] = paper[k]
  BY <1>0, <1>2, PrintCopyTyped DEF IInv
<1>4. /\ worker[w].copies \in Nat /\ Copies(j) \in Nat
      /\ \A k \in 1..MaxJobs : paper[k] \in Nat
  <2>1. worker[w] \in WorkerRow /\ paper \in [1..MaxJobs -> Nat]
    BY DEF IInv, Shape
  <2> QED BY <2>1 DEF WorkerRow, Copies
<1>5. j \in 1..MaxJobs /\ DOMAIN jobs \subseteq 1..MaxJobs
  BY <1>2, RowsOfJobs DEF Tried, IInv
<1>6. Onward
  <2>1. \A k \in DOMAIN jobs : jobs[k].attempts \in Nat
    BY RowsOfJobs DEF IInv, JobRow
  <2> QED BY <1>1, <1>3, <1>4, <2>1 DEF Onward
<1>7. WorkerKnows(w)'
  <2>1. worker[w].copies < Copies(j) /\ worker[w].copies <= paper[j]
    BY <1>0, <1>1, <1>2 DEF WorkerKnows
  <2>2. Tried(j)' /\ Copies(j)' = Copies(j)
    BY <1>1, <1>2 DEF Tried, Copies
  <2> QED BY <1>3, <1>4, <1>5, <2>1, <2>2 DEF WorkerKnows, Idle, Claiming, Printing
<1>8. /\ \A v \in Workers : WorkerKnows(v)'
      /\ \A m \in calls' : CallKnows(m)'
      /\ \A k : Tried(k) => Tried(k)'
  BY <1>1, <1>3, <1>6, <1>7, KnowledgeKept DEF IInv
<1>9. TriedOnly'
  BY <1>1, <1>8 DEF TriedOnly, IInv
<1>10. PrintedCameOut'
  <2> SUFFICES ASSUME NEW k \in DOMAIN jobs, jobs[k].status = Printed
               PROVE  paper'[k] >= Copies(k)
    BY <1>1 DEF PrintedCameOut, Copies
  <2>1. paper[k] >= Copies(k) /\ Copies(k) \in Nat /\ k \in 1..MaxJobs
    BY <1>5 DEF IInv, PrintedCameOut, Copies
  <2> QED BY <1>3, <1>4, <1>5, <2>1
<1>11. TriedInOrder' /\ NoneLate'
  BY <1>1 DEF IInv, TriedInOrder, NoneLate
<1>12. ClaimedIsHeld'
  BY <1>0, <1>1, <1>3 DEF IInv, ClaimedIsHeld
<1> QED BY <1>3, <1>9, <1>10, <1>11, <1>12 DEF IInv

\* A worker that is printing posts the outcome.
LEMMA PostKeepsIInv ==
    ASSUME IInv, NEW w \in Workers, NEW kind \in {Confirming, Reporting},
           worker[w].pc = Printing,
           kind = Confirming => worker[w].copies = Copies(worker[w].job),
           worker' = [worker EXCEPT ![w].pc = kind],
           calls' = calls \cup {Call(w, kind, worker[w].job)},
           UNCHANGED <<jobs, paper, clerk, shared, faults>>
    PROVE  IInv'
<1>1. worker[w] \in WorkerRow
  BY DEF IInv, Shape
<1>0. PICK j \in 0..MaxJobs : j = worker[w].job
  BY <1>1 DEF WorkerRow
<1>2. Shape' /\ Wire'
  BY <1>0, SendTyped DEF IInv, Kinds
<1>3. PICK n \in CallRow : /\ n.kind = kind /\ n.late = 0 /\ n.job = j
                         /\ n = Call(w, kind, worker[w].job)
  BY <1>0, CallType DEF IInv, Kinds
<1>4. calls' = calls \cup {n}
  BY <1>3
<1>5. /\ worker'[w].pc = kind /\ worker'[w].job = j
      /\ \A v \in Workers : v # w => worker'[v] = worker[v]
  BY <1>0, <1>1 DEF IInv, Shape, WorkerRow
<1>6. WorkerKnows(w) /\ Tried(j)
  BY <1>0 DEF IInv, TriedOnly, WorkerKnows, Idle, Claiming, Printing
<1>7. Tried(j)' /\ Copies(j)' = Copies(j)
  BY <1>6 DEF Tried, Copies
<1>8. WorkerKnows(w)'
  BY <1>5, <1>7 DEF WorkerKnows, Idle, Claiming, Printing, Confirming, Reporting
<1>9. CallKnows(n)'
  <2>1. kind = Confirming => paper[j] >= Copies(j)
    <3>1. worker[w].copies <= paper[j] /\ worker[w].copies \in Nat
      BY <1>0, <1>1, <1>6 DEF WorkerKnows, WorkerRow
    <3>2. paper[j] \in Nat
      BY <1>6, RowsOfJobs DEF Tried, IInv, Shape
    <3> QED BY <1>0, <3>1, <3>2
  <2> QED BY <1>3, <1>7, <2>1 DEF CallKnows
<1>10. Onward
  BY OnwardByDefault DEF IInv
<1>11. /\ \A v \in Workers : WorkerKnows(v)'
       /\ \A m \in calls' : CallKnows(m)'
       /\ \A k : Tried(k) => Tried(k)'
  BY <1>2, <1>4, <1>5, <1>8, <1>9, <1>10, KnowledgeKept DEF IInv
<1>12. TriedOnly' /\ PrintedCameOut' /\ TriedInOrder'
  BY <1>11, RowsKept DEF TriedOnly, IInv
<1>13. NoneLate'
  BY <1>3, <1>4 DEF IInv, NoneLate
<1>14. ClaimedIsHeld'
  BY <1>0, <1>5 DEF IInv, ClaimedIsHeld
<1> QED BY <1>2, <1>12, <1>13, <1>14 DEF IInv

LEMMA FaultKeepsIInv ==
    ASSUME IInv, NEW w \in Workers, TimeOut(w) \/ Crash(w)
    PROVE  IInv'
<1>1. Shape' /\ Wire' /\ Heard(w, Others(w) \cup GivenUp(w))
  BY TimeOutTyped, CrashTyped DEF IInv
<1>2. UNCHANGED <<jobs, paper, clerk, shared>> /\ faults' = faults + 1 /\ faults < MaxFaults
  BY DEF TimeOut, Crash
<1>3. faults' # 0
  BY <1>2 DEF IInv, Shape
<1>4. Onward
  BY <1>2, OnwardByDefault DEF IInv
<1>5. \A m \in Others(w) \cup GivenUp(w) : \E n \in calls : m.kind = n.kind /\ m.job = n.job
  BY <1>2, QuietByGivingUp DEF Others, IInv
<1>6. /\ \A v \in Workers : WorkerKnows(v)'
      /\ \A m \in calls' : CallKnows(m)'
      /\ \A j : Tried(j) => Tried(j)'
  BY <1>1, <1>4, <1>5, HeardKnows DEF IInv
<1>7. TriedOnly' /\ PrintedCameOut' /\ TriedInOrder'
  BY <1>2, <1>6, RowsKept DEF TriedOnly, IInv
<1>8. NoneLate' /\ ClaimedIsHeld'
  BY <1>3 DEF NoneLate, ClaimedIsHeld
<1> QED BY <1>1, <1>7, <1>8 DEF IInv

LEMMA ServedJobs ==
    ASSUME IInv
    PROVE  \A m \in calls : m.kind # Claiming => m.job \in DOMAIN jobs
  BY DEF IInv, TriedOnly, CallKnows, Tried

LEMMA RestIsOfCalls ==
    ASSUME NEW m \in calls
    PROVE  \A k \in calls \ {m} : \E n \in calls : k.kind = n.kind /\ k.job = n.job
  OBVIOUS

\* An answer that says nothing of any row.
LEMMA AnswerKeepsIInv ==
    ASSUME IInv, NEW m \in calls, NEW outcome \in {OK, Error}, Answer(m, outcome),
           UNCHANGED <<jobs, paper, clerk, shared, faults>>,
           \/ m.kind = Claiming
           \/ ~(jobs[m.job].status = Claimed /\ jobs[m.job].by = m.from)
    PROVE  IInv'
<1>1. /\ m.from \in Workers
      /\ worker' \in [Workers -> WorkerRow]
      /\ calls' \subseteq CallRow
      /\ Wire'
      /\ \/ m.late = 0 /\ Heard(m.from, calls \ {m})
         \/ m.late # 0 /\ calls' = calls \ {m} /\ worker' = worker
  BY AnswerEffect DEF IInv
<1>2. Shape'
  BY <1>1 DEF IInv, Shape
<1>3. Onward
  BY OnwardByDefault DEF IInv
<1>4. /\ \A v \in Workers : WorkerKnows(v)'
      /\ \A n \in calls' : CallKnows(n)'
      /\ \A j : Tried(j) => Tried(j)'
  <2>1. CASE m.late = 0 /\ Heard(m.from, calls \ {m})
    BY <1>1, <1>2, <1>3, <2>1, HeardKnows, RestIsOfCalls DEF IInv
  <2>2. CASE m.late # 0 /\ calls' = calls \ {m} /\ worker' = worker
    BY <1>2, <1>3, <2>2, KnowledgeKept DEF IInv
  <2> QED BY <1>1, <2>1, <2>2
<1>5. TriedOnly' /\ PrintedCameOut' /\ TriedInOrder'
  BY <1>4, RowsKept DEF TriedOnly, IInv
<1>6. NoneLate'
  <2> SUFFICES ASSUME faults = 0, NEW n \in calls' PROVE n.late = 0
    BY DEF NoneLate
  <2>1. n \in calls \/ n.late = 0
    BY <1>1 DEF Heard
  <2> QED BY <2>1 DEF IInv, NoneLate
<1>7. ClaimedIsHeld'
  <2> SUFFICES ASSUME faults = 0, NEW j \in DOMAIN jobs, jobs[j].status = Claimed
               PROVE  \E w \in Workers : jobs[j].by = w /\ worker'[w].job = j
    BY DEF ClaimedIsHeld
  <2>1. PICK w \in Workers : jobs[j].by = w /\ worker[w].job = j
    BY DEF IInv, ClaimedIsHeld
  <2>2. m.late = 0
    BY DEF IInv, NoneLate
  <2>3. Awaits(m.from, m)
    BY <2>2, AwaitedCall DEF IInv
  <2>4. w # m.from
    <3>1. CASE m.kind = Claiming
      <4>1. worker[m.from].job = NoJob
        BY <1>1, <2>3, <3>1 DEF Awaits, IInv, TriedOnly, WorkerKnows
      <4>2. j # NoJob
        BY RowsOfJobs DEF IInv, NoJob
      <4> QED BY <2>1, <4>1, <4>2
    <3>2. CASE m.kind # Claiming
      BY <2>1, <2>3, <3>2 DEF Awaits
    <3> QED BY <3>1, <3>2
  <2>5. worker'[w] = worker[w]
    BY <1>1, <2>2, <2>4 DEF Heard
  <2> QED BY <2>1, <2>5
<1> QED BY <1>1, <1>2, <1>5, <1>6, <1>7 DEF IInv

LEMMA CheckClaimedKeepsIInv ==
    ASSUME IInv, NEW m \in calls, CheckClaimed(m)
    PROVE  IInv'
<1>1. CASE jobs[m.job].status = Claimed /\ jobs[m.job].by = m.from
  <2>1. PICK n \in CallRow : /\ n.kind = m.kind /\ n.job = m.job /\ n.late = m.late
                             /\ calls' = (calls \ {m}) \cup {n}
    <3>1. m \in CallRow
      BY DEF IInv, Shape
    <3>2. [m EXCEPT !.read = TRUE] \in CallRow
      BY <3>1 DEF CallRow
    <3>3. /\ [m EXCEPT !.read = TRUE].kind = m.kind
          /\ [m EXCEPT !.read = TRUE].job = m.job
          /\ [m EXCEPT !.read = TRUE].late = m.late
      BY <3>1 DEF CallRow
    <3> QED BY <1>1, <3>2, <3>3 DEF CheckClaimed
  <2>2. UNCHANGED <<jobs, paper, worker, clerk, shared, faults>>
    BY <1>1 DEF CheckClaimed
  <2>3. Shape' /\ Wire'
    BY ServeTyped, ServedJobs DEF IInv, Serve
  <2>4. Onward
    BY <2>2, OnwardByDefault DEF IInv
  <2>5. \A k \in calls' : \E l \in calls : k.kind = l.kind /\ k.job = l.job
    BY <2>1
  <2>6. /\ \A v \in Workers : WorkerKnows(v)'
        /\ \A k \in calls' : CallKnows(k)'
        /\ \A j : Tried(j) => Tried(j)'
    BY <2>2, <2>3, <2>4, <2>5, KnowledgeKept DEF IInv
  <2>7. TriedOnly' /\ PrintedCameOut' /\ TriedInOrder'
    BY <2>2, <2>6, RowsKept DEF TriedOnly, IInv
  <2>8. NoneLate' /\ ClaimedIsHeld'
    BY <2>1, <2>2 DEF IInv, NoneLate, ClaimedIsHeld
  <2> QED BY <2>3, <2>7, <2>8 DEF IInv
<1>2. CASE ~(jobs[m.job].status = Claimed /\ jobs[m.job].by = m.from)
  BY <1>2, AnswerKeepsIInv DEF CheckClaimed
<1> QED BY <1>1, <1>2

LEMMA ClaimNothingKeepsIInv ==
    ASSUME IInv, NEW m \in calls, ClaimNothing(m)
    PROVE  IInv'
  BY AnswerKeepsIInv DEF ClaimNothing

LEMMA ClaimNextKeepsIInv ==
    ASSUME IInv, NEW m \in calls, ClaimNext(m)
    PROVE  IInv'
<1>1. PICK j \in NextAt(m.printer) :
         /\ jobs' = [jobs EXCEPT ![j].status = Claimed, ![j].by = m.from,
                                 ![j].attempts = @ + 1]
         /\ \/ m.late = 0 /\ TakeJob(m.from, j, calls \ {m})
            \/ m.late > 0 /\ calls' = calls \ {m} /\ UNCHANGED worker
  BY DEF ClaimNext
<1>2. /\ m.kind = Claiming
      /\ UNCHANGED <<paper, clerk, shared, faults>>
  BY DEF ClaimNext
<1>3. m \in CallRow /\ m.from \in Workers
  BY DEF IInv, Shape, CallRow
<1>4. /\ j \in DOMAIN jobs
      /\ \A k \in DOMAIN jobs :
            jobs[k].status = Pending /\ jobs[k].printer = jobs[j].printer => j <= k
  BY DEF NextAt, PendingAt
<1>5. /\ jobs' \in Seq(JobRow)
      /\ DOMAIN jobs' = DOMAIN jobs
      /\ \A k \in DOMAIN jobs : k # j => jobs'[k] = jobs[k]
      /\ jobs'[j].status = Claimed
      /\ jobs'[j].by = m.from
      /\ jobs'[j].attempts = jobs[j].attempts + 1
      /\ jobs'[j].printer = jobs[j].printer
      /\ jobs'[j].type = jobs[j].type
  BY <1>1, <1>3, <1>4, ClaimedRow DEF IInv
<1>6. Shape' /\ Wire'
  BY ServeTyped, ServedJobs DEF IInv, Serve
<1>7. \A k \in DOMAIN jobs : jobs[k].attempts \in Nat
  BY RowsOfJobs DEF IInv, JobRow
<1>8. jobs'[j].attempts > 0
  BY <1>4, <1>5, <1>7
<1>9. Onward
  <2>1. \A k \in 1..MaxJobs : paper[k] \in Nat
    BY DEF IInv, Shape
  <2> QED BY <1>2, <1>5, <1>7, <2>1 DEF Onward
<1>10. \A k \in calls' : k \in calls
  BY <1>1 DEF TakeJob
<1>11. ASSUME m.late = 0, TakeJob(m.from, j, calls \ {m})
       PROVE  /\ \A v \in Workers : WorkerKnows(v)'
              /\ \A k \in calls' : CallKnows(k)'
              /\ \A k : Tried(k) => Tried(k)'
              /\ ClaimedIsHeld'
  <2>1. /\ worker[m.from].pc = Claiming
        /\ worker[m.from] \in WorkerRow
    BY <1>2, <1>11, AwaitedCall DEF IInv, Awaits, Shape
  <2>2. WorkerKnows(m.from)
    BY <1>3 DEF IInv, TriedOnly
  <2>3. worker[m.from].job = NoJob /\ worker[m.from].copies = 0
    BY <2>1, <2>2 DEF WorkerKnows
  <2>4. /\ worker'[m.from].pc = Printing /\ worker'[m.from].job = j
        /\ worker'[m.from].copies = 0
        /\ \A v \in Workers : v # m.from => worker'[v] = worker[v]
    BY <1>3, <1>11, <2>1, <2>3 DEF TakeJob, IInv, Shape, WorkerRow
  <2>5. WorkerKnows(m.from)'
    <3>1. Tried(j)'
      BY <1>4, <1>5, <1>8 DEF Tried
    <3>2. paper'[j] \in Nat /\ Copies(j)' \in Nat
      BY <1>4, <1>6, RowsOfJobs DEF IInv, Shape, Copies
    <3> QED BY <2>4, <3>1, <3>2 DEF WorkerKnows, Idle, Claiming, Printing
  <2>6. /\ \A v \in Workers : WorkerKnows(v)'
        /\ \A k \in calls' : CallKnows(k)'
        /\ \A k : Tried(k) => Tried(k)'
    BY <1>6, <1>9, <1>10, <2>4, <2>5, KnowledgeKept DEF IInv
  <2>7. ClaimedIsHeld'
    <3> SUFFICES ASSUME faults = 0, NEW k \in DOMAIN jobs, jobs'[k].status = Claimed
                 PROVE  \E w \in Workers : jobs'[k].by = w /\ worker'[w].job = k
      BY <1>2, <1>5 DEF ClaimedIsHeld
    <3>1. CASE k = j
      BY <1>3, <1>5, <2>4, <3>1
    <3>2. CASE k # j
      <4>1. jobs'[k] = jobs[k]
        BY <1>5, <3>2
      <4>2. PICK w \in Workers : jobs[k].by = w /\ worker[w].job = k
        BY <4>1 DEF IInv, ClaimedIsHeld
      <4>3. k # NoJob
        BY RowsOfJobs DEF IInv, NoJob
      <4> QED BY <2>3, <2>4, <4>1, <4>2, <4>3
    <3> QED BY <3>1, <3>2
  <2> QED BY <2>6, <2>7
<1>12. ASSUME m.late > 0, calls' = calls \ {m}, UNCHANGED worker
       PROVE  /\ \A v \in Workers : WorkerKnows(v)'
              /\ \A k \in calls' : CallKnows(k)'
              /\ \A k : Tried(k) => Tried(k)'
              /\ ClaimedIsHeld'
  <2>1. /\ \A v \in Workers : WorkerKnows(v)'
        /\ \A k \in calls' : CallKnows(k)'
        /\ \A k : Tried(k) => Tried(k)'
    BY <1>6, <1>9, <1>10, <1>12, KnowledgeKept DEF IInv
  <2>2. faults # 0
    BY <1>12 DEF IInv, NoneLate
  <2> QED BY <1>2, <2>1, <2>2 DEF ClaimedIsHeld
<1>13. /\ \A v \in Workers : WorkerKnows(v)'
       /\ \A k \in calls' : CallKnows(k)'
       /\ \A k : Tried(k) => Tried(k)'
       /\ ClaimedIsHeld'
  BY <1>1, <1>11, <1>12
<1>14. TriedOnly'
  BY <1>2, <1>5, <1>8, <1>13 DEF IInv, TriedOnly
<1>15. PrintedCameOut'
  BY <1>2, <1>5 DEF IInv, PrintedCameOut, Copies, Claimed, Printed
<1>16. TriedInOrder'
  <2> SUFFICES ASSUME NEW k \in DOMAIN jobs, NEW l \in DOMAIN jobs, k < l,
                      jobs'[k].printer = jobs'[l].printer, jobs'[l].attempts > 0
               PROVE  jobs'[k].attempts > 0
    BY <1>5 DEF TriedInOrder
  <2>1. jobs[k].printer = jobs[l].printer
    BY <1>5
  <2>2. CASE l = j
    <3>1. jobs[k].status # Pending
      BY <1>4, <2>1, <2>2, RowsOfJobs DEF IInv
    <3> QED BY <1>5, <1>8, <3>1 DEF IInv, TriedOnly
  <2>3. CASE l # j
    <3>1. jobs[k].attempts > 0
      BY <1>5, <2>1, <2>3 DEF IInv, TriedInOrder
    <3> QED BY <1>5, <1>8, <3>1
  <2> QED BY <2>2, <2>3
<1>17. NoneLate'
  BY <1>2, <1>10 DEF IInv, NoneLate
<1> QED BY <1>6, <1>13, <1>14, <1>15, <1>16, <1>17 DEF IInv

LEMMA MarkKeepsIInv ==
    ASSUME IInv, NEW m \in calls, Mark(m)
    PROVE  IInv'
<1>1. /\ m.kind \in {Confirming, Reporting}
      /\ UNCHANGED <<paper, clerk, shared, faults>>
      /\ Answer(m, OK)
  BY DEF Mark
<1>2. CallKnows(m) /\ m.kind # Claiming
  BY <1>1 DEF IInv, TriedOnly, Claiming, Confirming, Reporting
<1>3. Tried(m.job) /\ m.job \in DOMAIN jobs
  BY <1>2 DEF CallKnows, Tried
<1>4. PICK status \in {Printed, Failed} :
         /\ status = Printed => m.kind = Confirming
         /\ jobs' = [jobs EXCEPT ![m.job].status = status]
  BY DEF Mark, Printed, Failed
<1>5. /\ jobs' \in Seq(JobRow)
      /\ DOMAIN jobs' = DOMAIN jobs
      /\ \A k \in DOMAIN jobs : k # m.job => jobs'[k] = jobs[k]
      /\ jobs'[m.job].status = status
      /\ jobs'[m.job].by = jobs[m.job].by
      /\ jobs'[m.job].attempts = jobs[m.job].attempts
      /\ jobs'[m.job].printer = jobs[m.job].printer
      /\ jobs'[m.job].type = jobs[m.job].type
  BY <1>3, <1>4, MarkedRow DEF IInv
<1>6. Shape' /\ Wire'
  BY ServeTyped, ServedJobs DEF IInv, Serve
<1>7. \A k \in DOMAIN jobs : jobs'[k].attempts = jobs[k].attempts
                           /\ jobs'[k].printer = jobs[k].printer
                           /\ jobs'[k].type = jobs[k].type
  BY <1>5
<1>8. Onward
  <2>1. \A k \in DOMAIN jobs : jobs[k].attempts \in Nat
    BY RowsOfJobs DEF IInv, JobRow
  <2>2. \A k \in 1..MaxJobs : paper[k] \in Nat
    BY DEF IInv, Shape
  <2> QED BY <1>1, <1>5, <1>7, <2>1, <2>2 DEF Onward
<1>9. /\ m.from \in Workers
      /\ \/ m.late = 0 /\ Heard(m.from, calls \ {m})
         \/ m.late # 0 /\ calls' = calls \ {m} /\ worker' = worker
  BY <1>1, AnswerEffect DEF IInv
<1>10. /\ \A v \in Workers : WorkerKnows(v)'
       /\ \A n \in calls' : CallKnows(n)'
       /\ \A j : Tried(j) => Tried(j)'
  <2>1. CASE m.late = 0 /\ Heard(m.from, calls \ {m})
    BY <1>6, <1>8, <1>9, <2>1, HeardKnows, RestIsOfCalls DEF IInv
  <2>2. CASE m.late # 0 /\ calls' = calls \ {m} /\ worker' = worker
    BY <1>6, <1>8, <2>2, KnowledgeKept DEF IInv
  <2> QED BY <1>9, <2>1, <2>2
<1>11. TriedOnly'
  BY <1>1, <1>3, <1>5, <1>7, <1>10 DEF IInv, TriedOnly, Tried
<1>12. PrintedCameOut'
  <2> SUFFICES ASSUME NEW j \in DOMAIN jobs, jobs'[j].status = Printed
               PROVE  paper[j] >= Copies(j)
    BY <1>1, <1>5, <1>7 DEF PrintedCameOut, Copies
  <2>1. CASE j = m.job
    BY <1>2, <1>4, <1>5, <2>1 DEF CallKnows
  <2>2. CASE j # m.job
    BY <1>5, <2>2 DEF IInv, PrintedCameOut
  <2> QED BY <2>1, <2>2
<1>13. TriedInOrder'
  BY <1>5, <1>7 DEF IInv, TriedInOrder
<1>14. NoneLate'
  BY <1>1, <1>9 DEF IInv, NoneLate, Heard
<1>15. ClaimedIsHeld'
  <2> SUFFICES ASSUME faults = 0, NEW j \in DOMAIN jobs, jobs'[j].status = Claimed
               PROVE  \E w \in Workers : jobs'[j].by = w /\ worker'[w].job = j
    BY <1>1, <1>5 DEF ClaimedIsHeld
  <2>1. j # m.job /\ jobs'[j] = jobs[j]
    BY <1>5 DEF Claimed, Printed, Failed
  <2>2. PICK w \in Workers : jobs[j].by = w /\ worker[w].job = j
    BY <2>1 DEF IInv, ClaimedIsHeld
  <2>3. m.late = 0
    BY DEF IInv, NoneLate
  <2>4. worker[m.from].job = m.job
    BY <1>2, <2>3, AwaitedCall DEF IInv, Awaits
  <2>5. worker'[w] = worker[w]
    BY <1>9, <2>1, <2>2, <2>3, <2>4 DEF Heard
  <2> QED BY <2>1, <2>2, <2>5
<1> QED BY <1>6, <1>11, <1>12, <1>13, <1>14, <1>15 DEF IInv

LEMMA ReadFailedKeepsIInv ==
    ASSUME IInv, NEW c \in Clerks, ReadFailed(c)
    PROVE  IInv'
<1>1. PICK S \in SUBSET {j \in DOMAIN jobs : Retriable(j)} :
         /\ clerk' = [clerk EXCEPT ![c] = S]
         /\ shared' = shared \cup (S \cap HeldByOthers(c))
  BY DEF ReadFailed
<1>2. UNCHANGED <<jobs, paper, worker, calls, faults>>
  BY DEF ReadFailed
<1>3. S \subseteq 1..MaxJobs /\ \A j \in S : Tried(j)
  BY RowsOfJobs DEF IInv, TriedOnly, Tried, Retriable, Pending, Failed
<1>4. Shape'
  BY <1>1, <1>2, <1>3 DEF IInv, Shape
<1>5. Wire'
  BY <1>2 DEF IInv, Wire, WaitedFor, Awaits
<1>6. \A d \in Clerks : \A j \in clerk'[d] : Tried(j)
  BY <1>1, <1>3 DEF IInv, Shape, TriedOnly
<1>7. TriedOnly'
  BY <1>2, <1>6 DEF IInv, TriedOnly, Tried, WorkerKnows, CallKnows, Copies
<1>8. PrintedCameOut' /\ TriedInOrder' /\ NoneLate' /\ ClaimedIsHeld'
  BY <1>2 DEF IInv, PrintedCameOut, TriedInOrder, NoneLate, ClaimedIsHeld, Copies
<1> QED BY <1>4, <1>5, <1>7, <1>8 DEF IInv

LEMMA RequeueKeepsIInv ==
    ASSUME IInv, NEW c \in Clerks, Requeue(c)
    PROVE  IInv'
<1>1. /\ jobs' \in Seq(JobRow)
      /\ Len(jobs') <= MaxJobs
      /\ DOMAIN jobs' = DOMAIN jobs
      /\ \A k \in DOMAIN jobs :
            /\ k \notin clerk[c] => jobs'[k] = jobs[k]
            /\ k \in clerk[c] => jobs'[k].status = Pending /\ jobs'[k].by = NoWorker
            /\ jobs'[k].attempts = jobs[k].attempts
            /\ jobs'[k].printer = jobs[k].printer
            /\ jobs'[k].type = jobs[k].type
  BY RequeuedRows DEF IInv
<1>2. UNCHANGED <<paper, worker, calls, shared, faults>> /\ clerk' = [clerk EXCEPT ![c] = {}]
  BY DEF Requeue
<1>3. Shape'
  BY <1>1, <1>2 DEF IInv, Shape
<1>4. Wire'
  BY <1>2 DEF IInv, Wire, WaitedFor, Awaits
<1>5. Onward
  <2>1. \A k \in DOMAIN jobs : jobs[k].attempts \in Nat
    BY RowsOfJobs DEF IInv, JobRow
  <2>2. \A k \in 1..MaxJobs : paper[k] \in Nat
    BY DEF IInv, Shape
  <2> QED BY <1>1, <1>2, <2>1, <2>2 DEF Onward
<1>6. /\ \A v \in Workers : WorkerKnows(v)'
      /\ \A n \in calls' : CallKnows(n)'
      /\ \A j : Tried(j) => Tried(j)'
  BY <1>2, <1>3, <1>5, KnowledgeKept DEF IInv
<1>7. \A d \in Clerks : \A j \in clerk'[d] : Tried(j)'
  BY <1>2, <1>6 DEF IInv, Shape, TriedOnly
<1>8. TriedOnly'
  BY <1>1, <1>6, <1>7 DEF IInv, TriedOnly
<1>9. PrintedCameOut'
  BY <1>1, <1>2 DEF IInv, PrintedCameOut, Copies, Pending, Printed
<1>10. TriedInOrder'
  BY <1>1 DEF IInv, TriedInOrder
<1>11. NoneLate' /\ ClaimedIsHeld'
  BY <1>1, <1>2 DEF IInv, NoneLate, ClaimedIsHeld, Pending, Claimed
<1> QED BY <1>3, <1>4, <1>8, <1>9, <1>10, <1>11 DEF IInv

LEMMA WorkerKeepsIInv ==
    ASSUME IInv, NEW w \in Workers, WorkerStep(w)
    PROVE  IInv'
<1>1. CASE SendClaim(w)
  BY <1>1, SendClaimKeepsIInv
<1>2. CASE PrintCopy(w)
  BY <1>2, PrintCopyKeepsIInv
<1>3. CASE SendPrinted(w)
  BY <1>3, PostKeepsIInv DEF SendPrinted
<1>4. CASE PrintError(w)
  BY <1>4, PostKeepsIInv DEF PrintError, Confirming, Reporting
<1> QED BY <1>1, <1>2, <1>3, <1>4 DEF WorkerStep

LEMMA EnqueueKeepsIInv ==
    ASSUME IInv,
           \/ \E p \in 1..Printers : EnqueueCommand(p)
           \/ EnqueueTicket
           \/ EnqueueCashShift
           \/ \E j \in DOMAIN jobs : Reprint(j)
    PROVE  IInv'
<1>1. CASE \E p \in 1..Printers : EnqueueCommand(p)
  BY <1>1, AddJobKeepsIInv DEF EnqueueCommand
<1>2. CASE EnqueueTicket \/ EnqueueCashShift
  BY <1>2, PrintQueueAssumption, AddJobKeepsIInv DEF EnqueueTicket, EnqueueCashShift
<1>3. ASSUME NEW j \in DOMAIN jobs, Reprint(j) PROVE IInv'
  <2>1. jobs[j].printer \in 1..Printers
    BY RowsOfJobs DEF IInv, JobRow
  <2> QED BY <1>3, <2>1, AddJobKeepsIInv DEF Reprint
<1> QED BY <1>1, <1>2, <1>3

LEMMA NextIInv == IInv /\ [Next]_vars => IInv'
<1> SUFFICES ASSUME IInv, [Next]_vars PROVE IInv'
  OBVIOUS
<1>1. CASE \/ \E p \in 1..Printers : EnqueueCommand(p)
           \/ EnqueueTicket
           \/ EnqueueCashShift
           \/ \E j \in DOMAIN jobs : Reprint(j)
  BY <1>1, EnqueueKeepsIInv
<1>2. ASSUME NEW w \in Workers, WorkerStep(w) \/ TimeOut(w) \/ Crash(w) PROVE IInv'
  BY <1>2, WorkerKeepsIInv, FaultKeepsIInv
<1>3. ASSUME NEW m \in calls, Serve(m) PROVE IInv'
  BY <1>3, ClaimNothingKeepsIInv, ClaimNextKeepsIInv, CheckClaimedKeepsIInv, MarkKeepsIInv
     DEF Serve
<1>4. ASSUME NEW c \in Clerks, ClerkStep(c) PROVE IInv'
  BY <1>4, ReadFailedKeepsIInv, RequeueKeepsIInv DEF ClerkStep
<1>5. CASE UNCHANGED vars
  <2>1. UNCHANGED <<jobs, paper, worker, calls, clerk, shared, faults>>
    BY <1>5 DEF vars
  <2> QED BY <2>1 DEF IInv, Shape, Wire, WaitedFor, Awaits, TriedOnly, Tried, WorkerKnows, CallKnows,
                      Copies, PrintedCameOut, TriedInOrder, NoneLate, ClaimedIsHeld
<1> QED BY <1>1, <1>2, <1>3, <1>4, <1>5 DEF Next

THEOREM Invariance == Spec => []IInv
<1>1. Init => IInv
  BY InitIInv
<1>2. IInv /\ [Next]_vars => IInv'
  BY NextIInv
<1> QED BY <1>1, <1>2, PTL DEF Spec

\* Rows, calls and workers keep their shape (PrintJob, process_once).
THEOREM TypeCorrect == Spec => []TypeOK
<1>1. IInv => TypeOK
  BY TypeOKMeans DEF IInv
<1> QED BY <1>1, Invariance, PTL

\* A job the queue calls printed came out complete (process_once,
\* mark_print_job_printed).
THEOREM PrintedAlwaysCameOut == Spec => []PrintedCameOut
<1>1. IInv => PrintedCameOut
  BY DEF IInv
<1> QED BY <1>1, Invariance, PTL

\* Each printer tries its jobs in the order they came (claim_next_print_job).
THEOREM JobsAreTriedInOrder == Spec => []TriedInOrder
<1>1. IInv => TriedInOrder
  BY DEF IInv
<1> QED BY <1>1, Invariance, PTL

\* Without faults a claimed job is in the hands of its worker (process_once).
THEOREM ClaimedJobsAreHeld == Spec => []ClaimedIsHeld
<1>1. IInv => ClaimedIsHeld
  BY DEF IInv
<1> QED BY <1>1, Invariance, PTL

-----------------------------------------------------------------------------
(* One holder.  A job goes back to the queue only after it failed, and it  *)
(* fails only by a report, so its token is the worker that may still post  *)
(* one or the report on the wire, however late.  There is one token at     *)
(* most, none once the job failed or is pending, and none while an         *)
(* operator is about to put it back.  The argument holds for each job      *)
(* apart: two retries that held one job at once spoil it for that job      *)
(* only.                                                                   *)

Holds(w, j) == worker[w].pc \in {Printing, Confirming} /\ worker[w].job = j

Reports(m, j) == m.kind = Reporting /\ m.job = j

NoToken(j) ==
    /\ \A w \in Workers : ~Holds(w, j)
    /\ \A m \in calls : ~Reports(m, j)

Single(j) ==
    /\ \A v, w \in Workers : Holds(v, j) /\ Holds(w, j) => v = w
    /\ \A m, n \in calls : Reports(m, j) /\ Reports(n, j) => m = n
    /\ \A w \in Workers, m \in calls : ~(Holds(w, j) /\ Reports(m, j))

OneToken ==
    /\ \A j : j \notin shared => Single(j)
    /\ \A j \in DOMAIN jobs : jobs[j].status \in {Pending, Failed} /\ j \notin shared => NoToken(j)
    /\ \A c \in Clerks : \A j \in clerk[c] : j \notin shared =>
          /\ NoToken(j)
          /\ jobs[j].status \in {Failed, Printed}
          /\ \A d \in Clerks : j \in clerk[d] => d = c

HolderInv == IInv /\ OneToken

\* Tokens that stay or go, and none that comes.
TokensKept ==
    /\ \A j : Single(j) => Single(j)'
    /\ \A j : NoToken(j) => NoToken(j)'

LEMMA TokensKeptSuffices ==
    ASSUME OneToken, TokensKept, UNCHANGED <<jobs, clerk, shared>>
    PROVE  OneToken'
  BY DEF OneToken, TokensKept

\* What is left on the wire has the reports there were, or fewer.
FewerReports(rest) ==
    \A j :
      /\ (\A m \in calls : ~Reports(m, j)) => \A m \in rest : ~Reports(m, j)
      /\ (\A m, n \in calls : Reports(m, j) /\ Reports(n, j) => m = n) =>
            \A m, n \in rest : Reports(m, j) /\ Reports(n, j) => m = n

LEMMA FewerByAnswer == \A m : FewerReports(calls \ {m})
  BY DEF FewerReports

LEMMA FewerByGivingUp ==
    ASSUME Shape, Wire, NEW w \in Workers
    PROVE  FewerReports(Others(w) \cup GivenUp(w))
<1> SUFFICES ASSUME NEW j
             PROVE  /\ (\A m \in calls : ~Reports(m, j)) =>
                          \A m \in Others(w) \cup GivenUp(w) : ~Reports(m, j)
                    /\ (\A m, n \in calls : Reports(m, j) /\ Reports(n, j) => m = n) =>
                          \A m, n \in Others(w) \cup GivenUp(w) :
                             Reports(m, j) /\ Reports(n, j) => m = n
  BY DEF FewerReports
<1>1. \A m \in calls : Reports(Late(m), j) <=> Reports(m, j)
  <2>1. ASSUME NEW m \in calls PROVE Late(m).kind = m.kind /\ Late(m).job = m.job
    BY DEF Late, Shape, CallRow
  <2> QED BY <2>1 DEF Reports
<1>2. \A m \in GivenUp(w) : \E n \in WaitedFor(w) : m = Late(n)
  BY DEF GivenUp
<1>3. \A m, n \in WaitedFor(w) : m = n
  BY DEF Wire
<1>4. Others(w) \subseteq calls /\ WaitedFor(w) \subseteq calls
      /\ \A m \in Others(w) : m \notin WaitedFor(w)
  BY DEF Others, WaitedFor
<1>5. ASSUME \A m \in calls : ~Reports(m, j)
      PROVE  \A m \in Others(w) \cup GivenUp(w) : ~Reports(m, j)
  BY <1>1, <1>2, <1>4, <1>5
<1>6. ASSUME \A m, n \in calls : Reports(m, j) /\ Reports(n, j) => m = n,
             NEW m \in Others(w) \cup GivenUp(w), NEW n \in Others(w) \cup GivenUp(w),
             Reports(m, j), Reports(n, j)
      PROVE  m = n
  <2>1. CASE m \in GivenUp(w) /\ n \in GivenUp(w)
    BY <1>2, <1>3, <2>1
  <2>2. ASSUME NEW a \in Others(w), NEW b \in GivenUp(w), Reports(a, j), Reports(b, j)
        PROVE  FALSE
    BY <1>1, <1>2, <1>4, <1>6, <2>2
  <2> QED BY <1>4, <1>6, <2>1, <2>2
<1> QED BY <1>5, <1>6

\* The holder of j reports it.
LEMMA TokenPassed ==
    ASSUME NEW w \in Workers, NEW rest, FewerReports(rest), NEW n,
           Holds(w, worker[w].job), n.kind = Reporting, n.job = worker[w].job,
           worker'[w].pc = Reporting,
           \A v \in Workers : v # w => worker'[v] = worker[v],
           calls' = rest \cup {n}
    PROVE  TokensKept
<1>1. \A j : ~Holds(w, j)'
  BY DEF Holds, Printing, Confirming, Reporting
<1>2. \A v \in Workers : v # w => \A j : Holds(v, j)' <=> Holds(v, j)
  BY DEF Holds
<1>3. \A m, j : Reports(m, j)' <=> Reports(m, j)
  BY DEF Reports
<1>4. ASSUME NEW j, Single(j) PROVE Single(j)'
  <2>1. CASE j = worker[w].job
    <3>1. (\A m \in calls : ~Reports(m, j)) /\ \A v \in Workers : v # w => ~Holds(v, j)
      BY <1>4, <2>1 DEF Single
    <3>2. \A m \in rest : ~Reports(m, j)
      BY <3>1 DEF FewerReports
    <3> QED BY <1>1, <1>2, <1>3, <3>1, <3>2 DEF Single
  <2>2. CASE j # worker[w].job
    <3>1. ~Reports(n, j)
      BY <2>2 DEF Reports
    <3>2. \A a, b \in rest : Reports(a, j) /\ Reports(b, j) => a = b
      BY <1>4 DEF Single, FewerReports
    <3>3. \A v \in Workers, a \in rest : ~(Holds(v, j) /\ Reports(a, j))
      BY <1>4 DEF Single, FewerReports
    <3> QED BY <1>1, <1>2, <1>3, <1>4, <3>1, <3>2, <3>3 DEF Single
  <2> QED BY <2>1, <2>2
<1>5. ASSUME NEW j, NoToken(j) PROVE NoToken(j)'
  <2>1. j # worker[w].job
    BY <1>5 DEF NoToken
  <2>2. \A m \in rest : ~Reports(m, j)
    BY <1>5 DEF NoToken, FewerReports
  <2> QED BY <1>1, <1>2, <1>3, <1>5, <2>1, <2>2 DEF NoToken, Reports
<1> QED BY <1>4, <1>5 DEF TokensKept

\* Nobody holds more than before, and the wire has fewer reports.
LEMMA TokensFewer ==
    ASSUME FewerReports(calls'), \A v \in Workers : \A j : Holds(v, j)' => Holds(v, j)
    PROVE  TokensKept
<1>1. \A m, j : Reports(m, j)' <=> Reports(m, j)
  BY DEF Reports
<1>2. ASSUME NEW j, Single(j) PROVE Single(j)'
  <2>1. \A a, b \in calls' : Reports(a, j) /\ Reports(b, j) => a = b
    BY <1>2 DEF Single, FewerReports
  <2>2. \A v \in Workers, a \in calls' : ~(Holds(v, j) /\ Reports(a, j))
    BY <1>2 DEF Single, FewerReports
  <2> QED BY <1>1, <1>2, <2>1, <2>2 DEF Single
<1>3. ASSUME NEW j, NoToken(j) PROVE NoToken(j)'
  <2>1. \A a \in calls' : ~Reports(a, j)
    BY <1>3 DEF NoToken, FewerReports
  <2> QED BY <1>1, <1>3, <2>1 DEF NoToken
<1> QED BY <1>2, <1>3 DEF TokensKept

LEMMA HeardTokens ==
    ASSUME Shape, NEW w \in Workers, NEW rest, FewerReports(rest), Heard(w, rest)
    PROVE  TokensKept
<1>1. CASE /\ worker'[w].pc = Idle
           /\ calls' = rest
  <2>1. \A v \in Workers : \A j : Holds(v, j)' => Holds(v, j)
    BY <1>1 DEF Heard, Holds, Idle, Printing, Confirming
  <2>2. FewerReports(calls')
    BY <1>1
  <2> QED BY <2>1, <2>2, TokensFewer
<1>2. ASSUME worker[w].pc = Confirming, worker'[w].pc = Reporting,
             NEW n \in CallRow, n.kind = Reporting, n.job = worker[w].job, calls' = rest \cup {n}
      PROVE  TokensKept
  <2>1. Holds(w, worker[w].job)
    BY <1>2 DEF Holds
  <2>2. \A v \in Workers : v # w => worker'[v] = worker[v]
    BY DEF Heard
  <2> QED BY <1>2, <2>1, <2>2, TokenPassed
<1> QED BY <1>1, <1>2 DEF Heard

LEMMA AnswerTokens ==
    ASSUME Shape, Wire, NEW m \in calls, NEW outcome \in {OK, Error}, Answer(m, outcome)
    PROVE  TokensKept
<1>1. \/ m.late = 0 /\ Heard(m.from, calls \ {m}) /\ m.from \in Workers
      \/ m.late # 0 /\ calls' = calls \ {m} /\ worker' = worker
  BY AnswerEffect
<1>2. CASE m.late = 0 /\ Heard(m.from, calls \ {m}) /\ m.from \in Workers
  BY <1>2, FewerByAnswer, HeardTokens
<1>3. CASE calls' = calls \ {m} /\ worker' = worker
  <2>1. FewerReports(calls')
    BY <1>3, FewerByAnswer
  <2>2. \A v \in Workers : \A j : Holds(v, j)' => Holds(v, j)
    BY <1>3 DEF Holds
  <2> QED BY <2>1, <2>2, TokensFewer
<1> QED BY <1>1, <1>2, <1>3

LEMMA InitHolder == Init => HolderInv
<1> SUFFICES ASSUME Init PROVE HolderInv
  OBVIOUS
<1>1. /\ jobs = <<>> /\ calls = {}
      /\ \A w \in Workers : worker[w].pc = Idle
      /\ \A c \in Clerks : clerk[c] = {}
  BY DEF Init
<1>2. DOMAIN jobs = {}
  BY <1>1
<1>3. OneToken
  BY <1>1, <1>2 DEF OneToken, Single, Holds, Idle, Printing, Confirming
<1> QED BY <1>3, InitIInv DEF HolderInv

LEMMA AddJobHolder ==
    ASSUME HolderInv, NEW printer \in 1..Printers, NEW type, AddJob(printer, type)
    PROVE  OneToken'
<1>0. IInv /\ Shape
  BY DEF HolderInv, IInv
<1>1. PICK new \in Nat :
      /\ DOMAIN jobs' = DOMAIN jobs \cup {new}
      /\ new \notin DOMAIN jobs
      /\ \A j \in DOMAIN jobs : jobs'[j] = jobs[j]
      /\ jobs'[new] = NewJob(printer, type)
      /\ new \in 1..MaxJobs
  <2>1. Len(jobs) + 1 \in Nat /\ Len(jobs) + 1 \in 1..MaxJobs
    BY <1>0, RowsOfJobs, PrintQueueAssumption DEF AddJob
  <2> QED BY <1>0, <2>1, AddedRow
<1>2. UNCHANGED <<paper, worker, calls, clerk, shared, faults>>
  BY DEF AddJob
<1>3. NoToken(new)
  <2>1. \A w \in Workers : worker[w].pc \in {Printing, Confirming} => Tried(worker[w].job)
    BY <1>0 DEF IInv, TriedOnly, WorkerKnows, Idle, Claiming, Printing, Confirming
  <2>2. \A m \in calls : m.kind = Reporting => Tried(m.job)
    BY <1>0 DEF IInv, TriedOnly, CallKnows, Claiming, Reporting
  <2> QED BY <1>1, <2>1, <2>2 DEF NoToken, Holds, Reports, Tried
<1>4. OneToken'
  <2>1. \A j : (Single(j) => Single(j)') /\ (NoToken(j) => NoToken(j)')
    BY <1>2 DEF Single, NoToken, Holds, Reports
  <2>2. \A c \in Clerks : clerk[c] \subseteq DOMAIN jobs
    BY <1>0 DEF IInv, TriedOnly, Tried
  <2> QED BY <1>1, <1>2, <1>3, <2>1, <2>2 DEF HolderInv, OneToken
<1> QED BY <1>4

LEMMA SendClaimHolder ==
    ASSUME HolderInv, NEW w \in Workers, SendClaim(w)
    PROVE  OneToken'
<1>1. /\ UNCHANGED <<jobs, paper, clerk, shared>>
      /\ worker \in [Workers -> WorkerRow]
      /\ worker' = [worker EXCEPT ![w].pc = Claiming]
      /\ calls' = calls \cup {Call(w, Claiming, NoJob)}
  BY DEF SendClaim, HolderInv, IInv, Shape
<1>2. /\ worker'[w].pc = Claiming
      /\ \A v \in Workers : v # w => worker'[v] = worker[v]
  BY <1>1 DEF WorkerRow
<1>3. TokensKept
  <2>1. Call(w, Claiming, NoJob).kind = Claiming
    BY DEF Call
  <2>2. FewerReports(calls')
    BY <1>1, <2>1 DEF FewerReports, Reports, Claiming, Reporting
  <2>3. \A v \in Workers : \A j : Holds(v, j)' => Holds(v, j)
    BY <1>2 DEF Holds, Claiming, Printing, Confirming
  <2> QED BY <2>2, <2>3, TokensFewer
<1> QED BY <1>1, <1>3, TokensKeptSuffices DEF HolderInv

LEMMA PrintCopyHolder ==
    ASSUME HolderInv, NEW w \in Workers, PrintCopy(w)
    PROVE  OneToken'
<1>0. IInv /\ Shape /\ Wire /\ OneToken
  BY DEF HolderInv, IInv
<1>1. /\ worker[w].pc = Printing
      /\ worker[w].copies < Copies(worker[w].job)
      /\ UNCHANGED <<jobs, calls, clerk, shared, faults>>
  BY DEF PrintCopy
<1>2. PICK j \in 0..MaxJobs : j = worker[w].job
  BY <1>0 DEF Shape, WorkerRow
<1>3. Tried(j)
  BY <1>0, <1>1, <1>2 DEF IInv, TriedOnly, WorkerKnows, Idle, Claiming, Printing
<1>4. /\ worker'[w].pc = Printing /\ worker'[w].job = j
      /\ worker'[w].copies = worker[w].copies + 1
      /\ \A v \in Workers : v # w => worker'[v] = worker[v]
      /\ paper'[j] = paper[j] + 1
      /\ \A k \in 1..MaxJobs : k # j => paper'[k] = paper[k]
  BY <1>0, <1>2, <1>3, PrintCopyTyped
<1>5. TokensKept
  <2>1. FewerReports(calls')
    BY <1>1 DEF FewerReports
  <2>2. \A v \in Workers : \A k : Holds(v, k)' => Holds(v, k)
    BY <1>1, <1>2, <1>4 DEF Holds
  <2> QED BY <2>1, <2>2, TokensFewer
<1>6. OneToken'
  BY <1>0, <1>1, <1>5, TokensKeptSuffices
<1> QED BY <1>6

LEMMA PostHolder ==
    ASSUME HolderInv, NEW w \in Workers, NEW kind \in {Confirming, Reporting},
           worker[w].pc = Printing,
           worker' = [worker EXCEPT ![w].pc = kind],
           calls' = calls \cup {Call(w, kind, worker[w].job)},
           UNCHANGED <<jobs, paper, clerk, shared, faults>>
    PROVE  OneToken'
<1>1. worker \in [Workers -> WorkerRow]
  BY DEF HolderInv, IInv, Shape
<1>2. /\ worker'[w].pc = kind /\ worker'[w].job = worker[w].job
      /\ \A v \in Workers : v # w => worker'[v] = worker[v]
  BY <1>1 DEF WorkerRow
<1>3. PICK n : n = Call(w, kind, worker[w].job)
  OBVIOUS
<1>4. n.kind = kind /\ n.job = worker[w].job /\ calls' = calls \cup {n}
  BY <1>3 DEF Call
<1>5. TokensKept
  <2>1. FewerReports(calls)
    BY DEF FewerReports
  <2>2. CASE kind = Reporting
    <3>1. Holds(w, worker[w].job)
      BY DEF Holds
    <3> QED BY <1>2, <1>4, <2>1, <2>2, <3>1, TokenPassed
  <2>3. CASE kind = Confirming
    <3>1. FewerReports(calls')
      BY <1>4, <2>3 DEF FewerReports, Reports, Confirming, Reporting
    <3>2. \A v \in Workers : \A j : Holds(v, j)' => Holds(v, j)
      BY <1>2 DEF Holds
    <3> QED BY <3>1, <3>2, TokensFewer
  <2> QED BY <2>2, <2>3
<1> QED BY <1>5, TokensKeptSuffices DEF HolderInv

LEMMA FaultHolder ==
    ASSUME HolderInv, NEW w \in Workers, TimeOut(w) \/ Crash(w)
    PROVE  OneToken'
<1>0. Shape /\ Wire
  BY DEF HolderInv, IInv
<1>1. Heard(w, Others(w) \cup GivenUp(w)) /\ UNCHANGED <<jobs, paper, clerk, shared>>
  BY <1>0, TimeOutTyped, CrashTyped DEF TimeOut, Crash
<1>2. TokensKept
  BY <1>0, <1>1, FewerByGivingUp, HeardTokens
<1>3. OneToken'
  BY <1>1, <1>2, TokensKeptSuffices DEF HolderInv
<1> QED BY <1>3

LEMMA AnswerHolder ==
    ASSUME HolderInv, NEW m \in calls, NEW outcome \in {OK, Error}, Answer(m, outcome),
           UNCHANGED <<jobs, paper, clerk, shared, faults>>
    PROVE  OneToken'
<1>0. Shape /\ Wire
  BY DEF HolderInv, IInv
<1>1. TokensKept
  BY <1>0, AnswerTokens
<1>2. OneToken'
  BY <1>1, TokensKeptSuffices DEF HolderInv
<1> QED BY <1>2

LEMMA CheckClaimedHolder ==
    ASSUME HolderInv, NEW m \in calls, CheckClaimed(m)
    PROVE  OneToken'
<1>0. Shape /\ Wire
  BY DEF HolderInv, IInv
<1>1. CASE calls' = (calls \ {m}) \cup {[m EXCEPT !.read = TRUE]} /\ UNCHANGED worker
  <2>1. PICK n : /\ n.kind = m.kind /\ n.job = m.job
                 /\ calls' = (calls \ {m}) \cup {n}
    <3>1. m \in CallRow
      BY <1>0 DEF Shape
    <3>2. /\ [m EXCEPT !.read = TRUE].kind = m.kind
          /\ [m EXCEPT !.read = TRUE].job = m.job
      BY <3>1 DEF CallRow
    <3> QED BY <1>1, <3>2
  <2>2. \A j : Reports(n, j) <=> Reports(m, j)
    BY <2>1 DEF Reports
  <2>3. FewerReports(calls')
    BY <2>1, <2>2 DEF FewerReports
  <2>4. \A v \in Workers : \A j : Holds(v, j)' => Holds(v, j)
    BY <1>1 DEF Holds
  <2>5. TokensKept
    BY <2>3, <2>4, TokensFewer
  <2>6. UNCHANGED <<jobs, clerk, shared>>
    BY DEF CheckClaimed
  <2> QED BY <1>1, <2>5, <2>6, TokensKeptSuffices DEF HolderInv
<1>2. CASE Answer(m, Error)
  BY <1>2, AnswerHolder DEF CheckClaimed
<1> QED BY <1>1, <1>2 DEF CheckClaimed

LEMMA ClaimNextHolder ==
    ASSUME HolderInv, NEW m \in calls, ClaimNext(m)
    PROVE  OneToken'
<1>0. IInv /\ Shape /\ Wire /\ OneToken
  BY DEF HolderInv, IInv
<1>1. PICK j \in NextAt(m.printer) :
         /\ jobs' = [jobs EXCEPT ![j].status = Claimed, ![j].by = m.from,
                                 ![j].attempts = @ + 1]
         /\ \/ m.late = 0 /\ TakeJob(m.from, j, calls \ {m})
            \/ m.late > 0 /\ calls' = calls \ {m} /\ UNCHANGED worker
  BY DEF ClaimNext
<1>2. m.kind = Claiming /\ UNCHANGED <<paper, clerk, shared, faults>>
  BY DEF ClaimNext
<1>3. m.from \in Workers
  BY <1>0 DEF Shape, CallRow
<1>4. j \in DOMAIN jobs /\ jobs[j].status = Pending
  BY DEF NextAt, PendingAt
<1>5. /\ DOMAIN jobs' = DOMAIN jobs
      /\ \A k \in DOMAIN jobs : k # j => jobs'[k] = jobs[k]
      /\ jobs'[j].status = Claimed
      /\ jobs'[j].attempts = jobs[j].attempts + 1
      /\ jobs'[j].type = jobs[j].type
  BY <1>0, <1>1, <1>3, <1>4, ClaimedRow
<1>6. j \notin shared => NoToken(j)
  BY <1>0, <1>4 DEF OneToken
<1>7. calls' = calls \ {m}
  BY <1>1 DEF TakeJob
<1>8. \/ worker' = worker
      \/ /\ worker'[m.from].pc = Printing /\ worker'[m.from].job = j
         /\ worker'[m.from].copies = 0
         /\ \A v \in Workers : v # m.from => worker'[v] = worker[v]
  <2>1. CASE m.late = 0 /\ TakeJob(m.from, j, calls \ {m})
    <3>1. worker[m.from] \in WorkerRow /\ worker[m.from].pc = Claiming
      BY <1>0, <1>2, <1>3, <2>1, AwaitedCall DEF Awaits, Shape
    <3>2. worker[m.from].copies = 0
      BY <1>0, <1>3, <3>1 DEF IInv, TriedOnly, WorkerKnows
    <3> QED BY <1>0, <1>3, <2>1, <3>1, <3>2 DEF TakeJob, Shape, WorkerRow
  <2> QED BY <1>1, <2>1
<1>9. \A v \in Workers : \A k : k # j => (Holds(v, k)' => Holds(v, k))
  BY <1>8 DEF Holds
<1>10. j \notin shared => \A v, w \in Workers : Holds(v, j)' /\ Holds(w, j)' => v = w
  BY <1>6, <1>8 DEF Holds, NoToken
<1>11. \A k : \A n \in calls' : Reports(n, k)' <=> Reports(n, k)
  BY DEF Reports
<1>12. \A k : k \notin shared => Single(k)'
  <2>1. \A k : k # j /\ k \notin shared => Single(k)'
    BY <1>0, <1>7, <1>9, <1>11 DEF OneToken, Single
  <2>2. j \notin shared => Single(j)'
    BY <1>6, <1>7, <1>10, <1>11 DEF Single, NoToken
  <2> QED BY <2>1, <2>2
<1>13. \A k : k # j /\ NoToken(k) => NoToken(k)'
  BY <1>7, <1>9, <1>11 DEF NoToken
<1>14. j \notin shared => \A c \in Clerks : j \notin clerk[c]
  BY <1>0, <1>4 DEF OneToken, Pending, Failed, Printed
<1>15. OneToken'
  <2>1. \A k \in DOMAIN jobs :
           jobs'[k].status \in {Pending, Failed} /\ k \notin shared => NoToken(k)'
    BY <1>0, <1>5, <1>13 DEF OneToken, Claimed, Pending, Failed
  <2>2. \A c \in Clerks : clerk[c] \subseteq DOMAIN jobs
    BY <1>0 DEF IInv, TriedOnly, Tried
  <2>3. \A c \in Clerks : \A k \in clerk[c] : k \notin shared =>
           NoToken(k)' /\ jobs'[k].status \in {Failed, Printed}
    BY <1>0, <1>5, <1>13, <1>14, <2>2 DEF OneToken
  <2> QED BY <1>0, <1>2, <1>5, <1>12, <2>1, <2>3 DEF OneToken
<1> QED BY <1>15

LEMMA MarkHolder ==
    ASSUME HolderInv, NEW m \in calls, Mark(m)
    PROVE  OneToken'
<1>0. IInv /\ Shape /\ Wire /\ OneToken
  BY DEF HolderInv, IInv
<1>1. /\ m.kind \in {Confirming, Reporting}
      /\ UNCHANGED <<paper, clerk, shared, faults>>
      /\ Answer(m, OK)
  BY DEF Mark
<1>2. m.job \in DOMAIN jobs
  BY <1>0, <1>1, ServedJobs DEF Claiming, Confirming, Reporting
<1>3. PICK status \in {Printed, Failed} :
         /\ status = Failed => m.kind = Reporting
         /\ jobs' = [jobs EXCEPT ![m.job].status = status]
  BY <1>1 DEF Mark, Printed, Failed
<1>4. /\ DOMAIN jobs' = DOMAIN jobs
      /\ \A k \in DOMAIN jobs : k # m.job => jobs'[k] = jobs[k]
      /\ jobs'[m.job].status = status
      /\ jobs'[m.job].attempts = jobs[m.job].attempts
      /\ jobs'[m.job].type = jobs[m.job].type
  BY <1>0, <1>2, <1>3, MarkedRow
<1>5. TokensKept
  BY <1>0, <1>1, AnswerTokens
<1>6. \/ m.late = 0 /\ Heard(m.from, calls \ {m}) /\ m.from \in Workers
      \/ calls' = calls \ {m} /\ worker' = worker
  BY <1>0, <1>1, AnswerEffect
<1>7. m.kind = Reporting /\ m.job \notin shared => NoToken(m.job)'
  <2> SUFFICES ASSUME m.kind = Reporting, m.job \notin shared PROVE NoToken(m.job)'
    OBVIOUS
  <2>1. Reports(m, m.job)
    BY DEF Reports
  <2>2. /\ \A w \in Workers : ~Holds(w, m.job)
        /\ \A n \in calls \ {m} : ~Reports(n, m.job)
    BY <1>0, <2>1 DEF OneToken, Single
  <2>3. calls' = calls \ {m}
    <3>1. CASE m.late = 0 /\ Heard(m.from, calls \ {m}) /\ m.from \in Workers
      <4>1. worker[m.from].pc = Reporting
        BY <1>0, <3>1, AwaitedCall DEF Awaits
      <4> QED BY <3>1, <4>1 DEF Heard, Confirming, Reporting
    <3> QED BY <1>6, <3>1
  <2>4. \A w \in Workers : ~Holds(w, m.job)'
    <3>1. CASE m.late = 0 /\ Heard(m.from, calls \ {m}) /\ m.from \in Workers
      <4>1. worker[m.from].pc = Reporting
        BY <1>0, <3>1, AwaitedCall DEF Awaits
      <4>2. worker'[m.from].pc = Idle
        BY <3>1, <4>1 DEF Heard, Confirming, Reporting
      <4> QED BY <2>2, <3>1, <4>2 DEF Heard, Holds, Idle, Printing, Confirming
    <3>2. CASE worker' = worker
      BY <2>2, <3>2 DEF Holds
    <3> QED BY <1>6, <3>1, <3>2
  <2> QED BY <2>2, <2>3, <2>4 DEF NoToken, Reports
<1>8. \A k \in DOMAIN jobs : jobs'[k].status \in {Pending, Failed} /\ k \notin shared => NoToken(k)'
  <2> SUFFICES ASSUME NEW k \in DOMAIN jobs, jobs'[k].status \in {Pending, Failed}, k \notin shared
               PROVE  NoToken(k)'
    OBVIOUS
  <2>1. CASE k = m.job
    BY <1>3, <1>4, <1>7, <2>1 DEF Pending, Printed, Failed
  <2>2. CASE k # m.job
    BY <1>0, <1>4, <1>5, <2>2 DEF OneToken, TokensKept
  <2> QED BY <2>1, <2>2
<1>9. \A c \in Clerks : \A k \in clerk[c] : k \notin shared =>
         NoToken(k)' /\ jobs'[k].status \in {Failed, Printed}
  <2>1. \A c \in Clerks : clerk[c] \subseteq DOMAIN jobs
    BY <1>0 DEF IInv, TriedOnly, Tried
  <2> QED BY <1>0, <1>3, <1>4, <1>5, <2>1 DEF OneToken, TokensKept
<1>10. OneToken'
  BY <1>0, <1>1, <1>4, <1>5, <1>8, <1>9 DEF OneToken, TokensKept
<1> QED BY <1>10

LEMMA ReadFailedHolder ==
    ASSUME HolderInv, NEW c \in Clerks, ReadFailed(c)
    PROVE  OneToken'
<1>0. IInv /\ Shape /\ OneToken
  BY DEF HolderInv, IInv
<1>1. PICK S \in SUBSET {j \in DOMAIN jobs : Retriable(j)} :
         /\ clerk' = [clerk EXCEPT ![c] = S]
         /\ shared' = shared \cup (S \cap HeldByOthers(c))
  BY DEF ReadFailed
<1>2. UNCHANGED <<jobs, paper, worker, calls, faults>>
  BY DEF ReadFailed
<1>3. \A j \in S : jobs[j].status = Failed /\ (j \notin shared => NoToken(j))
  BY <1>0 DEF OneToken, Retriable
<1>4. \A d \in Clerks : clerk'[d] = IF d = c THEN S ELSE clerk[d]
  BY <1>0, <1>1 DEF Shape
<1>5. \A j : j \notin shared' => j \notin shared
  BY <1>1
<1>6. \A j : Single(j)' = Single(j) /\ NoToken(j)' = NoToken(j)
  BY <1>2 DEF Single, NoToken, Holds, Reports
<1>7. ASSUME NEW d \in Clerks, NEW j \in clerk'[d], j \notin shared'
      PROVE  NoToken(j) /\ jobs[j].status \in {Failed, Printed}
  BY <1>0, <1>3, <1>4, <1>5, <1>7 DEF OneToken
<1>8. ASSUME NEW d \in Clerks, NEW j \in clerk'[d], j \notin shared',
             NEW e \in Clerks, j \in clerk'[e]
      PROVE  e = d
  <2>1. \A b \in Clerks : b # c /\ j \in clerk[b] => j \notin S
    BY <1>1, <1>8 DEF HeldByOthers
  <2> QED BY <1>0, <1>4, <1>5, <1>8, <2>1 DEF OneToken
<1>9. \A j : j \notin shared' => Single(j)'
  BY <1>0, <1>5, <1>6 DEF OneToken
<1>10. \A j \in DOMAIN jobs :
          jobs[j].status \in {Pending, Failed} /\ j \notin shared' => NoToken(j)'
  BY <1>0, <1>5, <1>6 DEF OneToken
<1> QED BY <1>2, <1>6, <1>7, <1>8, <1>9, <1>10 DEF OneToken

\* What a retry alone puts back is in nobody's hands.

LEMMA RequeueHolder ==
    ASSUME HolderInv, NEW c \in Clerks, Requeue(c)
    PROVE  OneToken'
<1>0. IInv /\ Shape /\ OneToken
  BY DEF HolderInv, IInv
<1>1. /\ DOMAIN jobs' = DOMAIN jobs
      /\ \A k \in DOMAIN jobs :
            /\ k \notin clerk[c] => jobs'[k] = jobs[k]
            /\ jobs'[k].attempts = jobs[k].attempts
            /\ jobs'[k].type = jobs[k].type
  BY <1>0, RequeuedRows
<1>2. UNCHANGED <<paper, worker, calls, shared, faults>> /\ clerk' = [clerk EXCEPT ![c] = {}]
  BY DEF Requeue
<1>3. \A d \in Clerks : clerk'[d] = IF d = c THEN {} ELSE clerk[d]
  BY <1>0, <1>2 DEF Shape
<1>4. \A j : (Single(j)' <=> Single(j)) /\ (NoToken(j)' <=> NoToken(j))
  BY <1>2 DEF Single, NoToken, Holds, Reports
<1>5. \A k \in DOMAIN jobs : jobs'[k].status \in {Pending, Failed} /\ k \notin shared => NoToken(k)
  BY <1>0, <1>1 DEF OneToken
<1>6. ASSUME NEW d \in Clerks, NEW k \in clerk'[d], k \notin shared
      PROVE  /\ NoToken(k)
             /\ jobs'[k].status \in {Failed, Printed}
             /\ \A e \in Clerks : k \in clerk'[e] => e = d
  <2>1. d # c /\ k \in clerk[d]
    BY <1>3, <1>6
  <2>2. /\ NoToken(k) /\ jobs[k].status \in {Failed, Printed}
        /\ \A e \in Clerks : k \in clerk[e] => e = d
    BY <1>0, <1>6, <2>1 DEF OneToken
  <2>3. k \in DOMAIN jobs
    BY <1>0, <2>1 DEF IInv, TriedOnly, Tried
  <2> QED BY <1>1, <1>3, <2>1, <2>2, <2>3
<1>7. \A k : k \notin shared => Single(k)'
  BY <1>0, <1>4 DEF OneToken
<1> QED BY <1>1, <1>2, <1>4, <1>5, <1>6, <1>7 DEF OneToken


LEMMA NextHolder ==
    ASSUME HolderInv, [Next]_vars
    PROVE  HolderInv'
<1>0. IInv'
  BY NextIInv DEF HolderInv
<1> SUFFICES OneToken'
  BY <1>0 DEF HolderInv
<1>1. CASE \/ \E p \in 1..Printers : EnqueueCommand(p)
           \/ EnqueueTicket
           \/ EnqueueCashShift
  BY <1>1, PrintQueueAssumption, AddJobHolder DEF EnqueueCommand, EnqueueTicket, EnqueueCashShift
<1>2. ASSUME NEW j \in DOMAIN jobs, Reprint(j) PROVE OneToken'
  <2>1. jobs[j].printer \in 1..Printers
    BY RowsOfJobs DEF HolderInv, IInv, JobRow
  <2> QED BY <1>2, <2>1, AddJobHolder DEF Reprint
<1>3. ASSUME NEW w \in Workers, WorkerStep(w) PROVE OneToken'
  <2>1. CASE SendClaim(w)
    BY <2>1, SendClaimHolder
  <2>2. CASE PrintCopy(w)
    BY <2>2, PrintCopyHolder
  <2>3. CASE SendPrinted(w)
    BY <2>3, PostHolder DEF SendPrinted
  <2>4. CASE PrintError(w)
    BY <2>4, PostHolder DEF PrintError
  <2> QED BY <1>3, <2>1, <2>2, <2>3, <2>4 DEF WorkerStep
<1>4. ASSUME NEW w \in Workers, TimeOut(w) \/ Crash(w) PROVE OneToken'
  BY <1>4, FaultHolder
<1>5. ASSUME NEW m \in calls, Serve(m) PROVE OneToken'
  <2>1. CASE ClaimNothing(m)
    BY <2>1, AnswerHolder DEF ClaimNothing
  <2> QED BY <1>5, <2>1, ClaimNextHolder, CheckClaimedHolder, MarkHolder DEF Serve
<1>6. ASSUME NEW c \in Clerks, ClerkStep(c) PROVE OneToken'
  BY <1>6, ReadFailedHolder, RequeueHolder DEF ClerkStep
<1>7. CASE UNCHANGED vars
  <2>1. UNCHANGED <<jobs, paper, worker, calls, clerk, shared, faults>>
    BY <1>7 DEF vars
  <2> QED BY <2>1 DEF HolderInv, OneToken, Single, NoToken, Holds, Reports
<1> QED BY <1>1, <1>2, <1>3, <1>4, <1>5, <1>6, <1>7 DEF Next

THEOREM HolderInvariance == Spec => []HolderInv
<1>1. Init => HolderInv
  BY InitHolder
<1>2. HolderInv /\ [Next]_vars => HolderInv'
  BY NextHolder
<1> QED BY <1>1, <1>2, PTL DEF Spec

\* No two workers print the same job at the same time, unless two retries
\* held that job at once (claim_next_print_job, retry_failed_print_jobs).
THEOREM AJobHasOneHolder == Spec => []OneHolder
<1>1. HolderInv => OneHolder
  BY DEF HolderInv, OneToken, Single, Holds, OneHolder
<1> QED BY <1>1, HolderInvariance, PTL

-----------------------------------------------------------------------------
(* Counted paper.  Whoever holds a job, and however many do, each of them  *)
(* prints for a claim of its own: the paper there is and what each worker  *)
(* may still print of the job stay within the claims its row counts.       *)

\* What w may still print of job j for the claim it holds.
Left(w, j) ==
    IF worker[w].pc = Printing /\ worker[w].job = j THEN Copies(j) - worker[w].copies ELSE 0

Due(j) == SumFunctionOnSet([w \in Workers |-> Left(w, j)], Workers)

Counted ==
    /\ \A j \in DOMAIN jobs : paper[j] + Due(j) <= jobs[j].attempts * Copies(j)
    /\ \A j \in 1..MaxJobs : j \notin DOMAIN jobs => paper[j] = 0

CountInv == IInv /\ Counted

\* A sum of which one term changes.
LEMMA OneTermChanges ==
    ASSUME NEW S, IsFiniteSet(S), NEW f, NEW k, \A x \in S : f[x] \in Int /\ k[x] \in Int,
           NEW w \in S, \A x \in S : x # w => f[x] = k[x]
    PROVE  SumFunctionOnSet(k, S) = SumFunctionOnSet(f, S) - f[w] + k[w]
<1>1. IsFiniteSet(S \ {w})
  BY FS_RemoveElement
<1>2. SumFunctionOnSet(f, S \ {w}) = SumFunctionOnSet(k, S \ {w})
  BY <1>1, SumsAreEqual
<1>3. SumFunctionOnSet(f, S \ {w}) \in Int
  BY <1>1, SumIsInt
<1>4. SumFunctionOnSet(f, S) = f[w] + SumFunctionOnSet(f, S \ {w})
  BY SumWithout
<1>5. SumFunctionOnSet(k, S) = k[w] + SumFunctionOnSet(k, S \ {w})
  BY SumWithout
<1> QED BY <1>2, <1>3, <1>4, <1>5

LEMMA RoomType ==
    ASSUME Shape, NEW j \in DOMAIN jobs
    PROVE  /\ paper[j] \in Nat /\ jobs[j].attempts \in Nat /\ Copies(j) \in {1, 2}
           /\ jobs[j].attempts * Copies(j) \in Nat
           /\ (jobs[j].attempts + 1) * Copies(j) = jobs[j].attempts * Copies(j) + Copies(j)
<1>1. paper[j] \in Nat /\ jobs[j].attempts \in Nat /\ Copies(j) \in {1, 2}
  <2>1. jobs[j] \in JobRow /\ j \in 1..MaxJobs
    BY RowsOfJobs
  <2> QED BY <2>1 DEF Shape, JobRow, Copies
<1>2. CASE Copies(j) = 1
  BY <1>1, <1>2
<1>3. CASE Copies(j) = 2
  BY <1>1, <1>3
<1> QED BY <1>1, <1>2, <1>3

LEMMA LeftType ==
    ASSUME IInv, NEW w \in Workers, NEW j
    PROVE  Left(w, j) \in Nat
<1>1. worker[w].copies \in 0..2 /\ Copies(j) \in {1, 2}
  BY DEF IInv, Shape, WorkerRow, Copies
<1>2. worker[w].pc = Printing => worker[w].copies <= Copies(worker[w].job)
  BY DEF IInv, TriedOnly, WorkerKnows
<1> QED BY <1>1, <1>2 DEF Left

LEMMA DueType ==
    ASSUME IInv, NEW j
    PROVE  Due(j) \in Nat
<1>1. \A w \in Workers : [v \in Workers |-> Left(v, j)][w] \in Nat
  BY LeftType
<1> QED BY <1>1, SumIsNat, PrintQueueAssumption DEF Due

\* Nobody prints who did not, and the rows count what they counted.
LEMMA CountKept ==
    ASSUME CountInv, IInv', UNCHANGED paper, DOMAIN jobs' = DOMAIN jobs,
           \A j \in DOMAIN jobs : /\ jobs'[j].attempts = jobs[j].attempts
                                  /\ jobs'[j].type = jobs[j].type,
           \A v \in Workers : worker'[v] = worker[v] \/ worker'[v].pc # Printing
    PROVE  Counted'
<1>1. ASSUME NEW j \in DOMAIN jobs
      PROVE  paper[j] + Due(j)' <= jobs'[j].attempts * Copies(j)'
  <2> DEFINE f == [v \in Workers |-> Left(v, j)]
             k == [v \in Workers |-> Left(v, j)']
  <2>1. Copies(j)' = Copies(j)
    BY DEF Copies
  <2>2. ASSUME NEW v \in Workers PROVE f[v] \in Int /\ k[v] \in Int /\ k[v] <= f[v]
    <3>1. Left(v, j) \in Nat
      BY LeftType DEF CountInv
    <3>2. Left(v, j)' = Left(v, j) \/ Left(v, j)' = 0
      BY <2>1 DEF Left
    <3> QED BY <3>1, <3>2
  <2>3. Due(j) = SumFunctionOnSet(f, Workers) /\ Due(j)' = SumFunctionOnSet(k, Workers)
    BY DEF Due
  <2> HIDE DEF f, k
  <2>4. Due(j)' <= Due(j) /\ Due(j)' \in Int /\ Due(j) \in Int
    BY <2>2, <2>3, SumIsMonotonic, SumIsInt, PrintQueueAssumption
  <2>5. paper[j] \in Nat /\ jobs[j].attempts * Copies(j) \in Nat
    BY RoomType DEF CountInv, IInv
  <2>6. paper[j] + Due(j) <= jobs[j].attempts * Copies(j)
    BY DEF CountInv, Counted
  <2>7. paper[j] + Due(j)' <= jobs[j].attempts * Copies(j)
    BY <2>4, <2>5, <2>6
  <2> QED BY <2>1, <2>7
<1>2. \A j \in 1..MaxJobs : j \notin DOMAIN jobs' => paper'[j] = 0
  BY DEF CountInv, Counted
<1> QED BY <1>1, <1>2 DEF Counted

LEMMA InitCount == Init => CountInv
<1> SUFFICES ASSUME Init PROVE CountInv
  OBVIOUS
<1>1. jobs = <<>> /\ \A j \in 1..MaxJobs : paper[j] = 0
  BY DEF Init
<1>2. DOMAIN jobs = {}
  BY <1>1
<1> QED BY <1>1, <1>2, InitIInv DEF CountInv, Counted

\* A new job is in nobody's hands.
LEMMA AddJobCount ==
    ASSUME CountInv, IInv', NEW printer \in 1..Printers, NEW type, AddJob(printer, type)
    PROVE  Counted'
<1>0. IInv /\ Shape
  BY DEF CountInv, IInv
<1>1. PICK new \in Nat :
      /\ DOMAIN jobs' = DOMAIN jobs \cup {new}
      /\ new \notin DOMAIN jobs
      /\ \A j \in DOMAIN jobs : jobs'[j] = jobs[j]
      /\ jobs'[new] = NewJob(printer, type)
      /\ new \in 1..MaxJobs
  <2>1. Len(jobs) + 1 \in Nat /\ Len(jobs) + 1 \in 1..MaxJobs
    BY <1>0, RowsOfJobs, PrintQueueAssumption DEF AddJob
  <2> QED BY <1>0, <2>1, AddedRow
<1>2. UNCHANGED <<paper, worker>>
  BY DEF AddJob
<1>3. \A v \in Workers : worker[v].pc = Printing => worker[v].job \in DOMAIN jobs
  BY <1>0 DEF IInv, TriedOnly, WorkerKnows, Tried, Idle, Claiming, Printing
<1>4. ASSUME NEW j \in DOMAIN jobs
      PROVE  paper'[j] + Due(j)' <= jobs'[j].attempts * Copies(j)'
  <2>1. jobs'[j] = jobs[j] /\ Copies(j)' = Copies(j)
    BY <1>1 DEF Copies
  <2>2. [v \in Workers |-> Left(v, j)'] = [v \in Workers |-> Left(v, j)]
    BY <1>2, <2>1 DEF Left
  <2>3. Due(j)' = Due(j)
    BY <2>2 DEF Due
  <2> QED BY <1>2, <2>1, <2>3 DEF CountInv, Counted
<1>5. paper'[new] + Due(new)' <= jobs'[new].attempts * Copies(new)'
  <2> DEFINE k == [v \in Workers |-> Left(v, new)']
  <2>1. \A v \in Workers : k[v] = 0
    BY <1>1, <1>2, <1>3 DEF Left
  <2>2. Due(new)' = SumFunctionOnSet(k, Workers)
    BY DEF Due
  <2> HIDE DEF k
  <2>3. \A v \in Workers : k[v] \in Int /\ k[v] = 0 * k[v]
    BY <2>1
  <2>4. SumFunctionOnSet(k, Workers) = 0
    <3>1. SumFunctionOnSet(k, Workers) = 0 * SumFunctionOnSet(k, Workers)
      BY <2>3, SumScales, PrintQueueAssumption
    <3>2. SumFunctionOnSet(k, Workers) \in Int
      BY <2>3, SumIsInt, PrintQueueAssumption
    <3> QED BY <3>1, <3>2
  <2>5. paper'[new] = 0 /\ jobs'[new].attempts = 0 /\ Copies(new)' \in {1, 2}
    BY <1>1, <1>2 DEF CountInv, Counted, NewJob, Copies
  <2>6. jobs'[new].attempts * Copies(new)' = 0
    BY <2>5
  <2> QED BY <2>2, <2>4, <2>5, <2>6
<1>6. \A j \in 1..MaxJobs : j \notin DOMAIN jobs' => paper'[j] = 0
  BY <1>1, <1>2 DEF CountInv, Counted
<1> QED BY <1>1, <1>4, <1>5, <1>6 DEF Counted

\* A copy comes out, and its worker has one less to print.
LEMMA PrintCopyCount ==
    ASSUME CountInv, NEW w \in Workers, PrintCopy(w)
    PROVE  Counted'
<1>0. IInv /\ Shape /\ Wire
  BY DEF CountInv, IInv
<1>1. worker[w].pc = Printing /\ UNCHANGED jobs
  BY DEF PrintCopy
<1>2. PICK j : j = worker[w].job
  OBVIOUS
<1>3. Tried(j)
  BY <1>0, <1>1, <1>2 DEF IInv, TriedOnly, WorkerKnows, Idle, Claiming, Printing
<1>4. /\ worker'[w].pc = Printing /\ worker'[w].job = j
      /\ worker'[w].copies = worker[w].copies + 1
      /\ \A v \in Workers : v # w => worker'[v] = worker[v]
      /\ paper'[j] = paper[j] + 1
      /\ \A i \in 1..MaxJobs : i # j => paper'[i] = paper[i]
  BY <1>0, <1>2, <1>3, PrintCopyTyped
<1>5. j \in DOMAIN jobs /\ DOMAIN jobs \subseteq 1..MaxJobs
  BY <1>0, <1>3, RowsOfJobs DEF Tried
<1>6. \A i : Copies(i)' = Copies(i)
  BY <1>1 DEF Copies
<1>7. Due(j)' = Due(j) - 1
  <2> DEFINE f == [v \in Workers |-> Left(v, j)]
             k == [v \in Workers |-> Left(v, j)']
  <2>1. \A v \in Workers : v # w => f[v] = k[v]
    BY <1>4, <1>6 DEF Left
  <2>2. worker[w].copies \in Int /\ Copies(j) \in Int
    BY <1>0 DEF Shape, WorkerRow, Copies
  <2>3. f[w] = Copies(j) - worker[w].copies /\ k[w] = Copies(j) - (worker[w].copies + 1)
    BY <1>1, <1>2, <1>4, <1>6 DEF Left
  <2>4. \A v \in Workers : f[v] \in Int
    BY <1>0, LeftType
  <2>5. Due(j) = SumFunctionOnSet(f, Workers) /\ Due(j)' = SumFunctionOnSet(k, Workers)
    BY DEF Due
  <2> HIDE DEF f, k
  <2>6. k[w] = f[w] - 1 /\ f[w] \in Int /\ k[w] \in Int
    BY <2>2, <2>3
  <2>7. \A v \in Workers : f[v] \in Int /\ k[v] \in Int
    BY <2>1, <2>4, <2>6
  <2>8. SumFunctionOnSet(k, Workers) = SumFunctionOnSet(f, Workers) - f[w] + k[w]
    BY <2>1, <2>7, OneTermChanges, PrintQueueAssumption
  <2>9. SumFunctionOnSet(f, Workers) \in Int
    BY <2>4, SumIsInt, PrintQueueAssumption
  <2> QED BY <2>5, <2>6, <2>8, <2>9
<1>8. ASSUME NEW i \in DOMAIN jobs
      PROVE  paper'[i] + Due(i)' <= jobs[i].attempts * Copies(i)
  <2>1. paper[i] + Due(i) <= jobs[i].attempts * Copies(i)
    BY DEF CountInv, Counted
  <2>2. CASE i = j
    <3>1. paper[j] \in Nat /\ Due(j) \in Nat
      BY <1>0, <1>5, RoomType, DueType
    <3>2. paper'[j] + Due(j)' = paper[j] + Due(j)
      BY <1>4, <1>7, <3>1
    <3> QED BY <2>1, <2>2, <3>2
  <2>3. CASE i # j
    <3>1. [v \in Workers |-> Left(v, i)'] = [v \in Workers |-> Left(v, i)]
      <4>1. \A v \in Workers : Left(v, i)' = Left(v, i)
        BY <1>2, <1>4, <1>6, <2>3 DEF Left
      <4> QED BY <4>1
    <3>2. Due(i)' = Due(i)
      BY <3>1 DEF Due
    <3> QED BY <1>4, <1>5, <2>1, <2>3, <3>2
  <2> QED BY <2>2, <2>3
<1>9. \A i \in 1..MaxJobs : i \notin DOMAIN jobs' => paper'[i] = 0
  BY <1>1, <1>4, <1>5 DEF CountInv, Counted
<1> QED BY <1>1, <1>6, <1>8, <1>9 DEF Counted

\* A claim is counted, and its worker may print what the claim allows.
LEMMA ClaimNextCount ==
    ASSUME CountInv, IInv', NEW m \in calls, ClaimNext(m)
    PROVE  Counted'
<1>0. IInv /\ Shape /\ Wire
  BY DEF CountInv, IInv
<1>1. PICK j \in NextAt(m.printer) :
         /\ jobs' = [jobs EXCEPT ![j].status = Claimed, ![j].by = m.from,
                                 ![j].attempts = @ + 1]
         /\ \/ m.late = 0 /\ TakeJob(m.from, j, calls \ {m})
            \/ m.late > 0 /\ calls' = calls \ {m} /\ UNCHANGED worker
  BY DEF ClaimNext
<1>2. m.kind = Claiming /\ UNCHANGED paper
  BY DEF ClaimNext
<1>3. m.from \in Workers
  BY <1>0 DEF Shape, CallRow
<1>4. j \in DOMAIN jobs
  BY DEF NextAt, PendingAt
<1>5. /\ DOMAIN jobs' = DOMAIN jobs
      /\ \A i \in DOMAIN jobs : i # j => jobs'[i] = jobs[i]
      /\ jobs'[j].attempts = jobs[j].attempts + 1
      /\ jobs'[j].type = jobs[j].type
  BY <1>0, <1>1, <1>3, <1>4, ClaimedRow
<1>6. \A i \in DOMAIN jobs : Copies(i)' = Copies(i)
  BY <1>5 DEF Copies
<1>7. \/ worker' = worker
      \/ /\ worker[m.from].pc = Claiming
         /\ worker'[m.from].pc = Printing /\ worker'[m.from].job = j
         /\ worker'[m.from].copies = 0
         /\ \A v \in Workers : v # m.from => worker'[v] = worker[v]
  <2>1. CASE m.late = 0 /\ TakeJob(m.from, j, calls \ {m})
    <3>1. worker[m.from] \in WorkerRow /\ worker[m.from].pc = Claiming
      BY <1>0, <1>2, <1>3, <2>1, AwaitedCall DEF Awaits, Shape
    <3>2. worker[m.from].copies = 0
      BY <1>0, <1>3, <3>1 DEF IInv, TriedOnly, WorkerKnows
    <3> QED BY <1>0, <1>3, <2>1, <3>1, <3>2 DEF TakeJob, Shape, WorkerRow
  <2> QED BY <1>1, <2>1
<1>8. ASSUME NEW i \in DOMAIN jobs, i # j
      PROVE  paper'[i] + Due(i)' <= jobs'[i].attempts * Copies(i)'
  <2>1. \A v \in Workers : Left(v, i)' = Left(v, i)
    <3>1. Copies(i)' = Copies(i)
      BY <1>6
    <3> QED BY <1>7, <1>8, <3>1 DEF Left, Claiming, Printing
  <2>2. Due(i)' = Due(i)
    <3>1. [v \in Workers |-> Left(v, i)'] = [v \in Workers |-> Left(v, i)]
      BY <2>1
    <3> QED BY <3>1 DEF Due
  <2>3. jobs'[i] = jobs[i] /\ Copies(i)' = Copies(i)
    BY <1>5, <1>6, <1>8
  <2> QED BY <1>2, <2>2, <2>3 DEF CountInv, Counted
<1>9. Due(j)' \in Int /\ Due(j)' <= Due(j) + Copies(j)
  <2> DEFINE f == [v \in Workers |-> Left(v, j)]
             k == [v \in Workers |-> Left(v, j)']
  <2>1. Copies(j)' = Copies(j) /\ Copies(j) \in {1, 2}
    BY <1>4, <1>6 DEF Copies
  <2>2. \A v \in Workers : f[v] \in Int
    BY <1>0, LeftType
  <2>3. Due(j) = SumFunctionOnSet(f, Workers) /\ Due(j)' = SumFunctionOnSet(k, Workers)
    BY DEF Due
  <2>4. Due(j) \in Nat
    BY <1>0, DueType
  <2>5. CASE worker' = worker
    <3>1. k = f
      BY <2>1, <2>5 DEF Left
    <3> QED BY <2>1, <2>3, <2>4, <3>1
  <2>6. CASE /\ worker[m.from].pc = Claiming
             /\ worker'[m.from].pc = Printing /\ worker'[m.from].job = j
             /\ worker'[m.from].copies = 0
             /\ \A v \in Workers : v # m.from => worker'[v] = worker[v]
    <3>1. \A v \in Workers : v # m.from => f[v] = k[v]
      BY <2>1, <2>6 DEF Left
    <3>2. f[m.from] = 0 /\ k[m.from] = Copies(j)
      BY <1>3, <2>1, <2>6 DEF Left, Claiming, Printing
    <3> HIDE DEF f, k
    <3>3. \A v \in Workers : f[v] \in Int /\ k[v] \in Int
      BY <2>1, <2>2, <3>1, <3>2
    <3>4. SumFunctionOnSet(k, Workers)
            = SumFunctionOnSet(f, Workers) - f[m.from] + k[m.from]
      BY <1>3, <3>1, <3>3, OneTermChanges, PrintQueueAssumption
    <3> QED BY <2>1, <2>3, <2>4, <3>2, <3>4
  <2> QED BY <1>7, <2>5, <2>6
<1>10. paper'[j] + Due(j)' <= jobs'[j].attempts * Copies(j)'
  <2>1. /\ paper[j] \in Nat /\ Copies(j) \in {1, 2}
        /\ jobs[j].attempts * Copies(j) \in Nat
        /\ (jobs[j].attempts + 1) * Copies(j) = jobs[j].attempts * Copies(j) + Copies(j)
    BY <1>0, <1>4, RoomType
  <2>2. paper[j] + Due(j) <= jobs[j].attempts * Copies(j)
    BY <1>4 DEF CountInv, Counted
  <2>3. jobs'[j].attempts * Copies(j)' = jobs[j].attempts * Copies(j) + Copies(j)
    BY <1>4, <1>5, <1>6, <2>1
  <2>4. Due(j) \in Nat
    BY <1>0, DueType
  <2>5. paper[j] + Due(j)' <= jobs[j].attempts * Copies(j) + Copies(j)
    BY <1>9, <2>1, <2>2, <2>4
  <2> QED BY <1>2, <2>3, <2>5
<1>11. \A i \in 1..MaxJobs : i \notin DOMAIN jobs' => paper'[i] = 0
  BY <1>2, <1>5 DEF CountInv, Counted
<1> QED BY <1>5, <1>8, <1>10, <1>11 DEF Counted

LEMMA MarkCount ==
    ASSUME CountInv, IInv', NEW m \in calls, Mark(m)
    PROVE  Counted'
<1>0. IInv /\ Shape /\ Wire
  BY DEF CountInv, IInv
<1>1. m.kind \in {Confirming, Reporting} /\ UNCHANGED paper /\ Answer(m, OK)
  BY DEF Mark
<1>2. m.job \in DOMAIN jobs
  BY <1>0, <1>1, ServedJobs DEF Claiming, Confirming, Reporting
<1>3. PICK status \in {Printed, Failed} : jobs' = [jobs EXCEPT ![m.job].status = status]
  BY <1>1 DEF Mark, Printed, Failed
<1>4. /\ DOMAIN jobs' = DOMAIN jobs
      /\ \A k \in DOMAIN jobs : k # m.job => jobs'[k] = jobs[k]
      /\ jobs'[m.job].attempts = jobs[m.job].attempts
      /\ jobs'[m.job].type = jobs[m.job].type
  BY <1>0, <1>2, <1>3, MarkedRow
<1>5. \A k \in DOMAIN jobs : jobs'[k].attempts = jobs[k].attempts /\ jobs'[k].type = jobs[k].type
  BY <1>4
<1>6. \/ Heard(m.from, calls \ {m}) /\ m.from \in Workers
      \/ worker' = worker
  BY <1>0, <1>1, AnswerEffect
<1>7. \A v \in Workers : worker'[v] = worker[v] \/ worker'[v].pc # Printing
  BY <1>6 DEF Heard, Idle, Reporting, Printing
<1> QED BY <1>1, <1>4, <1>5, <1>7, CountKept

\* A step that leaves rows and paper alone, and gives no worker a job.
LEMMA RowsAsTheyWere ==
    ASSUME CountInv, IInv', UNCHANGED <<jobs, paper>>,
           \A v \in Workers : worker'[v] = worker[v] \/ worker'[v].pc # Printing
    PROVE  Counted'
  BY CountKept

LEMMA WorkerCount ==
    ASSUME CountInv, IInv', NEW w \in Workers, WorkerStep(w) \/ TimeOut(w) \/ Crash(w)
    PROVE  Counted'
<1>0. Shape /\ Wire /\ worker \in [Workers -> WorkerRow]
  BY DEF CountInv, IInv, Shape
<1>1. CASE PrintCopy(w)
  BY <1>1, PrintCopyCount
<1>2. CASE SendClaim(w) \/ SendPrinted(w) \/ PrintError(w)
  <2>1. PICK pc \in {Claiming, Confirming, Reporting} : worker' = [worker EXCEPT ![w].pc = pc]
    BY <1>2 DEF SendClaim, SendPrinted, PrintError
  <2>2. \A v \in Workers : worker'[v] = worker[v] \/ worker'[v].pc # Printing
    BY <1>0, <2>1 DEF WorkerRow, Claiming, Confirming, Reporting, Printing
  <2>3. UNCHANGED <<jobs, paper>>
    BY <1>2 DEF SendClaim, SendPrinted, PrintError
  <2> QED BY <2>2, <2>3, RowsAsTheyWere
<1>3. CASE TimeOut(w) \/ Crash(w)
  <2>1. Heard(w, Others(w) \cup GivenUp(w)) /\ UNCHANGED <<jobs, paper>>
    BY <1>0, <1>3, TimeOutTyped, CrashTyped DEF TimeOut, Crash
  <2>2. \A v \in Workers : worker'[v] = worker[v] \/ worker'[v].pc # Printing
    BY <2>1 DEF Heard, Idle, Reporting, Printing
  <2> QED BY <2>1, <2>2, RowsAsTheyWere
<1> QED BY <1>1, <1>2, <1>3 DEF WorkerStep

LEMMA ServeCount ==
    ASSUME CountInv, IInv', NEW m \in calls, Serve(m)
    PROVE  Counted'
<1>0. Shape /\ Wire
  BY DEF CountInv, IInv
<1>1. ASSUME NEW outcome \in {OK, Error}, Answer(m, outcome), UNCHANGED <<jobs, paper>>
      PROVE  Counted'
  <2>1. \/ Heard(m.from, calls \ {m}) /\ m.from \in Workers
        \/ worker' = worker
    BY <1>0, <1>1, AnswerEffect
  <2>2. \A v \in Workers : worker'[v] = worker[v] \/ worker'[v].pc # Printing
    BY <2>1 DEF Heard, Idle, Reporting, Printing
  <2> QED BY <1>1, <2>2, RowsAsTheyWere
<1>2. CASE ClaimNothing(m)
  BY <1>1, <1>2 DEF ClaimNothing
<1>3. CASE CheckClaimed(m)
  <2>1. UNCHANGED <<jobs, paper>>
    BY <1>3 DEF CheckClaimed
  <2>2. CASE Answer(m, Error)
    BY <1>1, <2>1, <2>2
  <2>3. CASE UNCHANGED worker
    BY <2>1, <2>3, RowsAsTheyWere
  <2> QED BY <1>3, <2>2, <2>3 DEF CheckClaimed
<1> QED BY <1>2, <1>3, ClaimNextCount, MarkCount DEF Serve

LEMMA ClerkCount ==
    ASSUME CountInv, IInv', NEW c \in Clerks, ClerkStep(c)
    PROVE  Counted'
<1>1. CASE ReadFailed(c)
  BY <1>1, RowsAsTheyWere DEF ReadFailed
<1>2. CASE Requeue(c)
  <2>1. /\ DOMAIN jobs' = DOMAIN jobs
        /\ \A k \in DOMAIN jobs : /\ jobs'[k].attempts = jobs[k].attempts
                                  /\ jobs'[k].type = jobs[k].type
    BY <1>2, RequeuedRows DEF CountInv, IInv
  <2>2. UNCHANGED <<paper, worker>>
    BY <1>2 DEF Requeue
  <2> QED BY <2>1, <2>2, CountKept
<1> QED BY <1>1, <1>2 DEF ClerkStep

LEMMA NextCount == CountInv /\ [Next]_vars => CountInv'
<1> SUFFICES ASSUME CountInv, [Next]_vars PROVE CountInv'
  OBVIOUS
<1>0. IInv'
  BY NextIInv DEF CountInv
<1> SUFFICES Counted'
  BY <1>0 DEF CountInv
<1>1. CASE \/ \E p \in 1..Printers : EnqueueCommand(p)
           \/ EnqueueTicket
           \/ EnqueueCashShift
  BY <1>0, <1>1, PrintQueueAssumption, AddJobCount DEF EnqueueCommand, EnqueueTicket, EnqueueCashShift
<1>2. ASSUME NEW j \in DOMAIN jobs, Reprint(j) PROVE Counted'
  <2>1. jobs[j].printer \in 1..Printers
    BY RowsOfJobs DEF CountInv, IInv, JobRow
  <2> QED BY <1>0, <1>2, <2>1, AddJobCount DEF Reprint
<1>3. ASSUME NEW w \in Workers, WorkerStep(w) \/ TimeOut(w) \/ Crash(w) PROVE Counted'
  BY <1>0, <1>3, WorkerCount
<1>4. ASSUME NEW m \in calls, Serve(m) PROVE Counted'
  BY <1>0, <1>4, ServeCount
<1>5. ASSUME NEW c \in Clerks, ClerkStep(c) PROVE Counted'
  BY <1>0, <1>5, ClerkCount
<1>6. CASE UNCHANGED vars
  BY <1>0, <1>6, RowsAsTheyWere DEF vars
<1> QED BY <1>1, <1>2, <1>3, <1>4, <1>5, <1>6 DEF Next

THEOREM CountInvariance == Spec => []CountInv
<1>1. Init => CountInv
  BY InitCount
<1>2. CountInv /\ [Next]_vars => CountInv'
  BY NextCount
<1> QED BY <1>1, <1>2, PTL DEF Spec

\* Paper never comes out without a claim that its row counts, however many
\* retries put the job back at once (claim_next_print_job).
THEOREM PaperIsAlwaysCounted == Spec => []PaperIsCounted
<1>1. ASSUME CountInv, NEW j \in DOMAIN jobs PROVE paper[j] <= jobs[j].attempts * Copies(j)
  <2>1. paper[j] \in Nat /\ jobs[j].attempts * Copies(j) \in Nat /\ Due(j) \in Nat
    BY <1>1, RoomType, DueType DEF CountInv, IInv
  <2>2. paper[j] + Due(j) <= jobs[j].attempts * Copies(j)
    BY <1>1 DEF CountInv, Counted
  <2> QED BY <2>1, <2>2
<1>2. CountInv => PaperIsCounted
  BY <1>1 DEF PaperIsCounted
<1> QED BY <1>2, CountInvariance, PTL
=============================================================================
