----------------------------- MODULE PrintQueue -----------------------------
(***************************************************************************)
(* The print queue (PrintJob rows) and the physical print workers that     *)
(* poll it over HTTP.  A worker asks for a job of each of its printers in  *)
(* turn, prints it and posts the outcome; an operator puts failed jobs     *)
(* back.  A call that takes longer than the worker's timeout is an error   *)
(* for the worker, yet the server may still execute it at any later time;  *)
(* a call that was lost on the way is one the server never executes.       *)
(*                                                                         *)
(* A claim is one conditional UPDATE and takes effect at once.  The other  *)
(* handlers load rows, check them, and write them by primary key when the  *)
(* session is flushed: here they are two steps, between which any other    *)
(* handler may run.                                                        *)
(***************************************************************************)
EXTENDS Integers, Sequences, FiniteSets

CONSTANTS
    Workers,      \* worker_id of each worker process
    Clerks,       \* operators who may ask for a retry at the same time
    Printers,     \* number of printers, in the order of the workers' configuration
    CashPrinter,  \* the one at the cash desk (CAJA); the others belong to stations
    Inactive,     \* those that are not active
    NoWorker,
    Documents,    \* bound: job types that are enqueued
    MaxJobs,      \* bound: jobs ever enqueued
    MaxAttempts,  \* bound: claims of one job
    MaxFaults     \* bound: timeouts and crashes

\* PrintJob.job_type; cancellations and notes are printed like commands.
Command      == "Comanda"
TicketCopies == "Ticket"
CashShift    == "Corte"

ASSUME PrintQueueAssumption ==
    /\ Documents \subseteq {Command, TicketCopies, CashShift}
    /\ Printers \in Nat \ {0}
    /\ CashPrinter \in 1..Printers
    /\ Inactive \subseteq 1..Printers
    /\ IsFiniteSet(Workers)
    /\ NoWorker \notin Workers
    /\ {MaxJobs, MaxAttempts, MaxFaults} \subseteq Nat

VARIABLES
    jobs,    \* PrintJob rows in id order
    paper,   \* copies that came out of a printer, for each job
    worker,  \* the worker processes
    calls,   \* HTTP calls the server has not finished
    clerk,   \* the failed jobs each retry call has read and not yet written
    shared,  \* jobs that two retries held at once; no step depends on it
    faults   \* timeouts and crashes so far

vars == <<jobs, paper, worker, calls, clerk, shared, faults>>

Pending == "Pendiente"
Claimed == "Tomado"
Printed == "Impreso"
Failed  == "Fallido"

\* Where a worker is in process_once.
Idle       == "idle"
Claiming   == "claiming"
Printing   == "printing"
Confirming == "confirming"
Reporting  == "reporting"

NoJob == 0

\* Outcomes of a call as its worker sees them.
OK    == "ok"
Error == "error"

-----------------------------------------------------------------------------
Init ==
    /\ jobs = <<>>
    /\ paper = [j \in 1..MaxJobs |-> 0]
    /\ worker = [w \in Workers |-> [pc |-> Idle, at |-> 1, job |-> NoJob, copies |-> 0]]
    /\ calls = {}
    /\ clerk = [c \in Clerks |-> {}]
    /\ shared = {}
    /\ faults = 0

NewJob(printer, type) ==
    [printer |-> printer, type |-> type, status |-> Pending, by |-> NoWorker, attempts |-> 0]

AddJob(printer, type) ==
    /\ Len(jobs) < MaxJobs
    /\ type \in Documents
    /\ jobs' = Append(jobs, NewJob(printer, type))
    /\ UNCHANGED <<paper, worker, calls, clerk, shared, faults>>

\* send_round, and what is printed of its lines later, at a station.
EnqueueCommand(printer) ==
    /\ printer \notin Inactive \cup {CashPrinter}
    /\ AddJob(printer, Command)

\* create_ticket_print_job
EnqueueTicket == CashPrinter \notin Inactive /\ AddJob(CashPrinter, TicketCopies)

\* create_cash_shift_print_job
EnqueueCashShift == CashPrinter \notin Inactive /\ AddJob(CashPrinter, CashShift)

\* request_reprint clones a job, whatever became of it and of its printer.
Reprint(j) == AddJob(jobs[j].printer, jobs[j].type)

-----------------------------------------------------------------------------
(* The worker.                                                             *)

\* [Defect] The worker stays with the printer it has just served.
SamePrinter(w) ==
    [pc |-> Idle, at |-> worker[w].at, job |-> NoJob, copies |-> 0]

\* The next printer of the configuration, or a new cycle after the last one.
NextPrinter(w) ==
    [pc |-> Idle, at |-> (worker[w].at % Printers) + 1, job |-> NoJob, copies |-> 0]

\* An exception leaves process_once; the next cycle starts at the first printer.
NewCycle == [pc |-> Idle, at |-> 1, job |-> NoJob, copies |-> 0]

\* A call on the wire.  Number 0 is the one its worker waits for; a call its
\* worker gave up on takes the number of that fault.
Call(w, kind, j) ==
    [from |-> w, kind |-> kind, printer |-> worker[w].at, job |-> j, read |-> FALSE, late |-> 0]

SendClaim(w) ==
    /\ worker[w].pc = Idle
    /\ worker' = [worker EXCEPT ![w].pc = Claiming]
    /\ calls' = calls \cup {Call(w, Claiming, NoJob)}
    /\ UNCHANGED <<jobs, paper, clerk, shared, faults>>

\* A customer's ticket has a copy for the desk.
Copies(j) == IF jobs[j].type = TicketCopies THEN 2 ELSE 1

\* The printer takes all of the content and one copy comes out.
WriteCopy(j) == paper' = [paper EXCEPT ![j] = @ + 1]

\* print_job_content
PrintCopy(w) ==
    /\ worker[w].pc = Printing
    /\ worker[w].copies < Copies(worker[w].job)
    /\ WriteCopy(worker[w].job)
    /\ worker' = [worker EXCEPT ![w].copies = @ + 1]
    /\ UNCHANGED <<jobs, calls, clerk, shared, faults>>

SendPrinted(w) ==
    /\ worker[w].pc = Printing
    /\ worker[w].copies = Copies(worker[w].job)
    /\ worker' = [worker EXCEPT ![w].pc = Confirming]
    /\ calls' = calls \cup {Call(w, Confirming, worker[w].job)}
    /\ UNCHANGED <<jobs, paper, clerk, shared, faults>>

\* [Defect] A printer error ends the cycle and is not posted.
PrintErrorUnreported(w) ==
    /\ worker[w].pc = Printing
    /\ worker' = [worker EXCEPT ![w] = NewCycle]
    /\ UNCHANGED <<jobs, paper, calls, clerk, shared, faults>>

\* The printer raises, possibly after some copies, and the failure is posted.
PrintError(w) ==
    /\ worker[w].pc = Printing
    /\ worker' = [worker EXCEPT ![w].pc = Reporting]
    /\ calls' = calls \cup {Call(w, Reporting, worker[w].job)}
    /\ UNCHANGED <<jobs, paper, clerk, shared, faults>>

\* [Defect] The worker confirms before it prints.
TakeJobConfirmFirst(w, j, rest) ==
    /\ worker' = [worker EXCEPT ![w].pc = Confirming, ![w].job = j]
    /\ calls' = rest \cup {Call(w, Confirming, j)}

\* The worker receives a job; rest are the calls still on the wire.
TakeJob(w, j, rest) ==
    /\ worker' = [worker EXCEPT ![w].pc = Printing, ![w].job = j]
    /\ calls' = rest

\* The worker learns the outcome of any other call: a failed confirmation is
\* reported as a failed print, any other failed call ends the cycle.
Receive(w, outcome, rest) ==
    \/ /\ outcome = OK
       /\ worker' = [worker EXCEPT ![w] = NextPrinter(w)]
       /\ calls' = rest
    \/ /\ outcome = Error
       /\ worker[w].pc = Confirming
       /\ worker' = [worker EXCEPT ![w].pc = Reporting]
       /\ calls' = rest \cup {Call(w, Reporting, worker[w].job)}
    \/ /\ outcome = Error
       /\ worker[w].pc # Confirming
       /\ worker' = [worker EXCEPT ![w] = NewCycle]
       /\ calls' = rest

\* The server finishes call m; nobody listens to the answer of a late one.
Answer(m, outcome) ==
    \/ m.late = 0 /\ Receive(m.from, outcome, calls \ {m})
    \/ m.late > 0 /\ calls' = calls \ {m} /\ UNCHANGED worker

-----------------------------------------------------------------------------
(* The server.                                                             *)

PendingAt(printer) == {j \in DOMAIN jobs : jobs[j].status = Pending /\ jobs[j].printer = printer}

\* [Defect] The newest pending job.
NewestAt(printer) == {j \in PendingAt(printer) : \A k \in PendingAt(printer) : k <= j}

\* The oldest pending job (next_retry_at is null on every pending row).
NextAt(printer) == {j \in PendingAt(printer) : \A k \in PendingAt(printer) : j <= k}

\* claim_next_print_job with nothing to claim, or on an inactive printer.
ClaimNothing(m) ==
    /\ m.kind = Claiming
    /\ \/ m.printer \in Inactive /\ Answer(m, Error)
       \/ m.printer \notin Inactive /\ PendingAt(m.printer) = {} /\ Answer(m, OK)
    /\ UNCHANGED <<jobs, paper, clerk, shared, faults>>

\* claim_next_print_job
ClaimNext(m) ==
    /\ m.kind = Claiming
    /\ m.printer \notin Inactive
    /\ \E j \in NextAt(m.printer) :
          /\ jobs' = [jobs EXCEPT ![j].status = Claimed, ![j].by = m.from,
                                  ![j].attempts = @ + 1]
          /\ \/ m.late = 0 /\ TakeJob(m.from, j, calls \ {m})
             \/ m.late > 0 /\ calls' = calls \ {m} /\ UNCHANGED worker
    /\ UNCHANGED <<paper, clerk, shared, faults>>

\* _claimed_job: the first half of mark_print_job_printed and
\* mark_print_job_failed.
CheckClaimed(m) ==
    /\ m.kind \in {Confirming, Reporting}
    /\ ~m.read
    /\ IF jobs[m.job].status = Claimed /\ jobs[m.job].by = m.from
       THEN calls' = (calls \ {m}) \cup {[m EXCEPT !.read = TRUE]} /\ UNCHANGED worker
       ELSE Answer(m, Error)
    /\ UNCHANGED <<jobs, paper, clerk, shared, faults>>

\* mark_print_job_printed or mark_print_job_failed commits.
Mark(m) ==
    /\ m.kind \in {Confirming, Reporting}
    /\ m.read
    /\ jobs' = [jobs EXCEPT ![m.job].status = IF m.kind = Confirming THEN Printed ELSE Failed]
    /\ Answer(m, OK)
    /\ UNCHANGED <<paper, clerk, shared, faults>>

Serve(m) == ClaimNothing(m) \/ ClaimNext(m) \/ CheckClaimed(m) \/ Mark(m)

\* [Defect] A retry also takes the jobs a worker has claimed.
RetriableOrClaimed(j) == jobs[j].status \in {Failed, Claimed} /\ jobs[j].attempts < MaxAttempts

Retriable(j) == jobs[j].status = Failed /\ jobs[j].attempts < MaxAttempts

\* The jobs that other retries have read and not yet written.
HeldByOthers(c) == UNION {clerk[d] : d \in Clerks \ {c}}

\* retry_failed_print_jobs reads the failed jobs that are due (or all of
\* them with reset_all; any of them may be due) ...
ReadFailed(c) ==
    /\ clerk[c] = {}
    /\ \E S \in SUBSET {j \in DOMAIN jobs : Retriable(j)} :
          /\ S # {}
          /\ clerk' = [clerk EXCEPT ![c] = S]
          /\ shared' = shared \cup (S \cap HeldByOthers(c))
    /\ UNCHANGED <<jobs, paper, worker, calls, faults>>

\* [Defect] The attempts start again from zero.
RequeueResettingAttempts(c) ==
    /\ clerk[c] # {}
    /\ jobs' = [j \in DOMAIN jobs |->
                   IF j \in clerk[c]
                   THEN [jobs[j] EXCEPT !.status = Pending, !.by = NoWorker, !.attempts = 0]
                   ELSE jobs[j]]
    /\ clerk' = [clerk EXCEPT ![c] = {}]
    /\ UNCHANGED <<paper, worker, calls, shared, faults>>

\* ... and writes them back as pending.
Requeue(c) ==
    /\ clerk[c] # {}
    /\ jobs' = [j \in DOMAIN jobs |->
                   IF j \in clerk[c]
                   THEN [jobs[j] EXCEPT !.status = Pending, !.by = NoWorker] ELSE jobs[j]]
    /\ clerk' = [clerk EXCEPT ![c] = {}]
    /\ UNCHANGED <<paper, worker, calls, shared, faults>>

-----------------------------------------------------------------------------
(* Faults.                                                                 *)

\* The call of w that is still on the wire when w stops waiting for it.
WaitedFor(w) == {m \in calls : m.from = w /\ m.late = 0}

Late(m) == [m EXCEPT !.late = faults + 1]

GivenUp(w) == {Late(m) : m \in WaitedFor(w)}

Others(w) == calls \ WaitedFor(w)

\* post_json times out: an error for the worker, but the call goes on.
TimeOut(w) ==
    /\ worker[w].pc \in {Claiming, Confirming, Reporting}
    /\ faults < MaxFaults
    /\ faults' = faults + 1
    /\ Receive(w, Error, Others(w) \cup GivenUp(w))
    /\ UNCHANGED <<jobs, paper, clerk, shared>>

\* The worker process dies and its scheduled task starts it again.
Crash(w) ==
    /\ worker[w].pc # Idle
    /\ faults < MaxFaults
    /\ faults' = faults + 1
    /\ worker' = [worker EXCEPT ![w] = NewCycle]
    /\ calls' = Others(w) \cup GivenUp(w)
    /\ UNCHANGED <<jobs, paper, clerk, shared>>

-----------------------------------------------------------------------------
WorkerStep(w) == SendClaim(w) \/ PrintCopy(w) \/ SendPrinted(w) \/ PrintError(w)

ClerkStep(c) == ReadFailed(c) \/ Requeue(c)

Next ==
    \/ \E p \in 1..Printers : EnqueueCommand(p)
    \/ EnqueueTicket
    \/ EnqueueCashShift
    \/ \E j \in DOMAIN jobs : Reprint(j)
    \/ \E w \in Workers : WorkerStep(w) \/ TimeOut(w) \/ Crash(w)
    \/ \E m \in calls : Serve(m)
    \/ \E c \in Clerks : ClerkStep(c)

Spec == Init /\ [][Next]_vars

\* A worker process keeps running, and the server answers each call that its
\* worker still waits for.  Nobody is obliged to enqueue or to retry.
Fairness ==
    \A w \in Workers :
        /\ WF_vars(WorkerStep(w))
        /\ WF_vars(\E m \in calls : m.from = w /\ m.late = 0 /\ Serve(m))

FairSpec == Spec /\ Fairness

-----------------------------------------------------------------------------
(* Properties.                                                             *)

JobRow == [printer : 1..Printers, type : {Command, TicketCopies, CashShift},
           status : {Pending, Claimed, Printed, Failed}, by : Workers \cup {NoWorker}, attempts : Nat]

CallRow == [from : Workers, kind : {Claiming, Confirming, Reporting}, printer : 1..Printers,
            job : 0..MaxJobs, read : BOOLEAN, late : 0..MaxFaults]

\* Rows and calls have their shape, and a worker waits for one call exactly
\* when it is not free or printing.
TypeOK ==
    /\ jobs \in Seq(JobRow)
    /\ paper \in [1..MaxJobs -> Nat]
    /\ worker \in [Workers -> [pc : {Idle, Claiming, Printing, Confirming, Reporting},
                               at : 1..Printers, job : 0..MaxJobs, copies : 0..2]]
    /\ calls \subseteq CallRow
    /\ clerk \in [Clerks -> SUBSET (1..MaxJobs)]
    /\ shared \subseteq 1..MaxJobs
    /\ faults \in 0..MaxFaults
    /\ \A w \in Workers :
          IF worker[w].pc \in {Idle, Printing}
          THEN WaitedFor(w) = {} ELSE \E m \in calls : WaitedFor(w) = {m}

\* A job the queue calls printed came out complete at least once, whatever
\* calls were late, lost or overtaken (process_once, mark_print_job_printed).
PrintedCameOut ==
    \A j \in DOMAIN jobs : jobs[j].status = Printed => paper[j] >= Copies(j)

\* No two workers print the same job at the same time, unless two retries
\* held that very job at once: the one that writes last puts the job back
\* while a worker may have it already.  A job that only one retry held at a
\* time keeps one holder, whatever other jobs, retries, timeouts and crashes
\* do ("dos transacciones no pueden tomar el mismo id"; claim_next_print_job,
\* retry_failed_print_jobs).
OneHolder ==
    \A v, w \in Workers :
        /\ worker[v].pc = Printing
        /\ worker[w].pc = Printing
        /\ worker[v].job = worker[w].job
        /\ worker[w].job \notin shared
        => v = w

\* Paper never comes out without a claim that the row counts, even for a job
\* that two retries put back: each of its prints is a claim of its own
\* (claim_next_print_job, retry_failed_print_jobs).
PaperIsCounted ==
    \A j \in DOMAIN jobs : paper[j] <= jobs[j].attempts * Copies(j)

\* The jobs of a printer are first tried in the order they were enqueued,
\* however many workers serve it (the FIFO of claim_next_print_job).
TriedInOrder ==
    \A j, k \in DOMAIN jobs :
        /\ j < k
        /\ jobs[j].printer = jobs[k].printer
        /\ jobs[k].attempts > 0
        => jobs[j].attempts > 0

\* Without a timeout or a crash no job is left behind as claimed: there is
\* nobody but its worker to move it on (process_once; no service returns a
\* claimed job to the queue).
ClaimedIsHeld ==
    faults = 0 =>
        \A j \in DOMAIN jobs : jobs[j].status = Claimed =>
            \E w \in Workers : jobs[j].by = w /\ worker[w].job = j

StatusOf(j) == IF j \in DOMAIN jobs THEN jobs[j].status ELSE "Ausente"

Serviced(j) == j \in DOMAIN jobs /\ jobs[j].printer \notin Inactive

\* Every pending job of an active printer is printed or reported as failed in
\* the end, unless a timeout or a crash occurs (process_once serves every
\* printer in turn, up to the first inactive one).
EveryJobIsSettled ==
    \A j \in 1..MaxJobs :
        StatusOf(j) = Pending /\ Serviced(j)
            ~> (StatusOf(j) \in {Printed, Failed} \/ faults > 0)


=============================================================================
