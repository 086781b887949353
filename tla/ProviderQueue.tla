---------------------------- MODULE ProviderQueue ----------------------------
(***************************************************************************)
(* How a check reaches the provider.  BullComplianceProviderAdapter adds a *)
(* job to a BullMQ queue and waits for its end, for a minute at most; the  *)
(* worker of each replica takes one job at a time and runs                 *)
(* SuwardComplianceProviderAdapter on it, which validates, sends one       *)
(* request and reads the reply; whatever it throws costs the job one of    *)
(* its attempts.  The job goes on when its caller has left.                *)
(*                                                                         *)
(* Of BullMQ: jobs wait in line, a failed attempt is retried after a       *)
(* delay, and a job whose worker does not renew its lock is handed out     *)
(* again, MaxStalled times at most; the worker that lost it may live on.   *)
(*                                                                         *)
(* `sent' and `since' are history variables: no guard reads them.  All of  *)
(* it together implements ProviderPort.                                    *)
(***************************************************************************)
EXTENDS Naturals, Sequences

CONSTANTS
  Callers,      \* checks that ask the provider
  Workers,      \* one per replica of the backend
  Questions,    \* address and network, trimmed
  Acceptable,   \* those that complianceCheckInputSchema accepts
  Scores,       \* risk scores, in hundredths
  SignalScores, \* scores of stolen_coins signals, in hundredths
  MaxJobs,      \* bound: jobs added in one behaviour
  MaxAttempts,  \* COMPLIANCE_PROVIDER_MAX_ATTEMPTS
  MaxStalled,   \* how often BullMQ hands out again a job that has lost its worker
  None

VARIABLES
  caller,      \* where each caller stands
  ask,         \* the job it waits for
  asked,       \* the question it asks
  job,         \* every job ever added
  queue,       \* jobs that wait, first come first served
  worker,      \* the job each worker has in hand
  configured,  \* the environment has the key and the address of the provider
  events,      \* the QueueEvents of the adapter are open
  sent,        \* history: how often the provider was asked for a job
  since        \* history: callers that had asked when the provider was last asked

vars == <<caller, ask, asked, job, queue, worker, configured, events, sent, since>>

Jobs == 1..MaxJobs

ASSUME QueueAssumption ==
  /\ Acceptable \subseteq Questions
  /\ Scores \subseteq 0..100 /\ SignalScores \subseteq 0..100
  /\ MaxJobs \in Nat /\ MaxStalled \in Nat
  /\ MaxAttempts \in Nat \ {0}
  /\ None \notin Nat \cup Workers \cup Questions

Ended == {"completed", "failed"}

Signals == {None} \cup SUBSET SignalScores

Results == [risk : {"high", "low"}, score : Scores \cup {None}, stolen : Signals]

JobRecords == [state : {"absent", "waiting", "active", "delayed"} \cup Ended,
               question : Questions \cup {None}, failures : 0..MaxAttempts,
               stalls : 0..MaxStalled, owner : Workers \cup {None},
               result : Results \cup {None}]

TypeOK ==
  /\ caller \in [Callers -> {"idle", "waiting", "ok", "failed", "refused"}]
  /\ ask \in [Callers -> Jobs \cup {None}]
  /\ asked \in [Callers -> Questions \cup {None}]
  /\ job \in [Jobs -> JobRecords]
  /\ queue \in Seq(Jobs)
  /\ worker \in [Workers -> Jobs \cup {None}]
  /\ configured \in BOOLEAN /\ events \in BOOLEAN
  /\ sent \in [Jobs -> Nat]
  /\ since \in [Jobs -> SUBSET Callers]

-----------------------------------------------------------------------------
(* The provider's reply and what it is taken for. *)

\* A null score or null signals are None; of the signals, any number, only the scores of
\* those of category stolen_coins are looked at.
Replies == [reached : BOOLEAN, readable : BOOLEAN, ok : BOOLEAN, json : BOOLEAN,
            shaped : BOOLEAN, dated : BOOLEAN, score : Scores \cup {None},
            stolen : Signals]

HighRiskScore == 60
StolenCoinsScore == 25

IsHighRisk(reply) ==
  \/ reply.score # None /\ reply.score >= HighRiskScore
  \/ reply.stolen # None /\ \E s \in reply.stolen : s >= StolenCoinsScore

\* The fetch returns, its body can be read, the status is 2xx, the body is JSON of the
\* shape of the schema, and checked_at is null or a date; anything else throws.
Usable(reply) ==
  reply.reached /\ reply.readable /\ reply.ok /\ reply.json /\ reply.shaped /\ reply.dated

ToDomain(reply) ==
  [risk |-> IF IsHighRisk(reply) THEN "high" ELSE "low", score |-> reply.score,
   stolen |-> reply.stolen]

\* What an attempt comes to: an error, or a result.
Outcomes == {IF Usable(reply) THEN ToDomain(reply) ELSE None : reply \in Replies}

-----------------------------------------------------------------------------

Absent == [state |-> "absent", question |-> None, failures |-> 0, stalls |-> 0,
           owner |-> None, result |-> None]

Init ==
  /\ caller = [k \in Callers |-> "idle"]
  /\ ask = [k \in Callers |-> None]
  /\ asked = [k \in Callers |-> None]
  /\ job = [j \in Jobs |-> Absent]
  /\ queue = <<>>
  /\ worker = [w \in Workers |-> None]
  /\ configured \in BOOLEAN
  /\ events = TRUE
  /\ sent = [j \in Jobs |-> 0]
  /\ since = [j \in Jobs |-> {}]

workVars == <<worker, configured, events, sent>>

\* queue.add draws a fresh id for every call.
IsNew(j, q) == job[j].state = "absent" /\ \A i \in 1..(j - 1) : job[i].state # "absent"

AddJob(j, q) ==
  IF job[j].state = "absent"
    THEN /\ job' = [job EXCEPT ![j] = [Absent EXCEPT !.state = "waiting", !.question = q]]
         /\ queue' = Append(queue, j)
    ELSE UNCHANGED <<job, queue>>

\* The job is added and the caller waits; without queue events it fails, the job stays.
Ask(k, q) ==
  /\ caller[k] = "idle"
  /\ \E j \in Jobs :
       /\ IsNew(j, q)
       /\ AddJob(j, q)
       /\ ask' = [ask EXCEPT ![k] = j]
  /\ asked' = [asked EXCEPT ![k] = q]
  /\ caller' = [caller EXCEPT ![k] = IF events THEN "waiting" ELSE "refused"]
  /\ UNCHANGED <<workVars, since>>

\* queue.add fails, or succeeds and its answer is lost.
AskFails(k, q) ==
  /\ caller[k] = "idle"
  /\ caller' = [caller EXCEPT ![k] = "refused"]
  /\ asked' = [asked EXCEPT ![k] = q]
  /\ \/ UNCHANGED <<job, queue>>
     \/ \E j \in Jobs : IsNew(j, q) /\ AddJob(j, q)
  /\ UNCHANGED <<ask, workVars, since>>

\* The end of the job reaches its caller, in time.
Notice(k) ==
  /\ caller[k] = "waiting"
  /\ job[ask[k]].state \in Ended
  /\ caller' = [caller EXCEPT ![k] =
                  IF job[ask[k]].state = "completed" THEN "ok" ELSE "failed"]
  /\ UNCHANGED <<ask, asked, job, queue, workVars, since>>

\* waitUntilFinished gives up, whatever the job does.
TimesOut(k) ==
  /\ caller[k] = "waiting"
  /\ caller' = [caller EXCEPT ![k] = "failed"]
  /\ UNCHANGED <<ask, asked, job, queue, workVars, since>>

\* The caller is done with its answer; the client may ask again.
Leave(k) ==
  /\ caller[k] \notin {"idle", "waiting"}
  /\ caller' = [caller EXCEPT ![k] = "idle"]
  /\ ask' = [ask EXCEPT ![k] = None]
  /\ asked' = [asked EXCEPT ![k] = None]
  /\ since' = [j \in Jobs |-> since[j] \ {k}]
  /\ UNCHANGED <<job, queue, workVars>>

\* onModuleDestroy: the queue closes under the callers that still wait.
Close ==
  /\ events
  /\ events' = FALSE
  /\ caller' = [k \in Callers |-> IF caller[k] = "waiting" THEN "failed" ELSE caller[k]]
  /\ UNCHANGED <<ask, asked, job, queue, worker, configured, sent, since>>

callerVars == <<caller, ask, asked, configured, events>>

\* complianceCheckInputSchema: a CAIP-2 network, with an EVM address where it is eip155.
Valid(q) == q \in Acceptable

\* checkAddress validates its input and its configuration before it fetches.
Sends(q) == Valid(q) /\ configured

Take(w) ==
  /\ worker[w] = None
  /\ queue # <<>>
  /\ LET j == Head(queue)
     IN  /\ worker' = [worker EXCEPT ![w] = j]
         /\ job' = [job EXCEPT ![j].state = "active", ![j].owner = w]
         /\ IF Sends(job[j].question)
              THEN /\ sent' = [sent EXCEPT ![j] = @ + 1]
                   /\ since' = [since EXCEPT ![j] = {k \in Callers : caller[k] # "idle"}]
              ELSE UNCHANGED <<sent, since>>
  /\ queue' = Tail(queue)
  /\ UNCHANGED callerVars

\* Mutant of Owns: a worker that has lost the job still ends it.
Holds(w) == worker[w] # None

\* BullMQ accepts the outcome of a job from the worker that holds its lock.
Owns(w) == worker[w] # None /\ job[worker[w]].state = "active" /\ job[worker[w]].owner = w

\* Mutant of Exhausted: one attempt too many.
OneMore(n) == n > MaxAttempts

\* BullMQ gives a job the attempts it was added with.
Exhausted(n) == n >= MaxAttempts

\* The worker is free again; what it brings back counts if the job is still its own.
Deliver(w, record) ==
  /\ job' = IF Owns(w) THEN [job EXCEPT ![worker[w]] = record] ELSE job
  /\ worker' = [worker EXCEPT ![w] = None]
  /\ UNCHANGED <<callerVars, queue, sent, since>>

Completed(r, result) == [r EXCEPT !.state = "completed", !.result = result, !.owner = None]

\* Any error is retried, the ones that no attempt can cure included.
AttemptFailed(r) ==
  [r EXCEPT !.failures = @ + 1, !.owner = None,
            !.state = IF Exhausted(r.failures + 1) THEN "failed" ELSE "delayed"]

\* Validation or configuration error: nothing was sent.
Refuse(w) ==
  /\ worker[w] # None
  /\ ~ Sends(job[worker[w]].question)
  /\ Deliver(w, AttemptFailed(job[worker[w]]))

Receive(w, outcome) ==
  /\ worker[w] # None
  /\ Sends(job[worker[w]].question)
  /\ LET r == job[worker[w]]
     IN  Deliver(w, IF outcome = None THEN AttemptFailed(r) ELSE Completed(r, outcome))

\* Mutant of Promote: nobody looks after the delayed jobs.
Forget(j) == FALSE

\* The backoff of a failed attempt is over.
Promote(j) ==
  /\ job[j].state = "delayed"
  /\ job' = [job EXCEPT ![j].state = "waiting"]
  /\ queue' = Append(queue, j)
  /\ UNCHANGED <<callerVars, worker, sent, since>>

\* The process of a worker dies; its restart takes jobs again.
Die(w) ==
  /\ worker[w] # None
  /\ worker' = [worker EXCEPT ![w] = None]
  /\ UNCHANGED <<callerVars, job, queue, sent, since>>

\* The lock of an active job is not renewed in time.
Stall(j) ==
  /\ job[j].state = "active"
  /\ IF job[j].stalls < MaxStalled
       THEN /\ job' = [job EXCEPT ![j].state = "waiting", ![j].owner = None,
                                  ![j].stalls = @ + 1]
            /\ queue' = <<j>> \o queue
       ELSE /\ job' = [job EXCEPT ![j].state = "failed", ![j].owner = None]
            /\ UNCHANGED queue
  /\ UNCHANGED <<callerVars, worker, sent, since>>

Orphaned(j) == \A w \in Workers : worker[w] # j

Answered(w) == Refuse(w) \/ \E outcome \in Outcomes : Receive(w, outcome)

Next ==
  \/ \E k \in Callers :
       \/ \E q \in Questions : Ask(k, q) \/ AskFails(k, q)
       \/ Notice(k) \/ TimesOut(k) \/ Leave(k)
  \/ \E w \in Workers : Take(w) \/ Answered(w) \/ Die(w)
  \/ \E j \in Jobs : Promote(j) \/ Stall(j)
  \/ Close

Spec == Init /\ [][Next]_vars

\* Workers take jobs and their fetch ends, by the reply or by the limits of the HTTP
\* client; delays end; a lock that nobody renews is noticed.
Fairness ==
  /\ \A w \in Workers : WF_vars(Take(w)) /\ WF_vars(Answered(w))
  /\ \A j \in Jobs : WF_vars(Promote(j)) /\ WF_vars(Orphaned(j) /\ Stall(j))

FairSpec == Spec /\ Fairness

-----------------------------------------------------------------------------
(* What a caller and the provider can rely on. *)

\* A caller is answered about what it asked, only from a job that has a result, and from a
\* request that was sent after it asked: a job is never shared with an earlier question.
AnswerIsOwn ==
  \A k \in Callers : caller[k] = "ok" =>
    /\ job[ask[k]].question = asked[k]
    /\ job[ask[k]].result \in Results
    /\ k \in since[ask[k]]

\* How far the call of a caller that waits has come: it is sent when a request about its
\* question was, after it asked.
Progress(k) ==
  LET j == ask[k]
  IN  IF job[j].state = "completed" THEN "said"
      ELSE IF k \in since[j] /\ job[j].question = asked[k] THEN "sent" ELSE "asked"

portStage == [k \in Callers |->
                IF caller[k] = "waiting" THEN Progress(k)
                ELSE IF caller[k] = "ok" THEN "told"
                ELSE IF caller[k] = "refused" THEN "failed" ELSE caller[k]]

portResult == [k \in Callers |->
                 IF caller[k] \in {"waiting", "ok"} /\ job[ask[k]].state = "completed"
                 THEN job[ask[k]].result ELSE None]

Port == INSTANCE ProviderPort WITH
  stage <- portStage, question <- asked, result <- portResult

\* The queue, its workers and their retries are one call of ComplianceProviderPort
\* (checkAddress of BullComplianceProviderAdapter): whatever is retried, handed out again,
\* answered twice or given up, a caller is asked for, told once, and keeps its answer.
ServesPort == Port!Spec

\* Retries and hand-overs together bound how often one job asks the provider.
RequestsBounded == \A j \in Jobs : sent[j] <= MaxAttempts + MaxStalled

\* What the schema or the configuration rejects is retried but never leaves the process.
RejectedNeverSent ==
  \A j \in Jobs : sent[j] > 0 => configured /\ job[j].question \in Acceptable

\* An ended job keeps its outcome, whatever a worker that has lost it brings later.
OutcomeIsFinal ==
  [][\A j \in Jobs : job[j].state \in Ended => job'[j] = job[j]]_vars

\* A waiting job stands in line once, and no other job does.
InLineOnce ==
  \A j \in Jobs :
    LET places == {i \in DOMAIN queue : queue[i] = j}
    IN  IF job[j].state = "waiting" THEN \E i \in places : places = {i} ELSE places = {}

\* Of two results the second is no better: its score is at least as high, and each signal
\* of the first has one beside it that is.
NoBetter(r, t) ==
  /\ r.score = None \/ (t.score # None /\ t.score >= r.score)
  /\ r.stolen = None \/ \A s \in r.stolen :
                           t.stolen # None /\ \E u \in t.stolen : u >= s

\* More bad news never lowers the risk, however many signals of stolen coins a result has:
\* neither a null nor a harmless score or signal hides another one.
MoreIsWorse ==
  \A i, j \in Jobs :
    LET r == job[i].result
        t == job[j].result
    IN  r # None /\ t # None /\ r.risk = "high" /\ NoBetter(r, t) => t.risk = "high"

\* A job ends, with or without its caller.
EveryJobEnds == \A j \in Jobs : job[j].state # "absent" ~> job[j].state \in Ended
=============================================================================
