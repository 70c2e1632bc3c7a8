------------------------- MODULE DailyWorkflowProofs -------------------------
(***************************************************************************)
(* Proofs about DailyWorkflow, for any number of workflows, Databricks     *)
(* runs, months, contents, changes, dispatches and failures.               *)
(***************************************************************************)
EXTENDS DailyWorkflowInvariant, TLAPS

\* The initial values are typed.
LEMMA TypeInit == Init => TypeOK
BY WorkflowAssumption DEF Init, TypeOK, Months, Idle

\* A workflow's start keeps the types.
LEMMA TypeStart ==
    ASSUME TypeOK, NEW w \in Workflows, Start(w)
    PROVE  TypeOK'
<1> USE DEF TypeOK, StartWith, Goto, sourceVars, runVars
<1>1. CASE Scheduled(w)
  BY <1>1, WorkflowAssumption DEF Scheduled, Months, Steps
<1>2. ASSUME NEW m \in Months, NEW c \in raw[m], Dispatched(w, m, c) PROVE TypeOK'
  <2>1. c \in Contents
    OBVIOUS
  <2> QED  BY <1>2, <2>1 DEF Dispatched, Steps
<1> QED  BY <1>1, <1>2 DEF Start

\* So does launching a run,
LEMMA TypeEnqueue ==
    ASSUME TypeOK, NEW w \in Workflows, NEW r \in Runs, Enqueue(w, r),
           content[w] \in Contents
    PROVE  /\ queue' \in Seq(Runs)
           /\ result' \in [Runs -> {"none", "pending", "SUCCESS", "FAILED"}]
           /\ plan' \in [Runs -> Item \cup {NoItem}]
<1>1. <<month[w], content[w]>> \in Item
  BY DEF TypeOK, Item
<1>2. queue' \in Seq(Runs)
  BY DEF Enqueue, TypeOK
<1>3. /\ result' \in [Runs -> {"none", "pending", "SUCCESS", "FAILED"}]
      /\ plan' \in [Runs -> Item \cup {NoItem}]
  BY <1>1 DEF Enqueue, TypeOK
<1> QED  BY <1>2, <1>3

\* and every other step of a workflow that knows its snapshot and its run.
LEMMA TypeStep ==
    ASSUME TypeOK, OwnRun, NEW w \in Workflows, Step(w)
    PROVE  TypeOK'
<1> USE DEF TypeOK, Goto, sourceVars, runVars, bounds, Idle, Steps
<1>1. CASE Discover(w)
  <2>1. tlc[month[w]] = NoContent /\ ~LastCandidate(w) => month[w] - 1 \in Months
    BY WorkflowAssumption DEF LastCandidate, Months
  <2> QED  BY <1>1, <2>1 DEF Discover
<1>2. CASE Get(w)
  BY <1>2 DEF Get
<1>3. CASE Upload(w)
  <2>1. content[w] \in Contents
    BY <1>3 DEF Upload, OwnRun
  <2> QED  BY <1>3, <2>1 DEF Upload, AfterUpload
<1>4. CASE RunSeen(w)
  BY <1>4 DEF RunSeen
<1>5. CASE Fetch(w)
  BY <1>5 DEF Fetch, HandoffOf, OwnRun
<1>6. CASE Submit(w)
  BY <1>6 DEF Submit
<1>7. CASE PublishReturns(w)
  BY <1>7 DEF PublishReturns
<1>8. ASSUME NEW r \in Runs, Launch(w, r) PROVE TypeOK'
  <2>1. content[w] \in Contents
    BY <1>8 DEF Launch, Enqueue, OwnRun
  <2>2. /\ queue' \in Seq(Runs)
        /\ result' \in [Runs -> {"none", "pending", "SUCCESS", "FAILED"}]
        /\ plan' \in [Runs -> Item \cup {NoItem}]
    BY <1>8, <2>1, TypeEnqueue DEF Launch
  <2> QED  BY <1>8, <2>2 DEF Launch
<1>9. ASSUME NEW outcome \in {"green", "red"}, Reconcile(w, outcome) PROVE TypeOK'
  BY <1>9 DEF Reconcile
<1> QED  BY <1>1, <1>2, <1>3, <1>4, <1>5, <1>6, <1>7, <1>8, <1>9 DEF Step

\* The queue without its first run has the other runs, one place earlier.
LEMMA QueueTail ==
    ASSUME NEW q \in Seq(Runs), q # <<>>
    PROVE  /\ Head(q) \in Runs /\ Tail(q) \in Seq(Runs)
           /\ \A i \in DOMAIN Tail(q) : i + 1 \in DOMAIN q /\ Tail(q)[i] = q[i + 1]
           /\ 1 \in DOMAIN q /\ Head(q) = q[1]
           /\ \A i \in DOMAIN Tail(q) : i \in Nat \ {0}
OBVIOUS

\* With a run appended it has that run at the end.
LEMMA QueueAppend ==
    ASSUME NEW q \in Seq(Runs), NEW r \in Runs
    PROVE  \A i \in DOMAIN Append(q, r) :
               \/ i \in DOMAIN q /\ Append(q, r)[i] = q[i]
               \/ i = Len(q) + 1 /\ i \notin DOMAIN q /\ Append(q, r)[i] = r
OBVIOUS

\* Types are kept by the source, runs, jobs and failures too.
LEMMA TypeNext == TypeOK /\ OwnRun /\ JobsInv /\ PublishesWhatItLanded /\ [Next]_vars => TypeOK'
<1> SUFFICES ASSUME TypeOK, OwnRun, JobsInv, PublishesWhatItLanded, [Next]_vars
             PROVE  TypeOK'
  OBVIOUS
<1>1. ASSUME NEW m \in Months, NEW c \in Contents \cup {NoContent}, ChangeSource(m, c)
      PROVE  TypeOK'
  BY <1>1 DEF ChangeSource, TypeOK, runVars
<1>2. ASSUME NEW w \in Workflows, Start(w) PROVE TypeOK'
  BY <1>2, TypeStart
<1>3. ASSUME NEW w \in Workflows, Step(w) PROVE TypeOK'
  BY <1>3, TypeStep
<1>4. ASSUME NEW w \in Workflows, JobCommits(w) PROVE TypeOK'
  <2>1. handoff[w] = <<month[w], content[w]>> /\ month[w] \in Months /\ content[w] \in Contents
    BY <1>4, WorkflowAssumption DEF JobCommits, PublishesWhatItLanded, TypeOK
  <2> QED  BY <1>4, <2>1 DEF JobCommits, TypeOK, sourceVars, runVars, bounds
<1>5. ASSUME NEW w \in Workflows, Fault(w) PROVE TypeOK'
  <2>1. CASE WorkflowFails(w)
    BY <2>1 DEF WorkflowFails, TypeOK, Goto, sourceVars, runVars, Idle
  <2>2. CASE JobAborts(w)
    BY <2>2 DEF JobAborts, TypeOK, sourceVars, runVars
  <2>3. ASSUME NEW r \in Runs, LaunchLost(w, r) PROVE TypeOK'
    <3>1. content[w] \in Contents
      BY <2>3 DEF LaunchLost, Enqueue, OwnRun, TypeOK
    <3>2. /\ queue' \in Seq(Runs)
          /\ result' \in [Runs -> {"none", "pending", "SUCCESS", "FAILED"}]
          /\ plan' \in [Runs -> Item \cup {NoItem}]
      BY <2>3, <3>1, TypeEnqueue DEF LaunchLost
    <3> QED  BY <2>3, <3>2 DEF LaunchLost, TypeOK, Goto, sourceVars, Idle
  <2> QED  BY <1>5, <2>1, <2>2, <2>3 DEF Fault
<1>6. ASSUME NEW r \in Runs, NEW outcome \in {"SUCCESS", "FAILED"}, RunEnds(r, outcome),
             faults' \in Nat
      PROVE  TypeOK'
  <2>1. queue' \in Seq(Runs)
    BY <1>6, QueueTail DEF RunEnds, TypeOK
  <2> QED  BY <1>6, <2>1 DEF RunEnds, TypeOK, sourceVars
<1>7. ASSUME NEW r \in Runs, RunSucceeds(r) \/ RunFails(r) PROVE TypeOK'
  BY <1>6, <1>7 DEF RunSucceeds, RunFails, TypeOK
<1>8. CASE UNCHANGED vars
  BY <1>8 DEF vars, TypeOK
<1> QED  BY <1>1, <1>2, <1>3, <1>4, <1>5, <1>7, <1>8 DEF Next
-----------------------------------------------------------------------------
\* Nothing is active, launched or published at first.
LEMMA InvInit == Init => IInv
<1> SUFFICES ASSUME Init PROVE IInv
  OBVIOUS
<1>1. OneActive /\ OwnRun /\ JobsInv /\ PublishesWhatItLanded
  BY DEF Init, OneActive, OwnRun, JobsInv, PublishesWhatItLanded, Steps
<1>2. RunsInv
  <2>1. DOMAIN queue = {}
    BY DEF Init
  <2> QED  BY <2>1 DEF Init, RunsInv
<1> QED  BY <1>1, <1>2 DEF IInv

\* A workflow starts alone, knows no run and has no job.
LEMMA InvStart ==
    ASSUME TypeOK, IInv, NEW w \in Workflows, Start(w)
    PROVE  IInv'
<1> USE DEF TypeOK, StartWith, MayStart, Goto, sourceVars, runVars, IInv, Start, Scheduled,
            Dispatched
<1>1. /\ \A v \in Workflows : pc[v] \in Idle
      /\ UNCHANGED <<tlc, raw, queue, result, plan, served>>
      /\ \A v \in Workflows : v # w =>
            /\ pc'[v] = pc[v] /\ month'[v] = month[v] /\ content'[v] = content[v]
            /\ run'[v] = run[v] /\ handoff'[v] = handoff[v] /\ job'[v] = job[v]
      /\ job'[w] = "none"
  OBVIOUS
<1>2. \/ pc'[w] = "head"
      \/ /\ pc'[w] = "launch" /\ content'[w] \in raw[month'[w]]
         /\ content'[w] \in Contents
  BY DEF Steps
<1>3. OneActive'
  BY <1>1 DEF OneActive, Steps, Idle
<1>4. OwnRun'
  BY <1>1, <1>2, WorkflowAssumption DEF OwnRun, Idle
<1>5. RunsInv'
  BY <1>1 DEF RunsInv
<1>6. JobsInv'
  BY <1>1, <1>2 DEF JobsInv, Idle
<1>7. PublishesWhatItLanded'
  BY <1>1 DEF PublishesWhatItLanded
<1> QED  BY <1>3, <1>4, <1>5, <1>6, <1>7

\* The source may change under a workflow at any time.
LEMMA InvSource ==
    ASSUME TypeOK, IInv, NEW m \in Months, NEW c \in Contents \cup {NoContent},
           ChangeSource(m, c)
    PROVE  IInv'
<1> USE DEF ChangeSource, runVars, IInv
<1>1. OneActive' /\ OwnRun'
  BY DEF OneActive, OwnRun
<1>2. RunsInv' /\ JobsInv'
  BY DEF RunsInv, JobsInv
<1>3. PublishesWhatItLanded'
  BY DEF PublishesWhatItLanded
<1> QED  BY <1>1, <1>2, <1>3

\* Finding, downloading and landing concern the workflow's own snapshot only.
LEMMA InvLand ==
    ASSUME TypeOK, IInv, NEW w \in Workflows, Discover(w) \/ Get(w) \/ Upload(w)
    PROVE  IInv'
<1> USE DEF TypeOK, Discover, Get, Upload, AfterUpload, Goto, sourceVars, runVars, bounds, IInv
<1>1. /\ UNCHANGED <<run, handoff, queue, result, plan, job, served>>
      /\ \A v \in Workflows : v # w =>
            pc'[v] = pc[v] /\ month'[v] = month[v] /\ content'[v] = content[v]
      /\ pc[w] \in {"head", "get", "upload"}
      /\ pc'[w] \in {"head", "get", "upload", "launch", "no_data", "red"}
      /\ \A m \in Months : raw[m] \subseteq raw'[m]
  OBVIOUS
<1>2. /\ pc'[w] = "upload" => content'[w] # NoContent
      /\ pc'[w] = "launch" => content'[w] # NoContent /\ content'[w] \in raw'[month'[w]]
  BY DEF OwnRun
<1>3. job[w] = "none"
  BY <1>1 DEF JobsInv
<1>4. OneActive'
  BY <1>1 DEF OneActive, Steps
<1>5. OwnRun'
  BY <1>1, <1>2 DEF OwnRun
<1>6. RunsInv'
  BY <1>1 DEF RunsInv
<1>7. JobsInv'
  BY <1>1, <1>3 DEF JobsInv
<1>8. PublishesWhatItLanded'
  BY <1>1, <1>3 DEF PublishesWhatItLanded
<1> QED  BY <1>4, <1>5, <1>6, <1>7, <1>8

\* A launch takes a run nobody waits for.
LEMMA InvEnqueue ==
    ASSUME TypeOK, IInv, NEW w \in Workflows, NEW r \in Runs, Launch(w, r) \/ LaunchLost(w, r)
    PROVE  IInv'
<1> USE DEF TypeOK, Goto, sourceVars, bounds, IInv, Launch, LaunchLost, Enqueue
<1>1. /\ UNCHANGED <<tlc, raw, month, content, handoff, job, served>>
      /\ \A v \in Workflows : v # w => pc'[v] = pc[v] /\ run'[v] = run[v]
      /\ pc[w] = "launch" /\ pc'[w] \in {"wait", "red"}
      /\ pc'[w] = "wait" => run'[w] = r
      /\ queue' = Append(queue, r) /\ result'[r] = "pending"
      /\ plan'[r] = <<month[w], content[w]>>
      /\ \A q \in Runs : q # r => result'[q] = result[q] /\ plan'[q] = plan[q]
      /\ result[r] # "pending"
  BY DEF Forgotten
<1>2. /\ content[w] # NoContent /\ content[w] \in raw[month[w]] /\ job[w] = "none"
      /\ plan'[r] \in Item
  BY <1>1 DEF OwnRun, JobsInv, Item
<1>3. \A v \in Workflows : v # w => pc[v] \notin Steps
  BY <1>1 DEF OneActive, Steps
<1>4. OneActive'
  BY <1>1 DEF OneActive, Steps
<1>5. OwnRun'
  <2> SUFFICES ASSUME NEW v \in Workflows
               PROVE  /\ pc'[v] \in {"upload", "launch", "wait", "fetch", "submit", "publish",
                                     "reconcile"} => content[v] # NoContent
                      /\ pc'[v] \in {"launch", "wait", "fetch", "submit", "publish",
                                     "reconcile"} => content[v] \in raw[month[v]]
                      /\ pc'[v] \in {"wait", "fetch"} =>
                             run'[v] \in Runs /\ plan'[run'[v]] = <<month[v], content[v]>>
                      /\ pc'[v] = "fetch" => result'[run'[v]] = "SUCCESS"
                      /\ pc'[v] \in {"submit", "publish", "reconcile"} =>
                             /\ handoff[v] = <<month[v], content[v]>>
                             /\ content[v] \in Good
    BY <1>1 DEF OwnRun
  <2>1. CASE v = w
    BY <2>1, <1>1, <1>2
  <2>2. CASE v # w
    BY <2>2, <1>1, <1>3 DEF Steps
  <2> QED  BY <2>1, <2>2
<1>6. RunsInv'
  <2>1. \A i \in DOMAIN queue' :
           \/ i \in DOMAIN queue /\ queue'[i] = queue[i]
           \/ i = Len(queue) + 1 /\ i \notin DOMAIN queue /\ queue'[i] = r
    BY <1>1, QueueAppend
  <2>2. \A i \in DOMAIN queue : queue[i] \in Runs /\ result[queue[i]] = "pending"
    BY DEF RunsInv
  <2>3. \A i \in DOMAIN queue' : result'[queue'[i]] = "pending"
    BY <1>1, <2>1, <2>2
  <2>4. \A i, k \in DOMAIN queue' : queue'[i] = queue'[k] => i = k
    BY <1>1, <2>1, <2>2 DEF RunsInv
  <2>5. \A q \in Runs : /\ result'[q] = "SUCCESS" => plan'[q][2] \in Good
                        /\ result'[q] = "pending" => plan'[q] \in Item
    BY <1>1, <1>2 DEF RunsInv
  <2> QED  BY <2>3, <2>4, <2>5 DEF RunsInv, Item
<1>7. JobsInv'
  BY <1>1, <1>2 DEF JobsInv
<1>8. PublishesWhatItLanded'
  BY <1>1 DEF PublishesWhatItLanded
<1> QED  BY <1>4, <1>5, <1>6, <1>7, <1>8

\* A run that ends is the first of the queue, so no workflow has seen it end.
LEMMA InvRunEnds ==
    ASSUME TypeOK, IInv, NEW r \in Runs, NEW outcome \in {"SUCCESS", "FAILED"},
           RunEnds(r, outcome), outcome = "SUCCESS" => plan[r][2] \in Good
    PROVE  IInv'
<1> USE DEF RunEnds, sourceVars, IInv, TypeOK
<1>1. /\ queue # <<>> /\ r = Head(queue) /\ queue' = Tail(queue)
      /\ result'[r] = outcome /\ \A q \in Runs : q # r => result'[q] = result[q]
      /\ UNCHANGED <<tlc, raw, pc, month, content, run, handoff, plan, job, served>>
  OBVIOUS
<1>2. result[r] = "pending" /\ r = queue[1] /\ 1 \in DOMAIN queue
  BY <1>1, QueueTail DEF RunsInv
<1>3. OneActive' /\ JobsInv' /\ PublishesWhatItLanded'
  BY <1>1 DEF OneActive, JobsInv, PublishesWhatItLanded
<1>4. OwnRun'
  BY <1>1, <1>2 DEF OwnRun
<1>5. RunsInv'
  <2>1. \A i \in DOMAIN queue' : /\ i \in Nat \ {0}
                                 /\ i + 1 \in DOMAIN queue /\ queue'[i] = queue[i + 1]
    BY <1>1, QueueTail
  <2>2. \A i \in DOMAIN queue' : queue'[i] \in Runs /\ queue'[i] # r
    BY <1>2, <2>1 DEF RunsInv
  <2>3. \A i \in DOMAIN queue' : result'[queue'[i]] = "pending"
    BY <1>1, <2>1, <2>2 DEF RunsInv
  <2>4. \A i, k \in DOMAIN queue' : queue'[i] = queue'[k] => i = k
    <3> SUFFICES ASSUME NEW i \in DOMAIN queue', NEW k \in DOMAIN queue',
                        queue'[i] = queue'[k]
                 PROVE  i = k
      OBVIOUS
    <3>1. i + 1 = k + 1
      BY <2>1 DEF RunsInv
    <3> QED  BY <2>1, <3>1
  <2>5. \A q \in Runs : /\ result'[q] = "SUCCESS" => plan[q][2] \in Good
                        /\ result'[q] = "pending" => plan[q] \in Item
    BY <1>1 DEF RunsInv
  <2> QED  BY <1>1, <2>3, <2>4, <2>5 DEF RunsInv, Item
<1> QED  BY <1>3, <1>4, <1>5

\* What a workflow sees and fetches is about its own run.
LEMMA InvFetch ==
    ASSUME TypeOK, IInv, NEW w \in Workflows, RunSeen(w) \/ Fetch(w)
    PROVE  IInv'
<1> USE DEF TypeOK, RunSeen, Fetch, HandoffOf, Goto, sourceVars, runVars, bounds, IInv
<1>1. /\ UNCHANGED <<tlc, raw, month, content, run, queue, result, plan, job, served>>
      /\ \A v \in Workflows : v # w => pc'[v] = pc[v] /\ handoff'[v] = handoff[v]
      /\ pc[w] \in {"wait", "fetch"} /\ pc'[w] \in {"fetch", "submit", "red"}
      /\ pc'[w] = "fetch" => result[run[w]] = "SUCCESS"
      /\ pc'[w] = "submit" => pc[w] = "fetch" /\ handoff'[w] = plan[run[w]]
  OBVIOUS
<1>2. /\ content[w] # NoContent /\ content[w] \in raw[month[w]] /\ job[w] = "none"
      /\ run[w] \in Runs /\ plan[run[w]] = <<month[w], content[w]>>
      /\ pc[w] = "fetch" => result[run[w]] = "SUCCESS"
  BY <1>1 DEF OwnRun, JobsInv
<1>3. pc'[w] = "submit" => content[w] \in Good
  BY <1>1, <1>2 DEF RunsInv
<1>4. OneActive'
  BY <1>1 DEF OneActive, Steps
<1>5. OwnRun'
  BY <1>1, <1>2, <1>3 DEF OwnRun
<1>6. RunsInv'
  BY <1>1 DEF RunsInv
<1>7. JobsInv'
  BY <1>1, <1>2 DEF JobsInv
<1>8. PublishesWhatItLanded'
  BY <1>1, <1>2 DEF PublishesWhatItLanded
<1> QED  BY <1>4, <1>5, <1>6, <1>7, <1>8

\* A publication starts when no other one is under way.
LEMMA InvSubmit ==
    ASSUME TypeOK, IInv, NEW w \in Workflows, Submit(w)
    PROVE  IInv'
<1> USE DEF TypeOK, Submit, Goto, sourceVars, runVars, bounds, IInv
<1>1. /\ UNCHANGED <<tlc, raw, month, content, run, handoff, queue, result, plan, served>>
      /\ \A v \in Workflows : v # w => pc'[v] = pc[v] /\ job'[v] = job[v] /\ job[v] # "running"
      /\ pc[w] = "submit" /\ pc'[w] = "publish" /\ job'[w] = "running"
  OBVIOUS
<1>2. /\ content[w] # NoContent /\ content[w] \in raw[month[w]] /\ content[w] \in Good
      /\ handoff[w] = <<month[w], content[w]>>
  BY <1>1 DEF OwnRun
<1>3. \A v \in Workflows : v # w => pc[v] \notin Steps
  BY <1>1 DEF OneActive, Steps
<1>4. OneActive'
  BY <1>1 DEF OneActive, Steps
<1>5. OwnRun'
  BY <1>1, <1>2 DEF OwnRun
<1>6. RunsInv'
  BY <1>1 DEF RunsInv
<1>7. JobsInv'
  BY <1>1, <1>3 DEF JobsInv, Steps
<1>8. PublishesWhatItLanded'
  BY <1>1, <1>2 DEF PublishesWhatItLanded
<1> QED  BY <1>4, <1>5, <1>6, <1>7, <1>8

\* The only running job commits; a publisher still there is its owner.
LEMMA InvJobEnds ==
    ASSUME TypeOK, IInv, NEW w \in Workflows, JobCommits(w) \/ JobAborts(w)
    PROVE  IInv'
<1> USE DEF TypeOK, JobCommits, JobAborts, sourceVars, runVars, bounds, IInv
<1>1. /\ UNCHANGED <<tlc, raw, pc, month, content, run, handoff, queue, result, plan>>
      /\ \A v \in Workflows : v # w => job'[v] = job[v]
      /\ job[w] = "running" /\ job'[w] \in {"committed", "aborted"}
      /\ job'[w] = "committed" => served' = [served EXCEPT ![handoff[w][1]] = handoff[w][2]]
  OBVIOUS
<1>2. /\ handoff[w] = <<month[w], content[w]>>
      /\ \A v \in Workflows : pc[v] \in {"publish", "reconcile"} => v = w
      /\ pc[w] # "reconcile"
  BY <1>1 DEF PublishesWhatItLanded, JobsInv
<1>3. job'[w] = "committed" => served'[month[w]] = content[w]
  BY <1>1, <1>2
<1>4. OneActive' /\ OwnRun' /\ RunsInv'
  BY <1>1 DEF OneActive, OwnRun, RunsInv
<1>5. JobsInv'
  BY <1>1, <1>2, <1>3 DEF JobsInv
<1>6. PublishesWhatItLanded'
  BY <1>1 DEF PublishesWhatItLanded
<1> QED  BY <1>4, <1>5, <1>6

\* A workflow that ends, or goes from its job to the reconciliation.
LEMMA InvEnds ==
    ASSUME TypeOK, IInv, NEW w \in Workflows,
           \/ PublishReturns(w) \/ WorkflowFails(w)
           \/ \E outcome \in {"green", "red"} : Reconcile(w, outcome)
    PROVE  IInv'
<1> USE DEF TypeOK, PublishReturns, WorkflowFails, Reconcile, Goto, sourceVars, runVars, bounds,
            IInv
<1>1. /\ UNCHANGED <<tlc, raw, month, content, run, handoff, queue, result, plan, job, served>>
      /\ \A v \in Workflows : v # w => pc'[v] = pc[v]
      /\ pc[w] \in Steps
      /\ \/ pc'[w] \in {"green", "red"}
         \/ pc[w] = "publish" /\ pc'[w] = "reconcile" /\ job[w] = "committed"
  BY DEF Steps
<1>2. OneActive'
  BY <1>1 DEF OneActive, Steps
<1>3. OwnRun'
  BY <1>1 DEF OwnRun
<1>4. RunsInv'
  BY <1>1 DEF RunsInv
<1>5. JobsInv'
  BY <1>1 DEF JobsInv
<1>6. PublishesWhatItLanded'
  BY <1>1 DEF PublishesWhatItLanded
<1> QED  BY <1>2, <1>3, <1>4, <1>5, <1>6

\* Every step keeps the invariant.
LEMMA InvNext == TypeOK /\ IInv /\ [Next]_vars => IInv'
<1> SUFFICES ASSUME TypeOK, IInv, [Next]_vars PROVE IInv'
  OBVIOUS
<1>1. ASSUME NEW m \in Months, NEW c \in Contents \cup {NoContent}, ChangeSource(m, c)
      PROVE  IInv'
  BY <1>1, InvSource
<1>2. ASSUME NEW w \in Workflows, Start(w) PROVE IInv'
  BY <1>2, InvStart
<1>3. ASSUME NEW w \in Workflows, Step(w) PROVE IInv'
  <2>1. CASE Discover(w) \/ Get(w) \/ Upload(w)
    BY <2>1, InvLand
  <2>2. CASE RunSeen(w) \/ Fetch(w)
    BY <2>2, InvFetch
  <2>3. CASE Submit(w)
    BY <2>3, InvSubmit
  <2>4. CASE PublishReturns(w) \/ \E outcome \in {"green", "red"} : Reconcile(w, outcome)
    BY <2>4, InvEnds
  <2>5. ASSUME NEW r \in Runs, Launch(w, r) PROVE IInv'
    BY <2>5, InvEnqueue
  <2> QED  BY <1>3, <2>1, <2>2, <2>3, <2>4, <2>5 DEF Step
<1>4. ASSUME NEW w \in Workflows, JobCommits(w) \/ JobAborts(w) PROVE IInv'
  BY <1>4, InvJobEnds
<1>5. ASSUME NEW w \in Workflows, Fault(w) PROVE IInv'
  <2>1. ASSUME NEW r \in Runs, LaunchLost(w, r) PROVE IInv'
    BY <2>1, InvEnqueue
  <2>2. CASE WorkflowFails(w)
    BY <2>2, InvEnds
  <2> QED  BY <1>4, <1>5, <2>1, <2>2 DEF Fault
<1>6. ASSUME NEW r \in Runs, RunSucceeds(r) PROVE IInv'
  BY <1>6, InvRunEnds DEF RunSucceeds
<1>7. ASSUME NEW r \in Runs, RunFails(r) PROVE IInv'
  BY <1>7, InvRunEnds DEF RunFails
<1>8. CASE UNCHANGED vars
  BY <1>8 DEF vars, IInv, OneActive, OwnRun, RunsInv, JobsInv, PublishesWhatItLanded
<1> QED  BY <1>1, <1>2, <1>3, <1>4, <1>5, <1>6, <1>7, <1>8 DEF Next

\* Types and invariant hold together.
THEOREM WorkflowInvariant == Spec => []Inv
<1>1. Init => Inv
  BY TypeInit, InvInit DEF Inv
<1>2. Inv /\ [Next]_vars => Inv'
  BY TypeNext, InvNext DEF Inv, IInv
<1> QED  BY <1>1, <1>2, PTL DEF Spec

\* Artifacts, queue, runs, jobs and served months are well typed, whoever failed.
THEOREM WorkflowTyped == Spec => []TypeOK
<1>1. Inv => TypeOK
  BY DEF Inv
<1> QED  BY <1>1, WorkflowInvariant, PTL

\* A workflow publishes the very snapshot it landed.
THEOREM OwnPublication == Spec => []PublishesWhatItLanded
<1>1. Inv => PublishesWhatItLanded
  BY DEF Inv, IInv
<1> QED  BY <1>1, WorkflowInvariant, PTL

\* A workflow compares the rows of its own publication.
THEOREM OwnReconciliation == Spec => []ReconcilesItsOwn
<1>1. Inv => ReconcilesItsOwn
  BY DEF Inv, IInv, JobsInv, ReconcilesItsOwn
<1> QED  BY <1>1, WorkflowInvariant, PTL

-----------------------------------------------------------------------------
\* What is under reconciliation is the one publication of the one workflow that
\* reconciles.
LEMMA ExaminedIs ==
    /\ Examined = {} <=> \A w \in Workflows : pc[w] # "reconcile"
    /\ OneActive => \A w \in Workflows : pc[w] = "reconcile" =>
           Examined = {<<month[w], content[w]>>}
<1>1. Examined = {} <=> \A w \in Workflows : pc[w] # "reconcile"
  BY DEF Examined
<1>2. ASSUME OneActive, NEW w \in Workflows, pc[w] = "reconcile"
      PROVE  Examined = {<<month[w], content[w]>>}
  <2>1. \A v \in Workflows : pc[v] = "reconcile" <=> v = w
    BY <1>2 DEF OneActive, Steps
  <2> QED  BY <2>1 DEF Examined
<1> QED  BY <1>1, <1>2

\* Nothing is seen of a step that lands and publishes nothing and keeps everyone
\* out of the reconciliation.
LEMMA PromiseStutters ==
    ASSUME UNCHANGED <<raw, served>>,
           \A w \in Workflows : pc[w] # "reconcile" /\ pc'[w] # "reconcile"
    PROVE  UNCHANGED <<raw, served, Examined>>
BY DEF Examined

\* A query job serves an acceptable snapshot of the bucket, while nobody
\* reconciles: it is of the active workflow, or of a dead one that nobody
\* has published after.
LEMMA CommitServes ==
    ASSUME TypeOK, IInv, NEW w \in Workflows, JobCommits(w)
    PROVE  Promise!Next
<1>1. /\ job[w] = "running" /\ UNCHANGED <<raw, pc, month, content>>
      /\ served' = [served EXCEPT ![handoff[w][1]] = handoff[w][2]]
  BY DEF JobCommits, sourceVars
<1>2. /\ handoff[w] = <<month[w], content[w]>> /\ content[w] \in raw[month[w]] \cap Good
      /\ month[w] \in Months /\ content[w] \in Contents
  BY <1>1, WorkflowAssumption DEF IInv, PublishesWhatItLanded, TypeOK
<1>3. \A v \in Workflows : pc[v] # "reconcile"
  BY <1>1 DEF IInv, JobsInv
<1>4. Examined = {} /\ Examined' = Examined
  BY <1>1, <1>3, ExaminedIs DEF Examined
<1>5. Promise!Serve(month[w], content[w])
  BY <1>1, <1>2, <1>4 DEF Promise!Serve
<1> QED  BY <1>2, <1>5 DEF Promise!Next

\* A workflow's own steps store, examine and report.
LEMMA WorkflowKeepsPromise ==
    ASSUME TypeOK, IInv, NEW w \in Workflows, Step(w) \/ WorkflowFails(w)
    PROVE  Promise!Next \/ UNCHANGED <<raw, served, Examined>>
<1>1. pc[w] \in Steps /\ \A v \in Workflows : v # w => pc[v] \notin Steps /\ pc'[v] = pc[v]
  BY DEF Step, WorkflowFails, Discover, Get, Upload, RunSeen, Fetch, Submit, PublishReturns,
         Launch, Enqueue, Reconcile, Goto, Steps, TypeOK, IInv, OneActive
<1>2. \A v \in Workflows : v # w => pc[v] # "reconcile" /\ pc'[v] # "reconcile"
  BY <1>1 DEF Steps
<1>3. CASE Discover(w) \/ Get(w) \/ RunSeen(w) \/ Fetch(w) \/ Submit(w)
           \/ \E r \in Runs : Launch(w, r)
  <2>1. UNCHANGED <<raw, served>> /\ pc[w] # "reconcile" /\ pc'[w] # "reconcile"
    BY <1>3 DEF Discover, Get, RunSeen, Fetch, Submit, Launch, Enqueue, Goto, TypeOK,
                sourceVars
  <2> QED  BY <1>2, <2>1, PromiseStutters
<1>4. CASE Upload(w)
  <2>1. /\ raw' = [raw EXCEPT ![month[w]] = @ \cup {content[w]}] /\ UNCHANGED served
        /\ pc[w] = "upload" /\ pc'[w] = "launch"
    BY <1>4 DEF Upload, AfterUpload, Goto, TypeOK
  <2>2. Examined = {} /\ Examined' = {}
    BY <1>2, <2>1, ExaminedIs DEF Examined
  <2>3. month[w] \in Months /\ content[w] \in Contents
    BY <2>1 DEF TypeOK, IInv, OwnRun
  <2>4. Promise!Store(month[w], content[w])
    BY <2>1, <2>2 DEF Promise!Store
  <2> QED  BY <2>3, <2>4 DEF Promise!Next
<1>5. CASE PublishReturns(w) /\ job[w] = "committed"
  <2>1. /\ UNCHANGED <<raw, served, month, content>>
        /\ pc[w] = "publish" /\ pc'[w] = "reconcile"
    BY <1>5 DEF PublishReturns, Goto, TypeOK, sourceVars
  <2>2. Examined = {} /\ Examined' = {<<month[w], content[w]>>}
    <3>1. Examined = {}
      BY <1>2, <2>1, ExaminedIs
    <3>2. {v \in Workflows : pc'[v] = "reconcile"} = {w}
      BY <1>2, <2>1
    <3> QED  BY <2>1, <3>1, <3>2 DEF Examined
  <2>3. /\ month[w] \in Months /\ content[w] \in Contents
        /\ served[month[w]] = content[w]
    BY <1>5, <2>1, WorkflowAssumption DEF TypeOK, IInv, JobsInv, PublishesWhatItLanded
  <2>4. Promise!Examine(month[w], content[w])
    BY <2>1, <2>2, <2>3 DEF Promise!Examine
  <2> QED  BY <2>3, <2>4 DEF Promise!Next
<1>6. CASE PublishReturns(w) /\ job[w] # "committed"
  <2>1. UNCHANGED <<raw, served>> /\ pc[w] # "reconcile" /\ pc'[w] # "reconcile"
    BY <1>6 DEF PublishReturns, Goto, TypeOK, sourceVars
  <2> QED  BY <1>2, <2>1, PromiseStutters
<1>7. CASE WorkflowFails(w) \/ \E outcome \in {"green", "red"} : Reconcile(w, outcome)
  <2>1. UNCHANGED <<raw, served>> /\ pc'[w] # "reconcile"
    BY <1>7 DEF WorkflowFails, Reconcile, Goto, TypeOK, sourceVars
  <2>2. CASE pc[w] = "reconcile"
    <3>1. Examined # {} /\ Examined' = {}
      BY <1>2, <2>1, <2>2, ExaminedIs DEF Examined
    <3> QED  BY <2>1, <3>1 DEF Promise!Report, Promise!Next
  <2>3. CASE pc[w] # "reconcile"
    BY <1>2, <2>1, <2>3, PromiseStutters
  <2> QED  BY <2>2, <2>3
<1> QED  BY <1>3, <1>4, <1>5, <1>6, <1>7 DEF Step

\* The workflows, with the runs and jobs they leave behind, keep their promise to
\* the readers of the tables.
THEOREM WorkflowsKeepThePromise == Spec => ServedSpec
<1>1. Init => Promise!Init
  BY DEF Init, Promise!Init, Examined
<1>2. Inv /\ [Next]_vars => [Promise!Next]_<<raw, served, Examined>>
  <2> SUFFICES ASSUME TypeOK, IInv, [Next]_vars
               PROVE  Promise!Next \/ UNCHANGED <<raw, served, Examined>>
    BY DEF Inv
  <2>1. ASSUME NEW m \in Months, NEW c \in Contents \cup {NoContent}, ChangeSource(m, c)
        PROVE  UNCHANGED <<raw, served, Examined>>
    BY <2>1 DEF ChangeSource, Examined
  <2>2. ASSUME NEW w \in Workflows, Start(w)
        PROVE  UNCHANGED <<raw, served, Examined>>
    <3>1. \A v \in Workflows : pc[v] \in Idle
      BY <2>2 DEF Start, Scheduled, Dispatched, StartWith, MayStart
    <3>2. /\ UNCHANGED <<raw, served>>
          /\ \A v \in Workflows : pc'[v] = pc[v] \/ pc'[v] \in {"head", "launch"}
      BY <2>2 DEF Start, Scheduled, Dispatched, StartWith, Goto, TypeOK, sourceVars
    <3>3. \A v \in Workflows : pc[v] # "reconcile" /\ pc'[v] # "reconcile"
      BY <3>1, <3>2 DEF Idle
    <3> QED  BY <3>2, <3>3, PromiseStutters
  <2>3. ASSUME NEW w \in Workflows, Step(w) \/ WorkflowFails(w)
        PROVE  Promise!Next \/ UNCHANGED <<raw, served, Examined>>
    BY <2>3, WorkflowKeepsPromise
  <2>4. ASSUME NEW w \in Workflows, JobCommits(w) PROVE Promise!Next
    BY <2>4, CommitServes
  <2>5. ASSUME NEW w \in Workflows, JobAborts(w)
        PROVE  UNCHANGED <<raw, served, Examined>>
    BY <2>5 DEF JobAborts, Examined, sourceVars
  <2>6. ASSUME NEW w \in Workflows, NEW r \in Runs, LaunchLost(w, r)
        PROVE  UNCHANGED <<raw, served, Examined>>
    <3>1. /\ pc[w] = "launch" /\ UNCHANGED <<raw, served, month, content>>
          /\ pc' = [pc EXCEPT ![w] = "red"]
      BY <2>6 DEF LaunchLost, Enqueue, Goto, sourceVars
    <3>2. {v \in Workflows : pc'[v] = "reconcile"} = {v \in Workflows : pc[v] = "reconcile"}
      BY <3>1 DEF TypeOK
    <3> QED  BY <3>1, <3>2 DEF Examined
  <2>7. ASSUME NEW r \in Runs, RunSucceeds(r) \/ RunFails(r)
        PROVE  UNCHANGED <<raw, served, Examined>>
    BY <2>7 DEF RunSucceeds, RunFails, RunEnds, Examined, sourceVars
  <2>8. CASE UNCHANGED vars
    BY <2>8 DEF vars, Examined
  <2> QED  BY <2>1, <2>2, <2>3, <2>4, <2>5, <2>6, <2>7, <2>8 DEF Next, Fault
<1> QED  BY <1>1, <1>2, WorkflowInvariant, PTL DEF Spec, ServedSpec, Promise!Spec
=============================================================================
