------------------------ MODULE DailyWorkflowInvariant ------------------------
(***************************************************************************)
(* The inductive invariant of DailyWorkflow: who may be active, and what a *)
(* workflow may believe about the run it waits for and the job it started. *)
(***************************************************************************)
EXTENDS DailyWorkflow

\* The concurrency group admits one workflow at a time.
OneActive ==
    \A v, w \in Workflows : pc[v] \in Steps /\ pc[w] \in Steps => v = w

\* From its launch on, an active workflow's run is its own.
OwnRun ==
    \A w \in Workflows :
        /\ pc[w] \in {"upload", "launch", "wait", "fetch", "submit", "publish", "reconcile"}
               => content[w] # NoContent
        /\ pc[w] \in {"launch", "wait", "fetch", "submit", "publish", "reconcile"}
               => content[w] \in raw[month[w]]
        /\ pc[w] \in {"wait", "fetch"}
               => run[w] \in Runs /\ plan[run[w]] = <<month[w], content[w]>>
        /\ pc[w] = "fetch" => result[run[w]] = "SUCCESS"
        /\ pc[w] \in {"submit", "publish", "reconcile"} =>
               /\ handoff[w] = <<month[w], content[w]>>
               /\ content[w] \in Good

\* A run succeeds with an acceptable snapshot; only pending runs are queued.
RunsInv ==
    /\ \A r \in Runs : result[r] = "SUCCESS" => plan[r][2] \in Good
    /\ \A r \in Runs : result[r] = "pending" => plan[r] \in Item
    /\ \A i \in DOMAIN queue : result[queue[i]] = "pending"
    /\ \A i, k \in DOMAIN queue : queue[i] = queue[k] => i = k

\* At most one query job is running: that of a publisher, or of a dead one.
JobsInv ==
    \A w \in Workflows :
        /\ pc[w] \in {"head", "get", "upload", "launch", "wait", "fetch", "submit"}
               => job[w] = "none"
        /\ pc[w] = "publish" => job[w] # "none"
        /\ pc[w] = "reconcile" => job[w] = "committed"
        /\ \A v \in Workflows :
              /\ job[v] = "running" /\ job[w] = "running" => v = w
              /\ job[v] = "running" /\ pc[w] \in {"publish", "reconcile"} => v = w
        /\ job[w] = "committed" /\ pc[w] \in {"publish", "reconcile"}
               => served[month[w]] = content[w]

\* Who is active, and what each believes.
IInv == OneActive /\ OwnRun /\ RunsInv /\ JobsInv /\ PublishesWhatItLanded

\* With the types: inductive, and enough for the safety properties and the promise.
Inv == TypeOK /\ IInv
=============================================================================
