----------------------------- MODULE PagedIngest -----------------------------
(***************************************************************************)
(* The paged source API: ingest_snapshot (src/ingestion/api_client.py)     *)
(* reads one snapshot page by page, retries timeouts, hands each page once *)
(* to its on_page callback and keeps the first delivery of each event. The *)
(* source is the deterministic client of api_simulator.py. Several calls   *)
(* ingest the same snapshot: replays, and repetitions of calls that died.  *)
(*                                                                         *)
(* The callback is the caller's; its docstring asks for it to make the     *)
(* page durable before the page is acknowledged. Here it lands the page as *)
(* an immutable object of the raw bucket (RawLanding).                     *)
(***************************************************************************)
EXTENDS RawLanding, Integers, Sequences, SequencesExt

CONSTANTS Calls,        \* calls of ingest_snapshot: the uploaders of this module
          Clients,      \* the clients a call may be given, with its max_retries
          PageSize,
          NoId,         \* the id of an event without event_id
          MaxDeaths     \* bound on processes that die

VARIABLES call,     \* call[p]: the local variables of a call
          recorded, \* recorded[p]: the pages handed to the callback, in order
          deaths

pageVars == <<call, recorded, deaths>>
vars == <<rawVars, pageVars>>

-----------------------------------------------------------------------------
(***************************************************************************)
(* SimulatedApiClient. events: a sequence of [id, value]. repeats: pages   *)
(* that, the first time, name themselves as the next one. The simulator    *)
(* knows such pages (duplicate_page_numbers) but delivers them twice in    *)
(* iter_pages only; a PageClient may do so in fetch_page.                  *)
(***************************************************************************)
PageCount(c) == (Len(c.events) + PageSize - 1) \div PageSize

PageEvents(c, k) ==
    LET first == (k - 1) * PageSize + 1
        last == k * PageSize
        slice == SubSeq(c.events, first, IF last < Len(c.events) THEN last ELSE Len(c.events))
    IN  IF c.outOfOrder /\ k % 2 = 0 THEN Reverse(slice) ELSE slice

\* Everything iter_pages yields, page after page.
IterEvents(c) ==
    FlattenSeq([k \in 1..PageCount(c) |->
                   IF k \in c.repeats THEN PageEvents(c, k) \o PageEvents(c, k)
                   ELSE PageEvents(c, k)])

Ids(events) == {events[i].id : i \in DOMAIN events}

FirstOf(events, id) ==
    events[CHOOSE i \in DOMAIN events :
               /\ events[i].id = id
               /\ \A j \in 1..(i - 1) : events[j].id # id]

\* Mutant: a page overwrites what earlier pages had.
Bug_Merge(got, events) ==
    [id \in DOMAIN got \cup Ids(events) |->
        IF id \in Ids(events) THEN FirstOf(events, id) ELSE got[id]]

\* dict.setdefault: the first event of an id stays.
Merge(got, events) ==
    [id \in DOMAIN got \cup Ids(events) |->
        IF id \in DOMAIN got THEN got[id] ELSE FirstOf(events, id)]

Nothing == [id \in {} |-> NoId]

\* The simulator's own reference for what a consumer should end up with.
CollectUniqueEvents(events) == [id \in Ids(events) |-> FirstOf(events, id)]

PageUri(k) == <<k, "page">>

-----------------------------------------------------------------------------
Step == {"idle", "fetching", "recording", "taking", "returned", "failed", "dead"}

\* Mutant: the pages are counted from 0.
Bug_NewCall(c) ==
    [step |-> "fetching", client |-> c, page |-> 0, attempts |-> 0,
     timedOut |-> {}, repeated |-> {}, completed |-> {}, got |-> Nothing]

\* page: the cursor. timedOut, repeated: what the client remembers. completed:
\* completed_pages. got: events.
NewCall(c) ==
    [step |-> "fetching", client |-> c, page |-> 1, attempts |-> 0,
     timedOut |-> {}, repeated |-> {}, completed |-> {}, got |-> Nothing]

NoCall == [step |-> "idle"]

\* A page number and the cursor it was asked for, None being 0.
Key == (Nat \ {0}) \X Nat

Pages == UNION {{PageEvents(c, k) : k \in 1..PageCount(c)} : c \in Clients}

Results == UNION {[ids -> UNION {Range(events) : events \in Pages}] :
                      ids \in SUBSET UNION {Ids(events) : events \in Pages}}

Call == [step : Step \ {"idle"}, client : Clients, page : Nat \ {0}, attempts : Nat,
         timedOut : SUBSET Nat, repeated : SUBSET Nat, completed : SUBSET Key,
         got : Results]

\* Each page of a client has an object of its own in the bucket, and the
\* checksum of what the page holds.
ASSUME PageAssumption ==
    /\ PageSize \in Nat \ {0}
    /\ MaxDeaths \in Nat
    /\ Calls \subseteq Uploaders
    /\ \A c \in Clients :
           /\ c.events \in Seq(Range(c.events))
           /\ c.limit \in Nat
           /\ \A k \in 1..PageCount(c) :
                  PageUri(k) \in Uris /\ PageEvents(c, k) \in Sums

TypeOK ==
    /\ RawTypeOK
    /\ call \in [Calls -> {NoCall} \cup Call]
    /\ recorded \in [Calls -> Seq(Key)]
    /\ deaths \in 0..MaxDeaths

Init ==
    /\ RawInit
    /\ call = [p \in Calls |-> NoCall]
    /\ recorded = [p \in Calls |-> <<>>]
    /\ deaths = 0

At(p, step) == call[p].step = step
Goto(p, step) == call' = [call EXCEPT ![p].step = step]

Running(p) == call[p].step \in {"fetching", "recording", "taking"}

\* A process that died starts the snapshot again, with nothing remembered.
Begin(p) ==
    /\ call[p].step \in {"idle", "dead"}
    /\ \E c \in Clients : call' = [call EXCEPT ![p] = NewCall(c)]
    /\ recorded' = [recorded EXCEPT ![p] = <<>>]
    /\ UNCHANGED <<rawVars, deaths>>

\* SimulatedTimeout, once for each configured page; retried or given up.
TimesOut(p) ==
    LET me == call[p]
        attempts == me.attempts + 1
    IN  /\ At(p, "fetching")
        /\ me.page \in me.client.timeouts \ me.timedOut
        /\ call' = [call EXCEPT ![p].attempts = attempts,
                                ![p].timedOut = me.timedOut \cup {me.page},
                                ![p].step = IF attempts > me.client.limit THEN "failed"
                                            ELSE "fetching"]
        /\ UNCHANGED <<rawVars, recorded, deaths>>

\* The client names the first page as the next one by another cursor than None.
PageKey(p) ==
    <<call[p].page,
      IF call[p].page = 1 /\ 1 \notin call[p].repeated THEN 0 ELSE call[p].page>>

Answers(p) ==
    /\ At(p, "fetching")
    /\ call[p].page \notin call[p].client.timeouts \ call[p].timedOut

\* An empty snapshot has no first page.
BeyondSnapshot(p) ==
    /\ Answers(p)
    /\ PageEvents(call[p].client, call[p].page) = <<>>
    /\ Goto(p, "failed")
    /\ UNCHANGED <<rawVars, recorded, deaths>>

\* Mutant: completed_pages is not consulted.
Bug_NewPage(p) == TRUE

NewPage(p) == PageKey(p) \notin call[p].completed

\* A page of a new key goes to the callback, which lands it.
Receive(p) ==
    /\ Answers(p)
    /\ PageEvents(call[p].client, call[p].page) # <<>>
    /\ NewPage(p)
    /\ Goto(p, "recording")
    /\ BeginUpload(p, PageUri(call[p].page), PageEvents(call[p].client, call[p].page))
    /\ recorded' = [recorded EXCEPT ![p] = Append(@, PageKey(p))]
    /\ UNCHANGED deaths

\* Mutant: a page that is known is skipped, and its cursor with it.
Bug_AfterRepeat == "fetching"

AfterRepeat == "taking"

\* A page that is known is merged again and its cursor followed.
ReceiveAgain(p) ==
    /\ Answers(p)
    /\ ~NewPage(p)
    /\ Goto(p, AfterRepeat)
    /\ UNCHANGED <<rawVars, recorded, deaths>>

\* The callback returns, or raises.
CallbackEnds(p) ==
    /\ At(p, "recording")
    /\ \/ /\ upload[p] = "landed"
          /\ call' = [call EXCEPT ![p].completed = @ \cup {PageKey(p)},
                                  ![p].step = "taking"]
       \/ /\ upload[p] \in {"conflict", "failed"}
          /\ Goto(p, "failed")
    /\ Release(p)
    /\ UNCHANGED <<recorded, deaths>>

\* The events of the page, then the next cursor.
Take(p) ==
    LET me == call[p]
        events == PageEvents(me.client, me.page)
        again == me.page \in me.client.repeats \ me.repeated
    IN  /\ At(p, "taking")
        /\ \/ /\ NoId \in Ids(events)
              /\ Goto(p, "failed")
           \/ /\ NoId \notin Ids(events)
              /\ call' = [call EXCEPT
                    ![p].got = Merge(me.got, events),
                    ![p].attempts = 0,
                    ![p].repeated = IF again THEN @ \cup {me.page} ELSE @,
                    ![p].page = IF again \/ me.page = PageCount(me.client) THEN @ ELSE @ + 1,
                    ![p].step = IF again \/ me.page < PageCount(me.client) THEN "fetching"
                                ELSE "returned"]
        /\ UNCHANGED <<rawVars, recorded, deaths>>

Dies(p) ==
    /\ Running(p)
    /\ deaths < MaxDeaths
    /\ deaths' = deaths + 1
    /\ Goto(p, "dead")
    /\ Release(p)
    /\ UNCHANGED recorded

CallStep(p) ==
    \/ TimesOut(p) \/ BeyondSnapshot(p) \/ Receive(p) \/ ReceiveAgain(p)
    \/ CallbackEnds(p) \/ Take(p)
    \/ UploadStep(p) /\ UNCHANGED pageVars

Next == \E p \in Calls : Begin(p) \/ CallStep(p) \/ Dies(p)

Spec == Init /\ [][Next]_vars

\* A running process goes on; the storage client's requests end.
FairSpec == Spec /\ \A p \in Calls : WF_vars(CallStep(p))
-----------------------------------------------------------------------------
\* A call returns what collect_unique_events makes of iter_pages: every event
\* of the snapshot, in its first delivery, whatever timeouts, duplicates and
\* reversed pages there were.
ReturnsTheSnapshot ==
    \A p \in Calls : At(p, "returned") =>
        call[p].got = CollectUniqueEvents(IterEvents(call[p].client))

\* The callback sees no page twice under the same cursor in one call.
RecordedOnce == \A p \in Calls : IsInjective(recorded[p])

\* What a call holds is durable: every page it took events from is an object
\* with just these events.
TakenIsLanded ==
    \A p \in Calls : call[p] # NoCall =>
        \A id \in DOMAIN call[p].got : \E key \in call[p].completed :
            LET k == key[1]
            IN  /\ object[PageUri(k)] = PageEvents(call[p].client, k)
                /\ call[p].got[id] \in Range(object[PageUri(k)])

\* replay_invariant: two calls that return from snapshots of equally many pages
\* return the same, even if the source changed in between: a changed page is a
\* LandingConflict for the second.
ReplaysAgree ==
    \A p, q \in Calls :
        /\ At(p, "returned")
        /\ At(q, "returned")
        /\ PageCount(call[p].client) = PageCount(call[q].client)
        => call[p].got = call[q].got

\* The members of S up to n that are not in T.
Remaining(n, S, T) == Cardinality({k \in 1..n : k \in S \ T})

\* What is before a call: the timeouts and repetitions of its client, the pages
\* after the current one, and the steps of the current one.
Left(me) ==
    LET beyond == PageCount(me.client) + 1
    IN  Remaining(beyond, me.client.timeouts, me.timedOut)
        + Remaining(beyond, me.client.repeats, me.repeated)
        + (beyond - me.page)

StepsOfPage(p) ==
    CASE At(p, "fetching") -> 6
      [] At(p, "recording") /\ upload[p] = "sending" -> IF Absent(p) THEN 5 ELSE 4
      [] At(p, "recording") /\ upload[p] = "refused" -> 3
      [] At(p, "recording") /\ upload[p] \notin {"sending", "refused"} -> 2
      [] At(p, "taking") -> 1
      [] OTHER -> 0

StepsLeft(p) == 7 * Left(call[p]) + StepsOfPage(p)

\* Neither retries, nor cursors that name their own page, nor uploads that are
\* repeated for a lost answer can keep a call busy: every step uses one up of
\* finitely many. What WF adds in EveryCallEnds is that steps are taken.
StepsRunOut == [][\A p \in Calls : CallStep(p) => StepsLeft(p)' < StepsLeft(p)]_vars

\* A call does not stay between two pages for ever.
EveryCallEnds == \A p \in Calls : Running(p) ~> ~Running(p)
=============================================================================
