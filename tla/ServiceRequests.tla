---------------------------- MODULE ServiceRequests ----------------------------
(***************************************************************************)
(* One process of a service and the requests it serves: events-api on SQL  *)
(* Server, catalog-api on MongoDB, anomaly-ai on MySQL, and edge-gateway,  *)
(* which has no database. Calls are served concurrently; the database goes *)
(* and comes; an insert may be committed and its acknowledgement lost; a   *)
(* client may leave; the process may be killed. Each service counts its    *)
(* requests by status code, for the dashboards and the SLO rules.          *)
(*                                                                         *)
(* The three services have the same layers (boundary, domain factory,      *)
(* repository) with rules of their own, which are the first part of this   *)
(* module; the second part is the course of a call, one step for the       *)
(* handler up to its call of the database, and one per event after that.   *)
(*                                                                         *)
(* Abstracted: a field's text is what the rules tell apart; events-api's   *)
(* two texts, and name and tags of catalog-api, are one; identifiers are   *)
(* the number of the call that made the row; /metrics, which no service    *)
(* of this repository counts on purpose, is left out.                      *)
(***************************************************************************)
EXTENDS Integers, FiniteSets

CONSTANTS
    None,          \* no value; asked for as a limit, text that is no number
    Services,      \* the services modelled
    Limits,        \* what callers may ask for as the length of a listing
    MaxLimit,      \* the longest listing: 200
    DefaultLimit,  \* the length when what was asked for is unusable: 50
    MaxOld,        \* bound on the rows that are there from before
    MaxCalls,      \* bound on the calls
    MaxOutages,    \* bound on the outages of the database
    MaxKills       \* bound on the deaths of the process

Service == {"events-api", "catalog-api", "anomaly-ai", "edge-gateway"}

ASSUME RequestsAssumption ==
    /\ Services \subseteq Service
    /\ Limits \subseteq Int \union {None}
    /\ MaxLimit \in Nat \ {0}
    /\ DefaultLimit \in 1..MaxLimit
    /\ MaxOld \in Nat
    /\ MaxCalls \in Nat
    /\ MaxOutages \in Nat
    /\ MaxKills \in Nat
    /\ None \notin Int

VARIABLES
    service,   \* which service this process is
    up,        \* the process listens
    kills,     \* how often it died
    call,      \* the calls, by number
    stamps,    \* the clock the domain's factories read, in steps of its precision
    rows,      \* the rows in the database
    db_up,     \* the database answers
    outages,   \* how often it went away
    counted    \* http_requests_received_total, by kind of endpoint and code

world == <<service, up, kills, db_up, outages>>
vars  == <<world, call, stamps, rows, counted>>

Calls == 1..MaxCalls

Code == {200, 201, 400, 404, 422, 500, 503}

\* /health and /ready on the one hand, what users call on the other: the label
\* by which the SLO rules tell them apart.
Endpoint == {"api", "probe"}

-----------------------------------------------------------------------------
(* The rules of the three services. *)

\* What the rules tell apart in a text: "padded" has blanks around it, "long"
\* is longer than the column, "unreadable" comes with a body that cannot be read.
Text == {"unreadable", "empty", "blank", "plain", "padded", "long"}

\* The same for a value that should be of a closed vocabulary: "known" is one
\* of its words, "cased" one in other letters.
Label == {"empty", "known", "cased", "padded", "unknown", "long"}

\* Only events-api takes a date: OccurredAt is left out, in the past, or more
\* than five minutes in the future.
When(s) == IF s = "events-api" THEN {"unset", "past", "future"} ELSE {"unset"}

Bodies(s) == [text : Text, label : Label, when : When(s)]

\* What the boundary (or, in catalog-api, the factory by way of the handler)
\* answers with a 4xx: CreateEventRequestValidator; the JSON decoder and
\* ErrInvalidName; CreateSampleRequest.
Refused(s, body) ==
    CASE s = "events-api"  -> \/ body.text \in {"unreadable", "empty", "blank", "long"}
                              \/ body.label \notin {"known", "cased"}
                              \/ body.when = "future"
      [] s = "catalog-api" -> body.text \in {"unreadable", "empty"}
      [] s = "anomaly-ai"  -> \/ body.text \in {"unreadable", "empty", "long"}
                              \/ body.label \in {"empty", "long"}

RefusalCode(s) == IF s = "anomaly-ai" THEN 422 ELSE 400

\* What passes the boundary and is refused by the domain's factory with an
\* exception that nobody turns into an answer.
FactoryRaises(s, body) == s # "catalog-api" /\ body.text \in {"empty", "blank"}

\* The normalised value: in the vocabulary, or the default ("info", "low",
\* "custom"). catalog-api looks the word up as it is.
NormalLabel(s, label) ==
    LET read == IF s = "catalog-api" THEN {"known"} ELSE {"known", "cased", "padded"}
    IN IF label \in read THEN "known" ELSE "default"

NormalText(s, text) == IF s # "catalog-api" /\ text = "padded" THEN "plain" ELSE text

\* A row is as its domain promises: of the closed vocabulary, named, and where
\* the service trims its texts, not blank.
Sound(s, text, label) ==
    /\ label \in {"known", "default"}
    /\ text \in IF s = "catalog-api" THEN {"plain", "padded", "blank", "long"}
                                     ELSE {"plain"}

\* The domain's factories: Event.Create, NewMonitoredSystem, MetricSample.create.
\* The date by which rows are listed is the moment of the factory, unless
\* events-api's client gave one. Of the texts only their soundness is kept.
RowOf(s, body, c, now) ==
    [by    |-> c,
     sound |-> Sound(s, NormalText(s, body.text), NormalLabel(s, body.label)),
     stamp |-> IF body.when = "past" THEN 0 ELSE now]

\* Mutant of Clamp: zero gets through.
ClampFromZero(limit) == IF limit < 0 \/ limit > MaxLimit THEN DefaultLimit ELSE limit

\* "defensive cap: never an unbounded query"
Clamp(limit) == IF limit < 1 \/ limit > MaxLimit THEN DefaultLimit ELSE limit

\* A limit that is no number: catalog-api keeps its default, the frameworks of
\* the other two refuse the call.
LimitRefused(s, limit) == limit = None /\ s # "catalog-api"
LimitOf(limit) == IF limit = None THEN DefaultLimit ELSE Clamp(limit)

\* What the database returns for a listing of n rows: the n latest ones, with
\* ties in any order. To MongoDB and to the model, a limit of 0 is none.
Listings(n) ==
    {s \in SUBSET rows :
        /\ n = 0 => s = rows
        /\ n > 0 => Cardinality(s) = (IF Cardinality(rows) < n THEN Cardinality(rows)
                                                               ELSE n)
        /\ \A r \in s, other \in rows \ s : r.stamp >= other.stamp}

-----------------------------------------------------------------------------
(* The course of a call. *)

\* "new", then in the hands of the database, then on its way out, then over;
\* "lost" with the process.
Stage == {"new", "inserting", "inserted", "reading", "finding", "pinging",
          "answering", "done", "lost"}

NoCall == [stage |-> "new", op |-> None, row |-> None, arg |-> None,
           known |-> {}, saw |-> {}, code |-> None, raised |-> FALSE,
           here |-> FALSE]

InDatabase == {"inserting", "inserted", "reading", "finding", "pinging"}
Open(c) == call[c].stage \in InDatabase \union {"answering"}

\* The rows whose creation was acknowledged to a client.
Acknowledged == {r \in rows : r.by \in {c \in Calls : call[c].stage = "done"
                                                       /\ call[c].code = 201}}

Init ==
    /\ service \in Services
    /\ up = TRUE
    /\ kills = 0
    /\ call = [c \in Calls |-> NoCall]
    /\ stamps = 0
    /\ \E n \in 0..MaxOld :
          rows = {[by |-> -i, sound |-> TRUE, stamp |-> 0] : i \in 1..n}
    /\ db_up = TRUE
    /\ outages = 0
    /\ counted = [k \in Endpoint |-> [code \in Code |-> 0]]

\* Call c arrives, and its handler runs up to its first await.
Arrives(c, update) ==
    /\ up
    /\ call[c].stage = "new"
    /\ \A d \in Calls : d < c => call[d].stage # "new"
    /\ call' = [call EXCEPT ![c] = update]
    /\ UNCHANGED <<world, rows, counted>>

\* The handler has its answer. One that raised never made it: the framework did.
Answered(c, code, raised) ==
    call' = [call EXCEPT ![c].stage = "answering", ![c].code = code,
                         ![c].raised = raised]

\* POST: EventsController.Create, CatalogHandler.create, create_sample
Create(c, body) ==
    /\ service # "edge-gateway"
    /\ LET posted == [NoCall EXCEPT !.op = "create"]
       IN \/ /\ Refused(service, body)
             /\ Arrives(c, [posted EXCEPT !.stage = "answering",
                                          !.code = RefusalCode(service)])
             /\ UNCHANGED stamps
          \/ /\ ~Refused(service, body)
             /\ FactoryRaises(service, body)
             /\ Arrives(c, [posted EXCEPT !.stage = "answering", !.code = 500,
                                          !.raised = TRUE])
             /\ UNCHANGED stamps
          \/ /\ ~Refused(service, body)
             /\ ~FactoryRaises(service, body)
             /\ stamps' \in {stamps, stamps + 1}
             /\ Arrives(c, [posted EXCEPT !.stage = "inserting",
                                          !.row = RowOf(service, body, c, stamps')])

\* GET of a list: the controller's List, CatalogHandler.list, list_samples
List(c, limit) ==
    /\ service # "edge-gateway"
    /\ LET asked == [NoCall EXCEPT !.op = "list", !.known = Acknowledged]
       IN \/ /\ LimitRefused(service, limit)
             /\ Arrives(c, [asked EXCEPT !.stage = "answering",
                                         !.code = RefusalCode(service)])
          \/ /\ ~LimitRefused(service, limit)
             /\ Arrives(c, [asked EXCEPT !.stage = "reading", !.arg = LimitOf(limit)])
    /\ UNCHANGED stamps

\* EventsController.GetById, for an id that exists, will exist or never does
Get(c, id) ==
    /\ service = "events-api"
    /\ Arrives(c, [NoCall EXCEPT !.op = "get", !.stage = "finding", !.arg = id,
                                 !.known = Acknowledged])
    /\ UNCHANGED stamps

\* GET /ready: the database is asked; edge-gateway has none to ask
Ready(c) ==
    /\ Arrives(c, IF service = "edge-gateway"
                  THEN [NoCall EXCEPT !.op = "ready", !.stage = "answering", !.code = 200]
                  ELSE [NoCall EXCEPT !.op = "ready", !.stage = "pinging"])
    /\ UNCHANGED stamps

\* edge-gateway answers every other path itself
Greet(c) ==
    /\ service = "edge-gateway"
    /\ Arrives(c, [NoCall EXCEPT !.op = "greet", !.stage = "answering", !.code = 200])
    /\ UNCHANGED stamps

\* The database executes an insert ...
Insert(c) ==
    /\ call[c].stage = "inserting"
    /\ db_up
    /\ rows' = rows \union {call[c].row}
    /\ call' = [call EXCEPT ![c].stage = "inserted"]
    /\ UNCHANGED <<world, stamps, counted>>

\* ... and the process hears of it.
Acknowledge(c) ==
    /\ call[c].stage = "inserted"
    /\ Answered(c, 201, FALSE)
    /\ UNCHANGED <<world, stamps, rows, counted>>

Read(c) ==
    /\ call[c].stage = "reading"
    /\ db_up
    /\ \E listing \in Listings(call[c].arg) :
          call' = [call EXCEPT ![c].stage = "answering", ![c].code = 200,
                               ![c].saw = listing]
    /\ UNCHANGED <<world, stamps, rows, counted>>

\* Mutant of Find: the call that found nothing is let go without a status.
FindSilently(c) ==
    /\ call[c].stage = "finding"
    /\ db_up
    /\ LET found == {r \in rows : r.by = call[c].arg}
       IN call' = [call EXCEPT ![c].stage = "answering", ![c].saw = found,
                               ![c].code = IF found = {} THEN None ELSE 200]
    /\ UNCHANGED <<world, stamps, rows, counted>>

Find(c) ==
    /\ call[c].stage = "finding"
    /\ db_up
    /\ LET found == {r \in rows : r.by = call[c].arg}
       IN call' = [call EXCEPT ![c].stage = "answering", ![c].saw = found,
                               ![c].code = IF found = {} THEN 404 ELSE 200]
    /\ UNCHANGED <<world, stamps, rows, counted>>

\* The error of a ping is caught in all three services.
Ping(c) ==
    /\ call[c].stage = "pinging"
    /\ Answered(c, IF db_up THEN 200 ELSE 503, FALSE)
    /\ UNCHANGED <<world, stamps, rows, counted>>

Failing(c) == call[c].stage \in {"inserting", "inserted", "reading", "finding"} /\ ~db_up

\* Mutants of DatabaseFails: the error of an insert is not looked at; the call is
\* repeated without end.
DatabaseFailsUnseen(c) ==
    /\ Failing(c)
    /\ Answered(c, IF call[c].op = "create" THEN 201 ELSE 500, FALSE)
    /\ UNCHANGED <<world, stamps, rows, counted>>

DatabaseRetried(c) ==
    /\ Failing(c)
    /\ call' = [call EXCEPT ![c].stage = IF @ = "inserted" THEN "inserting" ELSE @]
    /\ UNCHANGED <<world, stamps, rows, counted>>

\* Whether an error of the database leaves the handler as an exception: only
\* catalog-api turns it into an answer.
Propagates == service # "catalog-api"

\* The database is away: the call fails, also when it was an insert that had been
\* executed and only its acknowledgement was lost.
DatabaseFails(c) ==
    /\ Failing(c)
    /\ Answered(c, 500, Propagates)
    /\ UNCHANGED <<world, stamps, rows, counted>>

\* The client leaves, and with it goes the token (or context) that events-api and
\* catalog-api hand down to the database. anomaly-ai carries on as if nothing had
\* happened, and a handler that has its answer is done with its client.
Cancel(c) ==
    /\ call[c].stage \in {"inserting", "inserted", "reading", "finding"}
    /\ service \in {"events-api", "catalog-api"}
    /\ Answered(c, 500, Propagates)
    /\ UNCHANGED <<world, stamps, rows, counted>>

EndpointOf(op) == IF op = "ready" THEN "probe" ELSE "api"

\* Mutant of CountedAs: the recorder keeps the code it was created with.
CountedAsCreated(c) == {200}

\* The codes under which the middleware may count a call, if it counts it: the Go
\* services record the code that was written; record_metrics of anomaly-ai never
\* gets past call_next when the handler raised; events-api's library counts such
\* a call under a code of its own.
CountedAs(c) ==
    IF ~call[c].raised THEN {call[c].code}
    ELSE IF service = "anomaly-ai" THEN {} ELSE {200, 500}

\* The middleware counts the call and the answer goes out.
Answer(c) ==
    /\ call[c].stage = "answering"
    /\ LET k == EndpointOf(call[c].op)
           count(code) == [counted EXCEPT ![k][code] = @ + 1]
       IN counted' \in IF CountedAs(c) = {} THEN {counted}
                       ELSE {count(code) : code \in CountedAs(c)}
    /\ call' = [call EXCEPT ![c] = [NoCall EXCEPT !.stage = "done", !.op = call[c].op,
                        !.code = call[c].code, !.raised = call[c].raised, !.here = TRUE]]
    /\ UNCHANGED <<world, stamps, rows>>

\* The process is gone, and with it its calls and its counters.
Kill ==
    /\ up
    /\ kills < MaxKills
    /\ up' = FALSE
    /\ kills' = kills + 1
    /\ call' = [c \in Calls |->
                   IF Open(c) THEN [NoCall EXCEPT !.stage = "lost"]
                   ELSE [call[c] EXCEPT !.here = FALSE]]
    /\ counted' = [k \in Endpoint |-> [code \in Code |-> 0]]
    /\ UNCHANGED <<service, stamps, rows, db_up, outages>>

\* A new process; it listens once it has reached its database (see ServicePod).
Restart ==
    /\ ~up
    /\ db_up \/ service = "edge-gateway"
    /\ up' = TRUE
    /\ UNCHANGED <<service, kills, db_up, outages, call, stamps, rows, counted>>

DatabaseGoes ==
    /\ db_up
    /\ outages < MaxOutages
    /\ db_up' = FALSE
    /\ outages' = outages + 1
    /\ UNCHANGED <<service, up, kills, call, stamps, rows, counted>>

DatabaseComes ==
    /\ ~db_up
    /\ db_up' = TRUE
    /\ UNCHANGED <<service, up, kills, outages, call, stamps, rows, counted>>

\* What the process does for a call it has accepted.
Serve(c) ==
    \/ Insert(c)
    \/ Acknowledge(c)
    \/ Read(c)
    \/ Find(c)
    \/ Ping(c)
    \/ DatabaseFails(c)
    \/ Answer(c)

\* What clients do.
Ask(c) ==
    \/ \E body \in Bodies(service) : Create(c, body)
    \/ \E limit \in Limits : List(c, limit)
    \/ \E id \in Calls \union {-1} : Get(c, id)
    \/ Ready(c)
    \/ Greet(c)
    \/ Cancel(c)

Next ==
    \/ \E c \in Calls : Ask(c) \/ Serve(c)
    \/ Kill \/ Restart
    \/ DatabaseGoes \/ DatabaseComes

Spec == Init /\ [][Next]_vars

\* The process works on every call it has accepted, and every call of a driver
\* comes back with a result or an error. Clients owe nothing, and neither the
\* database nor the process has to come back.
FairSpec == Spec /\ \A c \in Calls : WF_vars(Serve(c))

-----------------------------------------------------------------------------
(* Properties. *)

Row == [by : Int, sound : BOOLEAN, stamp : Nat]

\* The variables keep their types, a call is in process only while there is a
\* process, and no counter is kept without one.
TypeOK ==
    /\ service \in Services
    /\ up \in BOOLEAN
    /\ db_up \in BOOLEAN
    /\ kills \in 0..MaxKills
    /\ outages \in 0..MaxOutages
    /\ stamps \in 0..MaxCalls
    /\ rows \subseteq Row
    /\ counted \in [Endpoint -> [Code -> Nat]]
    /\ \A c \in Calls :
          /\ call[c].stage \in Stage
          /\ call[c].row \in Row \union {None}
          /\ call[c].code \in Code \union {None}
          /\ Open(c) => up
          /\ (call[c].code # None) = (call[c].stage \in {"answering", "done"})

Over(c) == call[c].stage = "done"
RowsOf(c) == {r \in rows : r.by = c}

\* The answer to a POST says what became of it, through outages, lost
\* acknowledgements, clients that leave and the death of the process: 201 means
\* that the row is there and stays; 4xx that nothing was stored. Only a 5xx, or
\* no answer, says nothing. And every row that is there is valid, whatever was
\* sent.
AnswerTellsTheTruth ==
    /\ \A c \in Calls : Over(c) /\ call[c].op = "create" =>
          /\ call[c].code = 201 => Cardinality(RowsOf(c)) = 1
          /\ call[c].code \in {400, 422} => RowsOf(c) = {}
    /\ \A r \in rows : r.sound

\* A listing is as recent as the acknowledgements its caller could have seen:
\* whatever was acknowledged before the call came in is in it, unless the listing
\* is full of rows that are no older. It is never longer than the cap, whatever
\* was asked for, and shows no row that is not stored. A row that was
\* acknowledged before the call is found by its id.
ReadsAreCurrent ==
    \A c \in Calls : call[c].stage = "answering" /\ call[c].code \in {200, 404} =>
        /\ call[c].saw \subseteq rows
        /\ call[c].op = "list" =>
              /\ Cardinality(call[c].saw) <= MaxLimit
              /\ \A r \in call[c].known \ call[c].saw :
                    /\ Cardinality(call[c].saw) >= call[c].arg
                    /\ \A shown \in call[c].saw : shown.stamp >= r.stamp
        /\ call[c].op = "get" =>
              \A r \in call[c].known : r.by = call[c].arg => call[c].saw = {r}

\* The answers of this process so far.
AnsweredHere(k) ==
    {c \in Calls : Over(c) /\ call[c].here /\ EndpointOf(call[c].op) = k}

Total(k) == counted[k][200] + counted[k][201] + counted[k][400] + counted[k][404]
               + counted[k][422] + counted[k][500] + counted[k][503]

\* What the counters say of this process is what it answered: by code for every
\* answer a handler made, in total for all but those that anomaly-ai's
\* handlers raised; and a probe never counts as a user's request
\* (events-api-slo-rules.yaml:18-20).
CountersAgree ==
    \A k \in Endpoint :
        /\ \A code \in Code :
              counted[k][code] >= Cardinality({c \in AnsweredHere(k) :
                                                  ~call[c].raised /\ call[c].code = code})
        /\ Total(k) = Cardinality({c \in AnsweredHere(k) :
                                      call[c].raised => service # "anomaly-ai"})

\* "standardized RED metrics regardless of language" (README.md:11), that is
\* rate, errors and duration (README.md:42): every answer is counted, errors too.
EveryAnswerIsCounted == \A k \in Endpoint : Total(k) = Cardinality(AnsweredHere(k))

\* Every call that was accepted is answered, unless the process dies first: no
\* outage and no client that leaves keeps it for ever.
EveryCallIsAnswered == \A c \in Calls : Open(c) ~> ~Open(c)

=============================================================================
