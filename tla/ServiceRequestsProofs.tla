------------------------- MODULE ServiceRequestsProofs -------------------------
(***************************************************************************)
(* Theorems about the requests of a service, for every number of calls,    *)
(* outages and deaths of the process, every limit a caller may ask for and *)
(* every length a listing may have.                                        *)
(***************************************************************************)
EXTENDS ServiceRequests, FiniteSetTheorems, TLAPS

Op == {"create", "list", "get", "ready", "greet", None}

CallRecord ==
    [stage : Stage, op : Op, row : Row \union {None}, arg : Int \union {None},
     known : SUBSET Row, saw : SUBSET Row, code : Code \union {None},
     raised : BOOLEAN, here : BOOLEAN]

CallsTyped == call \in [Calls -> CallRecord]

WorldTyped ==
    /\ service \in Services
    /\ up \in BOOLEAN
    /\ db_up \in BOOLEAN
    /\ kills \in 0..MaxKills
    /\ outages \in 0..MaxOutages

Stamped == stamps \in 0..MaxCalls
CountersTyped == counted \in [Endpoint -> [Code -> Nat]]

\* The rows are finitely many, valid, and no two are of one call.
RowsKept ==
    /\ rows \subseteq Row
    /\ IsFiniteSet(rows)
    /\ \A r \in rows : r.sound
    /\ \A r, s \in rows : r.by = s.by => r = s

\* A call has a row if it was executed, and none before.
Stored(c) ==
    /\ call[c].stage = "new" => stamps < c /\ RowsOf(c) = {}
    /\ call[c].stage = "inserting" =>
          /\ call[c].op = "create" /\ call[c].row \in Row
          /\ call[c].row.by = c /\ call[c].row.sound
          /\ RowsOf(c) = {}
    /\ call[c].stage = "inserted" => call[c].op = "create" /\ RowsOf(c) # {}
    /\ call[c].code = 201 => call[c].op = "create" /\ RowsOf(c) # {}
    /\ call[c].op = "create" /\ call[c].code \in {400, 422} => RowsOf(c) = {}

\* What ReadsAreCurrent says of one call.
Current(c) ==
    call[c].stage = "answering" /\ call[c].code \in {200, 404} =>
        /\ call[c].op = "list" =>
              /\ Cardinality(call[c].saw) <= MaxLimit
              /\ \A r \in call[c].known \ call[c].saw :
                    /\ Cardinality(call[c].saw) >= call[c].arg
                    /\ \A shown \in call[c].saw : shown.stamp >= r.stamp
        /\ call[c].op = "get" =>
              \A r \in call[c].known : r.by = call[c].arg => call[c].saw = {r}

\* What a call that is read for has been told and will be told.
Reads(c) ==
    /\ call[c].known \subseteq rows /\ call[c].saw \subseteq rows
    /\ call[c].stage = "reading" => call[c].op = "list" /\ call[c].arg \in 1..MaxLimit
    /\ call[c].stage = "finding" => call[c].op = "get"
    /\ call[c].stage = "pinging" => call[c].op = "ready"

InProcess(c) ==
    /\ Open(c) => up
    /\ call[c].code # None <=> call[c].stage \in {"answering", "done"}

CallKept(c) == InProcess(c) /\ Stored(c) /\ Reads(c) /\ Current(c)

RequestsInv ==
    /\ WorldTyped /\ Stamped /\ CountersTyped /\ CallsTyped /\ RowsKept
    /\ \A c \in Calls : CallKept(c)

-----------------------------------------------------------------------------
(* The rules of the services. *)

\* What passes a service's boundary and its factory becomes a valid row
\* (Event.cs, monitored_system.go, models.py).
LEMMA AcceptedIsSound ==
    ASSUME NEW s \in Service, s # "edge-gateway", NEW body \in Bodies(s),
           ~Refused(s, body), ~FactoryRaises(s, body),
           NEW c \in Int, NEW now \in Nat
    PROVE  /\ RowOf(s, body, c, now) \in Row
           /\ RowOf(s, body, c, now).by = c
           /\ RowOf(s, body, c, now).sound
<1>1. /\ body.text \in Text /\ body.label \in Label
  BY DEF Bodies
<1>2. Sound(s, NormalText(s, body.text), NormalLabel(s, body.label))
  <2>1. NormalLabel(s, body.label) \in {"known", "default"}
    BY DEF NormalLabel
  <2>2. CASE s = "events-api"
    <3>1. body.text \notin {"unreadable", "empty", "blank", "long"}
      BY <2>2 DEF Refused
    <3> QED
      BY <1>1, <2>1, <2>2, <3>1 DEF Sound, NormalText, Text
  <2>3. CASE s = "catalog-api"
    <3>1. body.text \notin {"unreadable", "empty"}
      BY <2>3 DEF Refused
    <3> QED
      BY <1>1, <2>1, <2>3, <3>1 DEF Sound, NormalText, Text
  <2>4. CASE s = "anomaly-ai"
    <3>1. body.text \notin {"unreadable", "empty", "blank", "long"}
      BY <2>4 DEF Refused, FactoryRaises
    <3> QED
      BY <1>1, <2>1, <2>4, <3>1 DEF Sound, NormalText, Text
  <2> QED
    BY <2>2, <2>3, <2>4 DEF Service
<1>3. Sound(s, NormalText(s, body.text), NormalLabel(s, body.label)) = TRUE
  BY <1>2 DEF Sound
<1>4. (IF body.when = "past" THEN 0 ELSE now) \in Nat
  OBVIOUS
<1> QED
  BY <1>3, <1>4 DEF RowOf, Row

\* Every limit becomes one between 1 and the cap (EventsController.cs, handlers.go,
\* main.py: "defensive cap").
LEMMA LimitIsCapped ==
    ASSUME NEW limit \in Int \union {None}
    PROVE  LimitOf(limit) \in 1..MaxLimit
  BY RequestsAssumption DEF LimitOf, Clamp

\* A listing is no longer than was asked for, and leaves out nothing that is newer
\* than what it shows, nor anything at all while it has room.
LEMMA ListingIsCurrent ==
    ASSUME RowsKept, NEW n \in 1..MaxLimit, NEW listing \in Listings(n)
    PROVE  /\ listing \subseteq rows
           /\ Cardinality(listing) <= MaxLimit
           /\ \A r \in rows \ listing :
                 /\ Cardinality(listing) >= n
                 /\ \A shown \in listing : shown.stamp >= r.stamp
<1>1. /\ listing \subseteq rows
      /\ Cardinality(listing) = IF Cardinality(rows) < n THEN Cardinality(rows) ELSE n
      /\ \A r \in listing, other \in rows \ listing : r.stamp >= other.stamp
  BY DEF Listings
<1>2. Cardinality(rows) \in Nat /\ MaxLimit \in Nat
  BY FS_CardinalityType, RequestsAssumption DEF RowsKept
<1>3. Cardinality(rows) < n => listing = rows
  BY <1>1, FS_Subset DEF RowsKept
<1> QED
  BY <1>1, <1>2, <1>3

-----------------------------------------------------------------------------
(* One call moves at a time. *)

OthersStay(c) ==
    /\ CallsTyped'
    /\ \A d \in Calls \ {c} : call'[d] = call[d]

\* New rows are those of call c.
OnlyRowsOf(c) ==
    /\ rows \subseteq rows'
    /\ \A r \in rows' : r \in rows \/ r.by = c

\* The clock goes on only for a call that arrives, and calls arrive in order.
StampedBy(c) ==
    \/ UNCHANGED stamps
    \/ /\ stamps' = stamps + 1
       /\ call[c].stage = "new"
       /\ \A d \in Calls : d < c => call[d].stage # "new"

\* What one call does leaves the others as they are.
LEMMA OthersKept ==
    ASSUME RequestsInv, NEW c \in Calls, OthersStay(c), OnlyRowsOf(c), StampedBy(c),
           UNCHANGED up
    PROVE  \A d \in Calls \ {c} : CallKept(d)'
<1> SUFFICES ASSUME NEW d \in Calls \ {c}
             PROVE  CallKept(d)'
  OBVIOUS
<1>1. call'[d] = call[d] /\ CallKept(d) /\ d \in Int /\ c \in Int /\ c # d
  BY DEF OthersStay, RequestsInv, Calls
<1>2. RowsOf(d)' = RowsOf(d)
  BY <1>1 DEF OnlyRowsOf, RowsOf
<1>3. call[d].stage = "new" /\ stamps < d => stamps' < d
  BY <1>1 DEF StampedBy, RequestsInv, CallKept, Stored, Stamped
<1>4. Stored(d)'
  BY <1>1, <1>2, <1>3 DEF CallKept, Stored
<1>5. Reads(d)'
  BY <1>1 DEF CallKept, Reads, OnlyRowsOf
<1>6. Current(d)'
  BY <1>1 DEF CallKept, Current
<1>7. InProcess(d)'
  BY <1>1 DEF CallKept, InProcess, Open
<1> QED
  BY <1>4, <1>5, <1>6, <1>7 DEF CallKept

\* A step that moves one call, and stores at most a row of its own, keeps what the
\* other calls were told.
LEMMA OneCallMoves ==
    ASSUME RequestsInv, NEW c \in Calls, OthersStay(c), OnlyRowsOf(c), StampedBy(c),
           UNCHANGED world, RowsKept', CountersTyped', CallKept(c)'
    PROVE  RequestsInv'
<1>1. UNCHANGED up /\ WorldTyped'
  BY DEF RequestsInv, WorldTyped, world
<1>2. \A d \in Calls \ {c} : CallKept(d)'
  BY <1>1, OthersKept
<1>3. Stamped'
  BY RequestsAssumption
     DEF StampedBy, Stamped, RequestsInv, CallKept, Stored, Calls
<1>4. CallsTyped'
  BY DEF OthersStay
<1> QED
  BY <1>1, <1>2, <1>3, <1>4 DEF RequestsInv

\* A handler that has its answer changes nothing else of its call.
LEMMA AnsweredFields ==
    ASSUME CallsTyped, NEW c \in Calls, NEW code \in Code, NEW raised \in BOOLEAN,
           Answered(c, code, raised)
    PROVE  /\ OthersStay(c)
           /\ call'[c].stage = "answering" /\ call'[c].code = code
           /\ call'[c].op = call[c].op /\ call'[c].row = call[c].row
           /\ call'[c].arg = call[c].arg
           /\ call'[c].known = call[c].known /\ call'[c].saw = call[c].saw
<1>1. call[c] \in CallRecord
  BY DEF CallsTyped
<1>2. call'[c] = [call[c] EXCEPT !.stage = "answering", !.code = code, !.raised = raised]
  BY DEF CallsTyped, Answered
<1>3. call'[c] \in CallRecord
  BY <1>1, <1>2 DEF CallRecord, Stage
<1>4. call' \in [Calls -> CallRecord] /\ \A d \in Calls \ {c} : call'[d] = call[d]
  BY <1>3 DEF CallsTyped, Answered
<1> QED
  BY <1>1, <1>2, <1>4 DEF OthersStay, CallsTyped, CallRecord

\* A call of the database comes back with something to answer.
LEMMA HandlerAnswers ==
    ASSUME RequestsInv, NEW c \in Calls, NEW code \in Code, NEW raised \in BOOLEAN,
           Answered(c, code, raised), UNCHANGED <<world, stamps, rows, counted>>,
           call[c].stage \in InDatabase,
           code \notin {400, 422},
           code = 201 => call[c].op = "create" /\ RowsOf(c) # {},
           code \in {200, 404} => call[c].op = "ready"
    PROVE  RequestsInv'
<1>1. CallKept(c) /\ CallsTyped /\ up
  BY DEF RequestsInv, CallKept, InProcess, Open
<1>2. /\ OthersStay(c)
      /\ call'[c].stage = "answering" /\ call'[c].code = code
      /\ call'[c].op = call[c].op /\ call'[c].row = call[c].row
      /\ call'[c].arg = call[c].arg
      /\ call'[c].known = call[c].known /\ call'[c].saw = call[c].saw
  BY <1>1, AnsweredFields
<1>3. RowsOf(c)' = RowsOf(c)
  BY DEF RowsOf
<1>4. Stored(c)'
  BY <1>2, <1>3 DEF Stored
<1>5. Reads(c)' /\ Current(c)'
  BY <1>1, <1>2 DEF CallKept, Reads, Current
<1>6. InProcess(c)'
  BY <1>1, <1>2, RequestsAssumption DEF InProcess, Open, Code, world
<1>7. RowsKept' /\ CountersTyped' /\ OnlyRowsOf(c) /\ StampedBy(c)
  BY DEF RequestsInv, RowsKept, CountersTyped, OnlyRowsOf, StampedBy
<1> QED
  BY <1>2, <1>4, <1>5, <1>6, <1>7, OneCallMoves DEF CallKept

\* A call that has not come in is typed, and empty.
LEMMA NoCallTyped ==
    /\ NoCall \in CallRecord
    /\ NoCall.known = {} /\ NoCall.saw = {} /\ NoCall.code = None
    /\ NoCall.stage = "new" /\ NoCall.op = None /\ NoCall.here = FALSE
  BY DEF NoCall, CallRecord, Stage, Op

\* A call comes in and runs up to its first await.
LEMMA CallArrives ==
    ASSUME RequestsInv, NEW c \in Calls, NEW update \in CallRecord,
           Arrives(c, update), StampedBy(c),
           update.stage \in {"inserting", "reading", "finding", "pinging", "answering"},
           update.code # None <=> update.stage = "answering",
           update.known \subseteq rows, update.saw = {},
           update.code # 201,
           update.code \in {200, 404} => update.op \notin {"list", "get"},
           update.stage = "inserting" =>
              /\ update.op = "create" /\ update.row \in Row
              /\ update.row.by = c /\ update.row.sound,
           update.stage = "reading" => update.op = "list" /\ update.arg \in 1..MaxLimit,
           update.stage = "finding" => update.op = "get",
           update.stage = "pinging" => update.op = "ready"
    PROVE  RequestsInv'
<1>1. /\ CallKept(c) /\ up /\ call[c].stage = "new"
      /\ UNCHANGED <<world, rows, counted>>
      /\ call' = [call EXCEPT ![c] = update]
  BY DEF RequestsInv, Arrives
<1>2. OthersStay(c) /\ call'[c] = update
  BY <1>1 DEF RequestsInv, CallsTyped, OthersStay
<1>3. RowsOf(c)' = {}
  BY <1>1 DEF RowsOf, CallKept, Stored
<1>4. Stored(c)'
  BY <1>2, <1>3 DEF Stored
<1>5. Reads(c)' /\ Current(c)'
  BY <1>1, <1>2 DEF Reads, Current
<1>6. InProcess(c)'
  BY <1>1, <1>2 DEF InProcess, Open, world
<1>7. RowsKept' /\ CountersTyped' /\ OnlyRowsOf(c) /\ UNCHANGED world
  BY <1>1 DEF RequestsInv, RowsKept, CountersTyped, OnlyRowsOf
<1> QED
  BY <1>2, <1>4, <1>5, <1>6, <1>7, OneCallMoves DEF CallKept

\* The records the handlers make of a call that has come in: one with an answer,
\* one that inserts, one that reads, one that pings.
LEMMA AnswerTyped ==
    ASSUME NEW op \in Op, NEW code \in Code, NEW known \in SUBSET Row
    PROVE  /\ [NoCall EXCEPT !.op = op, !.stage = "answering", !.code = code]
                  \in CallRecord
           /\ [NoCall EXCEPT !.op = op, !.known = known, !.stage = "answering",
                             !.code = code] \in CallRecord
<1>1. \A r \in CallRecord, stage \in Stage :
          /\ [r EXCEPT !.op = op, !.stage = stage, !.code = code] \in CallRecord
          /\ [r EXCEPT !.op = op, !.known = known, !.stage = stage, !.code = code]
                \in CallRecord
  BY DEF CallRecord
<1>2. NoCall \in CallRecord /\ "answering" \in Stage
  BY NoCallTyped DEF Stage
<1> QED
  BY <1>1, <1>2

\* A call whose handler raised is a call record.
LEMMA RaiseTyped ==
    ASSUME NEW op \in Op, NEW code \in Code
    PROVE  [NoCall EXCEPT !.op = op, !.stage = "answering", !.code = code,
                          !.raised = TRUE] \in CallRecord
<1>1. \A r \in CallRecord, stage \in Stage, raised \in BOOLEAN :
          [r EXCEPT !.op = op, !.stage = stage, !.code = code, !.raised = raised]
             \in CallRecord
  BY DEF CallRecord
<1>2. NoCall \in CallRecord /\ "answering" \in Stage /\ TRUE \in BOOLEAN
  BY NoCallTyped DEF Stage
<1> QED
  BY <1>1, <1>2

\* A call on its way to insert is a call record.
LEMMA InsertTyped ==
    ASSUME NEW op \in Op, NEW stage \in Stage, NEW row \in Row
    PROVE  [NoCall EXCEPT !.op = op, !.stage = stage, !.row = row] \in CallRecord
  BY NoCallTyped DEF CallRecord

\* A call on its way to read is a call record.
LEMMA ReadTyped ==
    ASSUME NEW op \in Op, NEW stage \in Stage, NEW known \in SUBSET Row, NEW arg \in Int
    PROVE  /\ [NoCall EXCEPT !.op = op, !.known = known, !.stage = stage, !.arg = arg]
                 \in CallRecord
           /\ [NoCall EXCEPT !.op = op, !.stage = stage, !.arg = arg, !.known = known]
                 \in CallRecord
  BY NoCallTyped DEF CallRecord

\* A call that needs no data is a call record.
LEMMA PingTyped ==
    ASSUME NEW op \in Op, NEW stage \in Stage
    PROVE  [NoCall EXCEPT !.op = op, !.stage = stage] \in CallRecord
  BY NoCallTyped DEF CallRecord

\* The operations, stages and codes the handlers use are among those there are.
LEMMA Names ==
    /\ "create" \in Op /\ "list" \in Op /\ "get" \in Op /\ "ready" \in Op
    /\ "greet" \in Op
    /\ "inserting" \in Stage /\ "reading" \in Stage /\ "finding" \in Stage
    /\ "pinging" \in Stage /\ "answering" \in Stage
    /\ 200 \in Code /\ 400 \in Code /\ 422 \in Code /\ 500 \in Code
    /\ NoCall \in CallRecord
  BY NoCallTyped DEF Op, Stage, Code

-----------------------------------------------------------------------------
(* The actions. *)

\* A create that is refused stores nothing; one that is accepted brings a valid row
\* of its own (EventsController.cs, handlers.go, routes.py).
LEMMA CreateKeeps ==
    ASSUME RequestsInv, NEW c \in Calls, NEW body \in Bodies(service), Create(c, body)
    PROVE  RequestsInv'
<1>1. service \in Service /\ service # "edge-gateway" /\ c \in Int
  BY RequestsAssumption DEF RequestsInv, WorldTyped, Create, Calls
<1>2. CASE /\ Arrives(c, [NoCall EXCEPT !.op = "create", !.stage = "answering",
                                        !.code = RefusalCode(service)])
           /\ UNCHANGED stamps
  <2>1. RefusalCode(service) \in {400, 422}
    BY DEF RefusalCode
  <2>2. [NoCall EXCEPT !.op = "create", !.stage = "answering",
                       !.code = RefusalCode(service)] \in CallRecord
    <3>1. RefusalCode(service) \in Code /\ "create" \in Op
      BY <2>1, Names
    <3> QED
      BY <3>1, AnswerTyped
  <2>3. PICK u \in CallRecord :
            u = [NoCall EXCEPT !.op = "create", !.stage = "answering",
                               !.code = RefusalCode(service)]
    BY <2>2
  <2>4. /\ u.op = "create" /\ u.stage = "answering" /\ u.code \in {400, 422}
        /\ u.known = {} /\ u.saw = {}
    BY <2>1, <2>3 DEF NoCall
  <2>5. Arrives(c, u) /\ StampedBy(c)
    BY <1>2, <2>3 DEF StampedBy
  <2> QED
    BY <2>4, <2>5, CallArrives, RequestsAssumption
<1>3. CASE /\ Arrives(c, [NoCall EXCEPT !.op = "create", !.stage = "answering",
                                        !.code = 500, !.raised = TRUE])
           /\ UNCHANGED stamps
  <2>2. [NoCall EXCEPT !.op = "create", !.stage = "answering", !.code = 500,
                       !.raised = TRUE] \in CallRecord
    <3>1. 500 \in Code /\ "create" \in Op
      BY Names
    <3> QED
      BY <3>1, RaiseTyped
  <2>3. PICK u \in CallRecord :
            u = [NoCall EXCEPT !.op = "create", !.stage = "answering", !.code = 500,
                               !.raised = TRUE]
    BY <2>2
  <2>4. /\ u.op = "create" /\ u.stage = "answering" /\ u.code = 500
        /\ u.known = {} /\ u.saw = {}
    BY <2>3 DEF NoCall
  <2>5. Arrives(c, u) /\ StampedBy(c)
    BY <1>3, <2>3 DEF StampedBy
  <2> QED
    BY <2>4, <2>5, CallArrives, RequestsAssumption
<1>4. CASE /\ ~Refused(service, body) /\ ~FactoryRaises(service, body)
           /\ stamps' \in {stamps, stamps + 1}
           /\ Arrives(c, [NoCall EXCEPT !.op = "create", !.stage = "inserting",
                                        !.row = RowOf(service, body, c, stamps')])
  <2>1. stamps' \in Nat
    BY <1>4 DEF RequestsInv, Stamped
  <2>2. PICK row \in Row : /\ row = RowOf(service, body, c, stamps')
                           /\ row.by = c /\ row.sound
    BY <1>1, <1>4, <2>1, AcceptedIsSound
  <2>3. [NoCall EXCEPT !.op = "create", !.stage = "inserting", !.row = row] \in CallRecord
    BY InsertTyped, Names
  <2>4. PICK u \in CallRecord :
            u = [NoCall EXCEPT !.op = "create", !.stage = "inserting", !.row = row]
    BY <2>3
  <2>5. /\ u.op = "create" /\ u.stage = "inserting" /\ u.code = None
        /\ u.row = row /\ u.known = {} /\ u.saw = {}
    BY <2>4 DEF NoCall
  <2>6. Arrives(c, u)
    BY <1>4, <2>2, <2>4
  <2>7. StampedBy(c)
    BY <1>4 DEF StampedBy, Arrives
  <2> QED
    BY <2>2, <2>5, <2>6, <2>7, CallArrives, RequestsAssumption
<1> QED
  BY <1>2, <1>3, <1>4 DEF Create

\* A listing asks for no more than the cap.
LEMMA ListKeeps ==
    ASSUME RequestsInv, NEW c \in Calls, NEW limit \in Limits, List(c, limit)
    PROVE  RequestsInv'
<1>1. PICK known \in SUBSET Row : known = Acknowledged /\ known \subseteq rows
  BY DEF Acknowledged, RequestsInv, RowsKept
<1>2. CASE Arrives(c, [NoCall EXCEPT !.op = "list", !.known = Acknowledged,
                                     !.stage = "answering", !.code = RefusalCode(service)])
  <2>1. RefusalCode(service) \in {400, 422}
    BY DEF RefusalCode
  <2>2. [NoCall EXCEPT !.op = "list", !.known = known, !.stage = "answering",
                       !.code = RefusalCode(service)] \in CallRecord
    <3>1. RefusalCode(service) \in Code /\ "list" \in Op
      BY <2>1, Names
    <3> QED
      BY <3>1, AnswerTyped
  <2>3. PICK u \in CallRecord :
            u = [NoCall EXCEPT !.op = "list", !.known = known, !.stage = "answering",
                               !.code = RefusalCode(service)]
    BY <2>2
  <2>4. /\ u.op = "list" /\ u.stage = "answering" /\ u.code \in {400, 422}
        /\ u.known = known /\ u.saw = {}
    BY <2>1, <2>3 DEF NoCall
  <2>5. Arrives(c, u) /\ StampedBy(c)
    BY <1>1, <1>2, <2>3 DEF StampedBy, List
  <2> QED
    BY <1>1, <2>4, <2>5, CallArrives, RequestsAssumption
<1>3. CASE Arrives(c, [NoCall EXCEPT !.op = "list", !.known = Acknowledged,
                                     !.stage = "reading", !.arg = LimitOf(limit)])
  <2>1. PICK n \in 1..MaxLimit : n = LimitOf(limit)
    BY LimitIsCapped, RequestsAssumption
  <2>2. [NoCall EXCEPT !.op = "list", !.known = known, !.stage = "reading",
                       !.arg = n] \in CallRecord
    <3>1. n \in Int /\ "list" \in Op /\ "reading" \in Stage
      BY <2>1, Names
    <3> QED
      BY <3>1, ReadTyped
  <2>3. PICK u \in CallRecord :
            u = [NoCall EXCEPT !.op = "list", !.known = known, !.stage = "reading",
                               !.arg = n]
    BY <2>2
  <2>4. /\ u.op = "list" /\ u.stage = "reading" /\ u.code = None
        /\ u.arg = n /\ u.known = known /\ u.saw = {}
    BY <2>3 DEF NoCall
  <2>5. Arrives(c, u) /\ StampedBy(c)
    BY <1>1, <1>3, <2>1, <2>3 DEF StampedBy, List
  <2> QED
    BY <1>1, <2>4, <2>5, CallArrives, RequestsAssumption
<1> QED
  BY <1>2, <1>3 DEF List

\* A lookup asks for one row.
LEMMA GetKeeps ==
    ASSUME RequestsInv, NEW c \in Calls, NEW id \in Calls \union {-1}, Get(c, id)
    PROVE  RequestsInv'
<1>1. PICK known \in SUBSET Row : known = Acknowledged /\ known \subseteq rows
  BY DEF Acknowledged, RequestsInv, RowsKept
<1>2. id \in Int
  BY DEF Calls
<1>3. [NoCall EXCEPT !.op = "get", !.stage = "finding", !.arg = id, !.known = known]
        \in CallRecord
  BY <1>2, ReadTyped, Names
<1>4. PICK u \in CallRecord :
          u = [NoCall EXCEPT !.op = "get", !.stage = "finding", !.arg = id, !.known = known]
  BY <1>3
<1>5. /\ u.op = "get" /\ u.stage = "finding" /\ u.code = None
      /\ u.known = known /\ u.saw = {}
  BY <1>4 DEF NoCall
<1>6. Arrives(c, u) /\ StampedBy(c)
  BY <1>1, <1>4 DEF Get, StampedBy
<1> QED
  BY <1>1, <1>5, <1>6, CallArrives, RequestsAssumption

\* The readiness probe and the static answers read no row.
LEMMA ReadyKeeps ==
    ASSUME RequestsInv, NEW c \in Calls, Ready(c) \/ Greet(c)
    PROVE  RequestsInv'
<1>1. ASSUME NEW op \in {"ready", "greet"},
             Arrives(c, [NoCall EXCEPT !.op = op, !.stage = "answering", !.code = 200])
      PROVE  RequestsInv'
  <2>1. [NoCall EXCEPT !.op = op, !.stage = "answering", !.code = 200] \in CallRecord
    BY AnswerTyped, Names
  <2>2. PICK u \in CallRecord :
            u = [NoCall EXCEPT !.op = op, !.stage = "answering", !.code = 200]
    BY <2>1
  <2>3. /\ u.op = op /\ u.stage = "answering" /\ u.code = 200
        /\ u.known = {} /\ u.saw = {}
    BY <2>2 DEF NoCall
  <2>4. Arrives(c, u) /\ StampedBy(c)
    BY <1>1, <2>2 DEF Ready, Greet, StampedBy
  <2> QED
    BY <2>3, <2>4, CallArrives, RequestsAssumption
<1>2. CASE Arrives(c, [NoCall EXCEPT !.op = "ready", !.stage = "pinging"])
  <2>1. [NoCall EXCEPT !.op = "ready", !.stage = "pinging"] \in CallRecord
    BY PingTyped, Names
  <2>2. PICK u \in CallRecord : u = [NoCall EXCEPT !.op = "ready", !.stage = "pinging"]
    BY <2>1
  <2>3. /\ u.op = "ready" /\ u.stage = "pinging" /\ u.code = None
        /\ u.known = {} /\ u.saw = {}
    BY <2>2 DEF NoCall
  <2>4. Arrives(c, u) /\ StampedBy(c)
    BY <1>2, <2>2 DEF Ready, Greet, StampedBy
  <2> QED
    BY <2>3, <2>4, CallArrives, RequestsAssumption
<1> QED
  BY <1>1, <1>2 DEF Ready, Greet

\* The database executes an insert.
LEMMA InsertKeeps ==
    ASSUME RequestsInv, NEW c \in Calls, Insert(c)
    PROVE  RequestsInv'
<1>1. /\ CallKept(c) /\ CallsTyped /\ RowsKept /\ call[c] \in CallRecord
      /\ call[c].stage = "inserting" /\ up
  BY DEF RequestsInv, CallsTyped, Insert, CallKept, InProcess, Open, InDatabase
<1>2. PICK row \in Row : /\ row = call[c].row /\ row.by = c /\ row.sound
                         /\ rows' = rows \union {row}
  BY <1>1 DEF CallKept, Stored, Insert
<1>3. RowsOf(c) = {} /\ call[c].op = "create"
  BY <1>1 DEF CallKept, Stored
<1>4. /\ call'[c] = [call[c] EXCEPT !.stage = "inserted"]
      /\ UNCHANGED <<world, stamps, counted>>
  BY <1>1 DEF Insert, CallsTyped
<1>5. /\ call'[c] \in CallRecord
      /\ call'[c].stage = "inserted" /\ call'[c].op = "create"
      /\ call'[c].code = call[c].code /\ call'[c].known = call[c].known
      /\ call'[c].saw = call[c].saw
  BY <1>1, <1>3, <1>4 DEF CallRecord, Stage
<1>6. OthersStay(c)
  BY <1>1, <1>4, <1>5 DEF Insert, CallsTyped, OthersStay
<1>7. RowsKept'
  <2>1. rows' \subseteq Row /\ \A r \in rows' : r.sound
    BY <1>1, <1>2 DEF RowsKept
  <2>2. IsFiniteSet(rows')
    BY <1>1, <1>2, FS_AddElement DEF RowsKept
  <2>3. \A r \in rows : r.by # c
    BY <1>3 DEF RowsOf
  <2>4. \A r, s \in rows' : r.by = s.by => r = s
    BY <1>1, <1>2, <2>3 DEF RowsKept
  <2> QED
    BY <2>1, <2>2, <2>4 DEF RowsKept
<1>8. OnlyRowsOf(c) /\ StampedBy(c) /\ CountersTyped'
  BY <1>2, <1>4 DEF OnlyRowsOf, StampedBy, RequestsInv, CountersTyped
<1>9. RowsOf(c)' # {}
  BY <1>2 DEF RowsOf
<1>10. call[c].code = None
  BY <1>1 DEF CallKept, InProcess
<1>11. Stored(c)'
  BY <1>5, <1>9, <1>10, RequestsAssumption DEF Stored
<1>12. Reads(c)' /\ Current(c)'
  BY <1>1, <1>2, <1>5 DEF CallKept, Reads, Current
<1>13. InProcess(c)'
  BY <1>1, <1>4, <1>5, <1>10 DEF InProcess, world
<1> QED
  BY <1>4, <1>6, <1>7, <1>8, <1>11, <1>12, <1>13, OneCallMoves DEF CallKept

\* The newest rows are shown, so one that is left out is older than those shown.
LEMMA ReadKeeps ==
    ASSUME RequestsInv, NEW c \in Calls, Read(c)
    PROVE  RequestsInv'
<1>1. /\ CallKept(c) /\ CallsTyped /\ RowsKept /\ call[c] \in CallRecord
      /\ call[c].stage = "reading" /\ up
  BY DEF RequestsInv, CallsTyped, Read, CallKept, InProcess, Open, InDatabase
<1>2. call[c].op = "list" /\ call[c].arg \in 1..MaxLimit /\ call[c].known \subseteq rows
  BY <1>1 DEF CallKept, Reads
<1>3. PICK listing \in Listings(call[c].arg) :
          call' = [call EXCEPT ![c].stage = "answering", ![c].code = 200,
                               ![c].saw = listing]
  BY DEF Read
<1>4. /\ listing \subseteq rows
      /\ Cardinality(listing) <= MaxLimit
      /\ \A r \in rows \ listing :
            /\ Cardinality(listing) >= call[c].arg
            /\ \A shown \in listing : shown.stamp >= r.stamp
  BY <1>1, <1>2, ListingIsCurrent
<1>5. call'[c] = [call[c] EXCEPT !.stage = "answering", !.code = 200, !.saw = listing]
  BY <1>1, <1>3 DEF CallsTyped
<1>6. /\ call'[c] \in CallRecord
      /\ call'[c].stage = "answering" /\ call'[c].op = "list" /\ call'[c].code = 200
      /\ call'[c].known = call[c].known /\ call'[c].arg = call[c].arg
      /\ call'[c].saw = listing
  <2>1. listing \in SUBSET Row /\ 200 \in Code /\ "answering" \in Stage
    BY <1>1, <1>4, Names DEF RowsKept
  <2>2. call'[c] \in CallRecord
    <3>1. PICK stage \in Stage, code \in Code : stage = "answering" /\ code = 200
      BY <2>1
    <3>2. call'[c] = [call[c] EXCEPT !.stage = stage, !.code = code, !.saw = listing]
      BY <1>5, <3>1
    <3> QED
      BY <1>1, <2>1, <3>2 DEF CallRecord
  <2>3. /\ call'[c].stage = "answering" /\ call'[c].code = 200
        /\ call'[c].op = call[c].op /\ call'[c].known = call[c].known
        /\ call'[c].arg = call[c].arg /\ call'[c].saw = listing
    BY <1>1, <1>5 DEF CallRecord
  <2> QED
    BY <1>2, <2>2, <2>3
<1>7. OthersStay(c)
  BY <1>1, <1>3, <1>6 DEF CallsTyped, OthersStay
<1>8. /\ OnlyRowsOf(c) /\ StampedBy(c) /\ RowsKept' /\ CountersTyped'
      /\ UNCHANGED <<world, rows>>
  BY <1>1 DEF Read, RequestsInv, OnlyRowsOf, StampedBy, RowsKept, CountersTyped
<1>9. Stored(c)'
  BY <1>6 DEF Stored
<1>10. Reads(c)'
  BY <1>2, <1>4, <1>6, <1>8 DEF Reads
<1>11. Current(c)'
  BY <1>2, <1>4, <1>6 DEF Current
<1>12. InProcess(c)'
  BY <1>1, <1>6, <1>8, RequestsAssumption DEF InProcess, world
<1> QED
  BY <1>7, <1>8, <1>9, <1>10, <1>11, <1>12, OneCallMoves DEF CallKept

\* A row the caller knows of is there, and it is the only one of its id.
LEMMA FindKeeps ==
    ASSUME RequestsInv, NEW c \in Calls, Find(c)
    PROVE  RequestsInv'
<1>1. /\ CallKept(c) /\ CallsTyped /\ RowsKept /\ call[c] \in CallRecord
      /\ call[c].stage = "finding" /\ up
  BY DEF RequestsInv, CallsTyped, Find, CallKept, InProcess, Open, InDatabase
<1>2. call[c].op = "get" /\ call[c].known \subseteq rows
  BY <1>1 DEF CallKept, Reads
<1>3. PICK found \in SUBSET Row : found = {r \in rows : r.by = call[c].arg}
  BY <1>1 DEF RowsKept
<1>4. PICK code \in Code : code = IF found = {} THEN 404 ELSE 200
  BY DEF Code
<1>5. call' = [call EXCEPT ![c].stage = "answering", ![c].saw = found, ![c].code = code]
  BY <1>3, <1>4 DEF Find
<1>6. call'[c] = [call[c] EXCEPT !.stage = "answering", !.saw = found, !.code = code]
  BY <1>1, <1>5 DEF CallsTyped
<1>7. /\ call'[c] \in CallRecord
      /\ call'[c].stage = "answering" /\ call'[c].op = "get" /\ call'[c].code = code
      /\ call'[c].known = call[c].known /\ call'[c].arg = call[c].arg
      /\ call'[c].saw = found
  <2>1. PICK stage \in Stage : stage = "answering"
    BY Names
  <2>2. call'[c] \in CallRecord
    <3>1. call'[c] = [call[c] EXCEPT !.stage = stage, !.saw = found, !.code = code]
      BY <1>6, <2>1
    <3> QED
      BY <1>1, <3>1 DEF CallRecord
  <2>3. /\ call'[c].stage = "answering" /\ call'[c].code = code
        /\ call'[c].op = call[c].op /\ call'[c].known = call[c].known
        /\ call'[c].arg = call[c].arg /\ call'[c].saw = found
    BY <1>1, <1>6 DEF CallRecord
  <2> QED
    BY <1>2, <2>2, <2>3
<1>8. OthersStay(c)
  BY <1>1, <1>5, <1>7 DEF CallsTyped, OthersStay
<1>9. /\ OnlyRowsOf(c) /\ StampedBy(c) /\ RowsKept' /\ CountersTyped'
      /\ UNCHANGED <<world, rows>>
  BY <1>1 DEF Find, RequestsInv, OnlyRowsOf, StampedBy, RowsKept, CountersTyped
<1>10. Stored(c)'
  BY <1>4, <1>7 DEF Stored
<1>11. Reads(c)'
  BY <1>2, <1>3, <1>7, <1>9 DEF Reads
<1>12. \A r \in call[c].known : r.by = call[c].arg => found = {r}
  BY <1>1, <1>2, <1>3 DEF RowsKept
<1>13. Current(c)'
  BY <1>7, <1>12 DEF Current
<1>14. InProcess(c)'
  BY <1>1, <1>4, <1>7, <1>9, RequestsAssumption DEF InProcess, world
<1> QED
  BY <1>8, <1>9, <1>10, <1>11, <1>13, <1>14, OneCallMoves DEF CallKept

\* A handler hears of its insert, of the ping, or of an error, or its client leaves.
LEMMA HeardKeeps ==
    ASSUME RequestsInv, NEW c \in Calls,
           Acknowledge(c) \/ Ping(c) \/ DatabaseFails(c) \/ Cancel(c)
    PROVE  RequestsInv'
<1>1. CallKept(c)
  BY DEF RequestsInv
<1>2. CASE Acknowledge(c)
  <2>1. PICK raised \in BOOLEAN :
        /\ call[c].stage = "inserted" /\ Answered(c, 201, raised)
        /\ UNCHANGED <<world, stamps, rows, counted>>
    BY <1>2 DEF Acknowledge
  <2>2. call[c].op = "create" /\ RowsOf(c) # {}
    BY <1>1, <2>1 DEF CallKept, Stored
  <2>3. /\ 201 \in Code /\ call[c].stage \in InDatabase
        /\ 201 \notin {400, 422} /\ 201 \notin {200, 404}
    BY <2>1 DEF Code, InDatabase
  <2> QED
    BY <2>1, <2>2, <2>3, HandlerAnswers
<1>3. CASE Ping(c)
  <2>1. PICK code \in {200, 503}, raised \in BOOLEAN :
            /\ call[c].stage = "pinging" /\ Answered(c, code, raised)
            /\ UNCHANGED <<world, stamps, rows, counted>>
    BY <1>3 DEF Ping
  <2>2. call[c].op = "ready"
    BY <1>1, <2>1 DEF CallKept, Reads
  <2>3. /\ code \in Code /\ call[c].stage \in InDatabase
        /\ code \notin {400, 422} /\ code # 201
    BY <2>1 DEF Code, InDatabase
  <2> QED
    BY <2>1, <2>2, <2>3, HandlerAnswers
<1>4. CASE DatabaseFails(c) \/ Cancel(c)
  <2>1. PICK raised \in BOOLEAN :
            /\ call[c].stage \in {"inserting", "inserted", "reading", "finding"}
            /\ Answered(c, 500, raised)
            /\ UNCHANGED <<world, stamps, rows, counted>>
    BY <1>4 DEF DatabaseFails, Cancel, Failing, Propagates
  <2> QED
    BY <2>1, HandlerAnswers DEF Code, InDatabase
<1> QED
  BY <1>2, <1>3, <1>4

\* The middleware counts every call once, under a code it was answered with or
\* under one of those of an exception, but for what anomaly-ai's handlers raised.
LEMMA CountedOnce ==
    ASSUME RequestsInv, NEW c \in Calls, Answer(c)
    PROVE  LET k == EndpointOf(call[c].op)
           IN  IF call[c].raised /\ service = "anomaly-ai" THEN counted' = counted
               ELSE \E code \in Code :
                       /\ counted' = [counted EXCEPT ![k][code] = @ + 1]
                       /\ ~call[c].raised => code = call[c].code
<1>1. call[c].code \in Code
  BY DEF Answer, RequestsInv, CallsTyped, CallRecord, CallKept, InProcess
<1>2. CountedAs(c) \subseteq Code
  BY <1>1 DEF CountedAs, Code
<1>3. CASE call[c].raised /\ service = "anomaly-ai"
  BY <1>3 DEF Answer, CountedAs
<1>4. CASE ~(call[c].raised /\ service = "anomaly-ai")
  <2>1. CountedAs(c) = IF ~call[c].raised THEN {call[c].code} ELSE {200, 500}
    BY <1>4 DEF CountedAs
  <2>2. CountedAs(c) # {}
    BY <2>1
  <2>3. counted' \in {[counted EXCEPT ![EndpointOf(call[c].op)][code] = @ + 1] :
                         code \in CountedAs(c)}
    BY <2>2, Zenon DEF Answer
  <2>4. PICK code \in CountedAs(c) :
            counted' = [counted EXCEPT ![EndpointOf(call[c].op)][code] = @ + 1]
    BY <2>3
  <2>5. code \in Code /\ (~call[c].raised => code = call[c].code)
    BY <1>2, <2>1, <2>4
  <2> QED
    BY <1>4, <2>4, <2>5
<1> QED
  BY <1>3, <1>4

\* The middleware counts the answer and leaves it as it is.
LEMMA AnswerKeeps ==
    ASSUME RequestsInv, NEW c \in Calls, Answer(c)
    PROVE  /\ RequestsInv'
           /\ OthersStay(c)
           /\ call'[c].stage = "done" /\ call'[c].op = call[c].op
           /\ call'[c].code = call[c].code /\ call'[c].raised = call[c].raised
           /\ call'[c].here = TRUE
<1>1. /\ CallKept(c) /\ CallsTyped /\ RowsKept /\ call[c] \in CallRecord
      /\ call[c].stage = "answering" /\ up
      /\ UNCHANGED <<world, stamps, rows>>
  BY DEF RequestsInv, CallsTyped, Answer, CallKept, InProcess, Open
<1>2. PICK op \in Op, code \in Code \union {None}, raised \in BOOLEAN :
          op = call[c].op /\ code = call[c].code /\ raised = call[c].raised
  BY <1>1 DEF CallRecord
<1>3. call' = [call EXCEPT ![c] = [NoCall EXCEPT !.stage = "done", !.op = op,
                        !.code = code, !.raised = raised, !.here = TRUE]]
  BY <1>2 DEF Answer
<1>4. call'[c] = [NoCall EXCEPT !.stage = "done", !.op = op, !.code = code,
                                !.raised = raised, !.here = TRUE]
  BY <1>1, <1>3 DEF CallsTyped
<1>5. call'[c] \in CallRecord
  <2>1. \A k \in CallRecord, stage \in Stage, here \in BOOLEAN :
            [k EXCEPT !.stage = stage, !.op = op, !.code = code, !.raised = raised,
                      !.here = here] \in CallRecord
    BY DEF CallRecord
  <2>2. NoCall \in CallRecord /\ "done" \in Stage /\ TRUE \in BOOLEAN
    BY NoCallTyped DEF Stage
  <2> QED
    BY <1>4, <2>1, <2>2
<1>6. /\ call'[c].stage = "done" /\ call'[c].op = op /\ call'[c].code = code
      /\ call'[c].raised = raised /\ call'[c].here = TRUE
      /\ call'[c].known = {} /\ call'[c].saw = {}
  BY <1>4 DEF NoCall
<1>7. OthersStay(c)
  BY <1>1, <1>3, <1>5 DEF CallsTyped, OthersStay
<1>8. CountersTyped'
  <2>1. CountersTyped
    BY DEF RequestsInv
  <2>2. EndpointOf(call[c].op) \in Endpoint
    BY DEF EndpointOf, Endpoint
  <2>4. \/ counted' = counted
        \/ \E number \in Code :
               counted' = [counted EXCEPT ![EndpointOf(call[c].op)][number] = @ + 1]
    BY CountedOnce
  <2>5. CASE counted' = counted
    BY <2>1, <2>5 DEF CountersTyped
  <2>6. ASSUME NEW number \in Code, NEW k \in Endpoint,
               counted' = [counted EXCEPT ![k][number] = @ + 1]
        PROVE  CountersTyped'
    BY <2>1, <2>6 DEF CountersTyped
  <2> QED
    BY <2>2, <2>4, <2>5, <2>6
<1>9. OnlyRowsOf(c) /\ StampedBy(c) /\ RowsKept'
  BY <1>1 DEF OnlyRowsOf, StampedBy, RowsKept
<1>10. RowsOf(c)' = RowsOf(c)
  BY <1>1 DEF RowsOf
<1>11. Stored(c)'
  BY <1>1, <1>2, <1>6, <1>10 DEF CallKept, Stored
<1>12. Reads(c)' /\ Current(c)'
  BY <1>6 DEF Reads, Current
<1>13. InProcess(c)'
  BY <1>1, <1>2, <1>6 DEF CallKept, InProcess, Open, InDatabase
<1>14. RequestsInv'
  BY <1>1, <1>7, <1>8, <1>9, <1>11, <1>12, <1>13, OneCallMoves DEF CallKept
<1> QED
  BY <1>2, <1>6, <1>7, <1>14

\* The process dies, and every call it had is lost.
LEMMA KillKeeps ==
    ASSUME RequestsInv, Kill
    PROVE  /\ RequestsInv'
           /\ \A c \in Calls : call'[c].stage = "done" => call'[c].here = FALSE
<1>1. /\ CallsTyped /\ up' = FALSE /\ kills < MaxKills /\ kills' = kills + 1
      /\ counted' = [k \in Endpoint |-> [code \in Code |-> 0]]
      /\ UNCHANGED <<service, stamps, rows, db_up, outages>>
  BY DEF Kill, RequestsInv
<1>2. WorldTyped' /\ Stamped' /\ CountersTyped' /\ RowsKept'
  <2>1. kills' \in 0..MaxKills
    BY <1>1, RequestsAssumption DEF RequestsInv, WorldTyped
  <2>2. WorldTyped'
    BY <1>1, <2>1 DEF RequestsInv, WorldTyped
  <2>3. CountersTyped'
    BY <1>1 DEF CountersTyped
  <2>4. Stamped' /\ RowsKept'
    BY <1>1 DEF RequestsInv, Stamped, RowsKept
  <2> QED
    BY <2>2, <2>3, <2>4
<1>3. ASSUME NEW c \in Calls
      PROVE  /\ call'[c] \in CallRecord /\ CallKept(c)'
             /\ call'[c].stage = "done" => call'[c].here = FALSE
  <2>1. CallKept(c) /\ call[c] \in CallRecord
    BY DEF RequestsInv, CallsTyped
  <2>2. RowsOf(c)' = RowsOf(c)
    BY <1>1 DEF RowsOf
  <2>3. call'[c] = IF Open(c) THEN [NoCall EXCEPT !.stage = "lost"]
                   ELSE [call[c] EXCEPT !.here = FALSE]
    BY DEF Kill
  <2>4. CASE Open(c)
    <3>1. /\ call'[c].stage = "lost" /\ call'[c].code = None /\ call'[c].op = None
          /\ call'[c].known = {} /\ call'[c].saw = {}
      BY <2>3, <2>4 DEF NoCall
    <3>2. call'[c] \in CallRecord
      BY <2>3, <2>4, NoCallTyped DEF CallRecord, Stage
    <3> QED
      BY <3>1, <3>2, RequestsAssumption
         DEF CallKept, Stored, Reads, Current, InProcess, Open, InDatabase, Code
  <2>5. CASE ~Open(c)
    <3>1. call'[c] = [call[c] EXCEPT !.here = FALSE]
      BY <2>3, <2>5
    <3>2. /\ call'[c].stage = call[c].stage /\ call'[c].code = call[c].code
          /\ call'[c].op = call[c].op /\ call'[c].row = call[c].row
          /\ call'[c].arg = call[c].arg
          /\ call'[c].known = call[c].known /\ call'[c].saw = call[c].saw
          /\ call'[c].here = FALSE
      BY <2>1, <3>1 DEF CallRecord
    <3>3. call'[c] \in CallRecord
      BY <2>1, <3>1 DEF CallRecord
    <3>4. Stored(c)' /\ Reads(c)' /\ Current(c)'
      BY <1>1, <2>1, <2>2, <3>2 DEF CallKept, Stored, Reads, Current
    <3>5. InProcess(c)'
      BY <2>1, <2>5, <3>2 DEF CallKept, InProcess, Open
    <3> QED
      BY <3>2, <3>3, <3>4, <3>5 DEF CallKept
  <2> QED
    BY <2>4, <2>5
<1>4. CallsTyped'
  <2>1. call' = [c \in Calls |-> call'[c]]
    BY DEF Kill
  <2> QED
    BY <1>3, <2>1 DEF CallsTyped
<1> QED
  BY <1>2, <1>3, <1>4 DEF RequestsInv

\* The process comes back, the database goes and comes, or nothing happens.
LEMMA WorldMoves ==
    ASSUME RequestsInv,
           Restart \/ DatabaseGoes \/ DatabaseComes \/ UNCHANGED vars
    PROVE  RequestsInv' /\ UNCHANGED <<service, call, counted>>
<1>1. /\ UNCHANGED <<service, call, stamps, rows, counted>>
      /\ up => up'
  BY DEF Restart, DatabaseGoes, DatabaseComes, vars, world
<1>2. WorldTyped'
  <2>1. WorldTyped
    BY DEF RequestsInv
  <2>2. CASE Restart
    BY <2>1, <2>2 DEF Restart, WorldTyped
  <2>3. CASE DatabaseGoes
    <3>1. /\ db_up' = FALSE /\ outages < MaxOutages /\ outages' = outages + 1
          /\ UNCHANGED <<service, up, kills>>
      BY <2>3 DEF DatabaseGoes
    <3>2. outages' \in 0..MaxOutages
      BY <2>1, <3>1, RequestsAssumption DEF WorldTyped
    <3> QED
      BY <2>1, <3>1, <3>2 DEF WorldTyped
  <2>4. CASE DatabaseComes
    BY <2>1, <2>4 DEF DatabaseComes, WorldTyped
  <2>5. CASE UNCHANGED vars
    BY <2>1, <2>5 DEF vars, world, WorldTyped
  <2> QED
    BY <2>2, <2>3, <2>4, <2>5
<1>3. Stamped' /\ CountersTyped' /\ CallsTyped' /\ RowsKept'
  BY <1>1 DEF RequestsInv, Stamped, CountersTyped, CallsTyped, RowsKept
<1>4. ASSUME NEW c \in Calls
      PROVE  CallKept(c)'
  <2>1. CallKept(c) /\ call'[c] = call[c] /\ RowsOf(c)' = RowsOf(c)
    BY <1>1 DEF RequestsInv, RowsOf
  <2>2. Stored(c)' /\ Reads(c)' /\ Current(c)'
    BY <1>1, <2>1 DEF CallKept, Stored, Reads, Current
  <2>3. InProcess(c)'
    BY <1>1, <2>1 DEF CallKept, InProcess, Open
  <2> QED
    BY <2>2, <2>3 DEF CallKept
<1> QED
  BY <1>1, <1>2, <1>3, <1>4 DEF RequestsInv

\* The rows from before are valid, and no call has come in.
LEMMA InitHolds == Init => RequestsInv
<1> SUFFICES ASSUME Init
             PROVE  RequestsInv
  OBVIOUS
<1> USE RequestsAssumption
<1>1. PICK n \in 0..MaxOld :
          rows = {[by |-> -i, sound |-> TRUE, stamp |-> 0] : i \in 1..n}
  BY DEF Init
<1>2. /\ call = [c \in Calls |-> NoCall] /\ stamps = 0
      /\ counted = [k \in Endpoint |-> [code \in Code |-> 0]]
  BY DEF Init
<1>3. WorldTyped
  BY DEF Init, WorldTyped
<1>4. Stamped /\ CountersTyped /\ CallsTyped
  BY <1>2, NoCallTyped DEF Stamped, CountersTyped, CallsTyped
<1>5. RowsKept
  <2>1. ASSUME NEW r \in rows
        PROVE  /\ r \in Row /\ r.sound
               /\ \A s \in rows : r.by = s.by => r = s
    <3>1. PICK i \in 1..n : r = [by |-> -i, sound |-> TRUE, stamp |-> 0]
      BY <1>1
    <3>2. r \in Row /\ r.sound
      BY <3>1 DEF Row
    <3>3. ASSUME NEW s \in rows, r.by = s.by
          PROVE  r = s
      <4>1. PICK j \in 1..n : s = [by |-> -j, sound |-> TRUE, stamp |-> 0]
        BY <1>1
      <4>2. i = j
        BY <3>1, <3>3, <4>1
      <4> QED
        BY <3>1, <4>1, <4>2
    <3> QED
      BY <3>2, <3>3
  <2>2. IsFiniteSet(rows)
    <3>1. IsFiniteSet(1..n)
      BY FS_Interval
    <3> DEFINE f == [i \in 1..n |-> [by |-> -i, sound |-> TRUE, stamp |-> 0]]
    <3>2. f \in Surjection(1..n, rows)
      BY <1>1 DEF Surjection
    <3> QED
      BY <3>1, <3>2, FS_Surjection
  <2> QED
    BY <2>1, <2>2 DEF RowsKept
<1>6. ASSUME NEW c \in Calls
      PROVE  CallKept(c)
  <2>1. RowsOf(c) = {}
    BY <1>1 DEF RowsOf, Calls
  <2>2. call[c] = NoCall
    BY <1>2
  <2>3. Stored(c)
    BY <1>2, <2>1, <2>2, NoCallTyped DEF Stored, Calls
  <2> QED
    BY <2>2, <2>3, NoCallTyped
       DEF CallKept, Reads, Current, InProcess, Open, InDatabase
<1> QED
  BY <1>3, <1>4, <1>5, <1>6 DEF RequestsInv

\* Every step keeps what is true of calls and rows.
LEMMA StepKeeps ==
    ASSUME RequestsInv, [Next]_vars
    PROVE  RequestsInv'
<1>1. ASSUME NEW c \in Calls, Ask(c) \/ Serve(c)
      PROVE  RequestsInv'
  BY <1>1, CreateKeeps, ListKeeps, GetKeeps, ReadyKeeps, InsertKeeps, ReadKeeps,
     FindKeeps, HeardKeeps, AnswerKeeps DEF Ask, Serve
<1> QED
  BY <1>1, KillKeeps, WorldMoves DEF Next

\* What the process, the database and the clients together keep true of the calls
\* and the rows.
THEOREM RequestsInvHolds == Spec => []RequestsInv
  BY InitHolds, StepKeeps, PTL DEF Spec

\* The types; no call is in process without a process.
THEOREM TypesHold == Spec => []TypeOK
<1>1. RequestsInv => TypeOK
  <2> SUFFICES ASSUME RequestsInv
               PROVE  TypeOK
    OBVIOUS
  <2>1. ASSUME NEW c \in Calls
        PROVE  /\ call[c].stage \in Stage
               /\ call[c].row \in Row \union {None}
               /\ call[c].code \in Code \union {None}
               /\ Open(c) => up
               /\ (call[c].code # None) = (call[c].stage \in {"answering", "done"})
    BY DEF RequestsInv, CallsTyped, CallRecord, CallKept, InProcess
  <2> QED
    BY <2>1 DEF RequestsInv, WorldTyped, Stamped, CountersTyped, RowsKept, TypeOK
<1> QED
  BY <1>1, RequestsInvHolds, PTL

\* 201 means one row that stays, 4xx none, and whatever is stored is valid,
\* through outages, lost acknowledgements, clients that leave and deaths of the
\* process (EventsController.cs, handlers.go, main.py).
THEOREM AnswersAreTrue == Spec => []AnswerTellsTheTruth
<1>1. RequestsInv => AnswerTellsTheTruth
  <2> SUFFICES ASSUME RequestsInv
               PROVE  AnswerTellsTheTruth
    OBVIOUS
  <2>1. \A r \in rows : r.sound
    BY DEF RequestsInv, RowsKept
  <2>2. ASSUME NEW c \in Calls, call[c].code = 201
        PROVE  Cardinality(RowsOf(c)) = 1
    <3>1. PICK r \in rows : r.by = c
      BY <2>2 DEF RequestsInv, CallKept, Stored, RowsOf
    <3>2. RowsOf(c) = {r}
      BY <3>1 DEF RequestsInv, RowsKept, RowsOf
    <3> QED
      BY <3>2, FS_Singleton
  <2>3. ASSUME NEW c \in Calls, call[c].op = "create", call[c].code \in {400, 422}
        PROVE  RowsOf(c) = {}
    BY <2>3 DEF RequestsInv, CallKept, Stored
  <2> QED
    BY <2>1, <2>2, <2>3 DEF AnswerTellsTheTruth
<1> QED
  BY <1>1, RequestsInvHolds, PTL

\* A listing shows what its caller knows of, or is full of rows no older; it keeps
\* to the cap; a row its caller knows of is found by its id
\* (EventRepository.cs, repository.go, repositories.py).
THEOREM ReadsSeeWhatIsKnown == Spec => []ReadsAreCurrent
<1>1. RequestsInv => ReadsAreCurrent
  BY DEF RequestsInv, CallKept, Reads, Current, ReadsAreCurrent
<1> QED
  BY <1>1, RequestsInvHolds, PTL

-----------------------------------------------------------------------------
(* The counters. *)

\* The answers of this process of kind k: those its handlers made with a code, and
\* those the middleware counts.
Coded(k, code) == {c \in AnsweredHere(k) : ~call[c].raised /\ call[c].code = code}
Tallied(k) == {c \in AnsweredHere(k) : call[c].raised => service # "anomaly-ai"}

\* CountersAgree is inductive as it stands; these are its two halves.
ByCode == \A k \in Endpoint, code \in Code : counted[k][code] >= Cardinality(Coded(k, code))
InTotal == \A k \in Endpoint : Total(k) = Cardinality(Tallied(k))

\* There are finitely many calls.
LEMMA CallsFinite ==
    ASSUME NEW S \in SUBSET Calls
    PROVE  IsFiniteSet(S) /\ Cardinality(S) \in Nat
<1>1. IsFiniteSet(Calls)
  BY FS_Interval, RequestsAssumption DEF Calls
<1> QED
  BY <1>1, FS_Subset, FS_CardinalityType

\* As long as no answer goes out and none is forgotten, the answers stay the same.
LEMMA SameAnswers ==
    ASSUME UNCHANGED <<service, counted>>,
           \A c \in Calls : /\ call'[c].stage = "done" <=> call[c].stage = "done"
                            /\ call[c].stage = "done" => call'[c] = call[c],
           ByCode, InTotal
    PROVE  ByCode' /\ InTotal'
<1>1. ASSUME NEW k
      PROVE  AnsweredHere(k)' = AnsweredHere(k)
  <2>1. \A c \in Calls : c \in AnsweredHere(k)' <=> c \in AnsweredHere(k)
    <3> SUFFICES ASSUME NEW c \in Calls
                 PROVE  c \in AnsweredHere(k)' <=> c \in AnsweredHere(k)
      OBVIOUS
    <3>1. CASE call[c].stage = "done"
      <4>1. call'[c] = call[c] /\ call'[c].stage = "done"
        BY <3>1
      <4> QED
        BY <4>1 DEF AnsweredHere, Over
    <3>2. CASE call[c].stage # "done"
      <4>1. call'[c].stage # "done"
        BY <3>2
      <4> QED
        BY <3>2, <4>1 DEF AnsweredHere, Over
    <3> QED
      BY <3>1, <3>2
  <2>2. AnsweredHere(k) \subseteq Calls /\ AnsweredHere(k)' \subseteq Calls
    BY DEF AnsweredHere
  <2> QED
    BY <2>1, <2>2
<1>2. \A k : \A c \in AnsweredHere(k) : call'[c] = call[c]
  BY DEF AnsweredHere, Over
<1>3. \A k, code : Coded(k, code)' = Coded(k, code)
  BY <1>1, <1>2 DEF Coded
<1>4. \A k : Tallied(k)' = Tallied(k)
  BY <1>1, <1>2 DEF Tallied
<1> QED
  BY <1>3, <1>4 DEF ByCode, InTotal, Total

\* Only Answer ends a call, and only the end of the process forgets an answer.
LEMMA OthersEndNothing ==
    ASSUME RequestsInv, NEW c \in Calls,
           Ask(c) \/ Serve(c), ~Answer(c)
    PROVE  /\ UNCHANGED <<service, counted>>
           /\ \A d \in Calls : /\ call'[d].stage = "done" <=> call[d].stage = "done"
                               /\ call[d].stage = "done" => call'[d] = call[d]
<1>1. CallsTyped /\ call[c] \in CallRecord
  BY DEF RequestsInv, CallsTyped
<1> SUFFICES /\ UNCHANGED <<service, counted>>
             /\ \A d \in Calls \ {c} : call'[d] = call[d]
             /\ call[c].stage # "done" /\ call'[c].stage # "done"
  OBVIOUS
<1>2. ASSUME NEW update, Arrives(c, update), update.stage # "done"
      PROVE  /\ UNCHANGED <<service, counted>>
             /\ \A d \in Calls \ {c} : call'[d] = call[d]
             /\ call[c].stage # "done" /\ call'[c].stage # "done"
  BY <1>1, <1>2 DEF Arrives, CallsTyped, world
<1>3. CASE \E body \in Bodies(service) : Create(c, body)
  BY <1>2, <1>3 DEF Create, NoCall
<1>4. CASE \E limit \in Limits : List(c, limit)
  BY <1>2, <1>4 DEF List, NoCall
<1>5. CASE \E id \in Calls \union {-1} : Get(c, id)
  BY <1>2, <1>5 DEF Get, NoCall
<1>6. CASE Ready(c) \/ Greet(c)
  BY <1>2, <1>6 DEF Ready, Greet, NoCall
<1>7. CASE Acknowledge(c) \/ Ping(c) \/ DatabaseFails(c) \/ Cancel(c)
  BY <1>1, <1>7 DEF Acknowledge, Ping, DatabaseFails, Failing, Cancel, Answered,
                    CallsTyped, CallRecord, world
<1>8. CASE Insert(c)
  <2>1. call[c].stage = "inserting" /\ UNCHANGED <<service, counted>>
    BY <1>8 DEF Insert, world
  <2>2. call'[c].stage = "inserted" /\ \A d \in Calls \ {c} : call'[d] = call[d]
    BY <1>1, <1>8 DEF Insert, CallsTyped, CallRecord
  <2> QED
    BY <2>1, <2>2
<1>9. CASE Read(c)
  <2>1. call[c].stage = "reading" /\ UNCHANGED <<service, counted>>
    BY <1>9 DEF Read, world
  <2>2. PICK listing : call' = [call EXCEPT ![c].stage = "answering", ![c].code = 200,
                                            ![c].saw = listing]
    BY <1>9 DEF Read
  <2>3. call'[c].stage = "answering" /\ \A d \in Calls \ {c} : call'[d] = call[d]
    BY <1>1, <2>2 DEF CallsTyped, CallRecord
  <2> QED
    BY <2>1, <2>3
<1>10. CASE Find(c)
  <2>1. call[c].stage = "finding" /\ UNCHANGED <<service, counted>>
    BY <1>10 DEF Find, world
  <2>2. PICK found, code : call' = [call EXCEPT ![c].stage = "answering",
                                        ![c].saw = found, ![c].code = code]
    BY <1>10 DEF Find
  <2>3. call'[c].stage = "answering" /\ \A d \in Calls \ {c} : call'[d] = call[d]
    BY <1>1, <2>2 DEF CallsTyped, CallRecord
  <2> QED
    BY <2>1, <2>3
<1> QED
  BY <1>3, <1>4, <1>5, <1>6, <1>7, <1>8, <1>9, <1>10 DEF Ask, Serve

\* An answer is added to one counter, which is the one of its code, unless its
\* handler raised.
LEMMA AnswerCounts ==
    ASSUME RequestsInv, ByCode, InTotal, NEW c \in Calls, Answer(c)
    PROVE  ByCode' /\ InTotal'
<1> DEFINE k0 == EndpointOf(call[c].op)
<1>1. /\ OthersStay(c) /\ UNCHANGED service
      /\ call[c].stage = "answering" /\ call[c].code \in Code \union {None}
      /\ call'[c].stage = "done" /\ call'[c].op = call[c].op
      /\ call'[c].code = call[c].code /\ call'[c].raised = call[c].raised
      /\ call'[c].here = TRUE
  BY AnswerKeeps DEF Answer, world, RequestsInv, CallsTyped, CallRecord
<1>2. \A k : AnsweredHere(k)' = IF k = k0 THEN AnsweredHere(k) \union {c}
                                          ELSE AnsweredHere(k)
  BY <1>1 DEF AnsweredHere, Over, OthersStay
<1>3. \A k : c \notin AnsweredHere(k)
  BY <1>1 DEF AnsweredHere, Over
<1>4. \A k : AnsweredHere(k) \subseteq Calls
  BY DEF AnsweredHere
<1> HIDE DEF k0
<1>5. \A k, code : Coded(k, code)' =
          IF k = k0 /\ ~call[c].raised /\ call[c].code = code
             THEN Coded(k, code) \union {c} ELSE Coded(k, code)
  BY <1>1, <1>2, <1>3, <1>4 DEF Coded, OthersStay
<1>6. \A k : Tallied(k)' =
          IF k = k0 /\ (call[c].raised => service # "anomaly-ai")
             THEN Tallied(k) \union {c} ELSE Tallied(k)
  BY <1>1, <1>2, <1>3, <1>4 DEF Tallied, OthersStay
<1>7. \A S \in SUBSET Calls : c \notin S =>
          /\ Cardinality(S) \in Nat
          /\ Cardinality(S \union {c}) = Cardinality(S) + 1
  BY CallsFinite, FS_AddElement
<1>8. \A k, code : /\ Coded(k, code) \in SUBSET Calls /\ c \notin Coded(k, code)
                   /\ Tallied(k) \in SUBSET Calls /\ c \notin Tallied(k)
  BY <1>3, <1>4 DEF Coded, Tallied
<1>9. CASE call[c].raised /\ service = "anomaly-ai"
  <2>1. counted' = counted
    BY <1>9, CountedOnce
  <2> QED
    BY <1>5, <1>6, <1>9, <2>1 DEF ByCode, InTotal, Total
<1>10. CASE ~(call[c].raised /\ service = "anomaly-ai")
  <2>1. PICK number \in Code :
            /\ counted' = [counted EXCEPT ![k0][number] = @ + 1]
            /\ ~call[c].raised => number = call[c].code
    BY <1>10, CountedOnce DEF k0
  <2>2. k0 \in Endpoint /\ counted \in [Endpoint -> [Code -> Nat]]
    BY DEF k0, EndpointOf, Endpoint, RequestsInv, CountersTyped
  <2>3. \A k \in Endpoint, code \in Code :
            /\ counted[k][code] \in Nat
            /\ counted'[k][code] = IF k = k0 /\ code = number THEN counted[k][code] + 1
                                                             ELSE counted[k][code]
    BY <2>1, <2>2
  <2>4. ByCode'
    <3> SUFFICES ASSUME NEW k \in Endpoint, NEW code \in Code
                 PROVE  counted'[k][code] >= Cardinality(Coded(k, code)')
      BY DEF ByCode
    <3>1. counted[k][code] >= Cardinality(Coded(k, code))
      BY DEF ByCode
    <3>2. Cardinality(Coded(k, code)) \in Nat
      BY <1>7, <1>8
    <3>3. CASE k = k0 /\ ~call[c].raised /\ call[c].code = code
      <4>1. Cardinality(Coded(k, code)') = Cardinality(Coded(k, code)) + 1
        BY <1>5, <1>7, <1>8, <3>3
      <4>2. code = number
        BY <2>1, <3>3
      <4> QED
        BY <2>3, <3>1, <3>2, <3>3, <4>1, <4>2
    <3>4. CASE ~(k = k0 /\ ~call[c].raised /\ call[c].code = code)
      <4>1. Coded(k, code)' = Coded(k, code)
        BY <1>5, <3>4
      <4> QED
        BY <2>3, <3>1, <3>2, <4>1
    <3> QED
      BY <3>3, <3>4
  <2>5. InTotal'
    <3> SUFFICES ASSUME NEW k \in Endpoint
                 PROVE  Total(k)' = Cardinality(Tallied(k)')
      BY DEF InTotal
    <3>1. Total(k) = Cardinality(Tallied(k))
      BY DEF InTotal
    <3>2. CASE k = k0
      <4>1. Total(k)' = Total(k) + 1
        BY <2>3, <3>2 DEF Total, Code
      <4>2. Cardinality(Tallied(k)') = Cardinality(Tallied(k)) + 1
        BY <1>6, <1>7, <1>8, <1>10, <3>2
      <4> QED
        BY <3>1, <4>1, <4>2
    <3>3. CASE k # k0
      <4>1. Total(k)' = Total(k)
        BY <2>3, <3>3 DEF Total, Code
      <4>2. Tallied(k)' = Tallied(k)
        BY <1>6, <3>3
      <4> QED
        BY <3>1, <4>1, <4>2
    <3> QED
      BY <3>2, <3>3
  <2> QED
    BY <2>4, <2>5
<1> QED
  BY <1>9, <1>10

\* A process that is gone has answered nothing and counts from zero.
LEMMA KillForgets ==
    ASSUME RequestsInv, Kill
    PROVE  ByCode' /\ InTotal'
<1>1. \A k : AnsweredHere(k)' = {}
  BY KillKeeps DEF AnsweredHere, Over
<1>2. \A k, code : Coded(k, code)' = {} /\ Tallied(k)' = {}
  BY <1>1 DEF Coded, Tallied
<1>3. counted' = [k \in Endpoint |-> [code \in Code |-> 0]]
  BY DEF Kill
<1> QED
  BY <1>2, <1>3, FS_EmptySet DEF ByCode, InTotal, Total, Code

\* The counters say what this process answered: every code a handler gave, and in
\* total every answer but those anomaly-ai's handlers raised
\* (main.py:record_metrics, events-api-slo-rules.yaml:18-20).
THEOREM CountersTellTheAnswers == Spec => []CountersAgree
<1>1. Init => ByCode /\ InTotal
  <2> SUFFICES ASSUME Init
               PROVE  ByCode /\ InTotal
    OBVIOUS
  <2>1. \A k : AnsweredHere(k) = {}
    BY NoCallTyped DEF Init, AnsweredHere, Over
  <2>2. \A k, code : Coded(k, code) = {} /\ Tallied(k) = {}
    BY <2>1 DEF Coded, Tallied
  <2>3. counted = [k \in Endpoint |-> [code \in Code |-> 0]]
    BY DEF Init
  <2> QED
    BY <2>2, <2>3, FS_EmptySet DEF ByCode, InTotal, Total, Code
<1>2. RequestsInv /\ ByCode /\ InTotal /\ [Next]_vars => ByCode' /\ InTotal'
  <2> SUFFICES ASSUME RequestsInv, ByCode, InTotal, [Next]_vars
               PROVE  ByCode' /\ InTotal'
    OBVIOUS
  <2>1. ASSUME NEW c \in Calls, Ask(c) \/ Serve(c)
        PROVE  ByCode' /\ InTotal'
    <3>1. CASE Answer(c)
      BY <3>1, AnswerCounts
    <3>2. CASE ~Answer(c)
      BY <2>1, <3>2, OthersEndNothing, SameAnswers
    <3> QED
      BY <3>1, <3>2
  <2>2. CASE Restart \/ DatabaseGoes \/ DatabaseComes \/ UNCHANGED vars
    <3>1. UNCHANGED <<service, call, counted>>
      BY <2>2, WorldMoves
    <3> QED
      BY <3>1, SameAnswers
  <2> QED
    BY <2>1, <2>2, KillForgets DEF Next
<1>3. ByCode /\ InTotal => CountersAgree
  BY DEF ByCode, InTotal, CountersAgree, Coded, Tallied
<1> QED
  BY <1>1, <1>2, <1>3, RequestsInvHolds, PTL DEF Spec

=============================================================================
