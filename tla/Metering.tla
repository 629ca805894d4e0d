------------------------------- MODULE Metering -------------------------------
(***************************************************************************)
(* The collector's hot path: httpapi.Middleware meters a request with the  *)
(* current ledger, prices it with meter.Pricer, has store.RecordRequest    *)
(* insert its row, and only then calls the wrapped handler.                *)
(*                                                                         *)
(* Requests run concurrently with each other, with the ledger, and with    *)
(* the operator publishing new prices in the price_book contract.  The     *)
(* Catalog a Pricer is built from is immutable: a service prices with the  *)
(* versions that were published when it started.                           *)
(*                                                                         *)
(*   pc[r]   "new"     not received                                        *)
(*           "ledger"  RequestInfo accepted, CurrentLedger under way       *)
(*           "price"   ledger observed                                     *)
(*           "insert"  INSERT sent to PostgreSQL                           *)
(*           "reply"   row committed, answer not yet back                  *)
(*           "orphan"  INSERT still at work, request already answered      *)
(*           "end"     over                                                *)
(***************************************************************************)
EXTENDS PriceBook, Leaf

CONSTANTS
    Request,      \* HTTP requests; a client's retry is another one
    Route,        \* the routes that are metered, [method, path]
    Call,         \* what clients send, [route, info]
    MaxLedger,    \* bound: the last ledger of a behaviour
    MaxUnits,     \* the largest unit count a BIGINT holds
    MaxInteger,   \* the largest version or ledger an INTEGER holds
    MaxNumeric    \* the largest amount a NUMERIC(39, 0) holds

Version == DOMAIN Document

\* RequestInfo.  A consumer or channel that is not the empty string is "set".
Info == [consumer : {"", "set"}, channel : {"", "set"},
         protocol : {"x402", "mpp_charge", "mpp_session", "other"}]

ASSUME ConstantsAssumption ==
    /\ Version \subseteq Nat /\ NoRule \notin Int /\ NotANumber \notin Int
    /\ None # "set"
    /\ \A v \in Version :
          Document[v] \in Seq([method : Text, path : Text, price : Int \cup {NotANumber}])
    /\ Trim \in [Text -> Text] /\ ToUpper \in [Text -> Text] /\ Rooted \subseteq Text
    /\ Route \subseteq [method : Text, path : Text]
    /\ Call \subseteq [route : Route, info : Info \cup {None}]
    /\ MaxLedger \in Nat \ {0} /\ MaxUnits \in Nat
    /\ MaxInteger \in Nat /\ MaxNumeric \in Nat

VARIABLES
    ledger,     \* the network's current ledger
    book,       \* the versions price_book has recorded
    up,         \* the service is running
    catalog,    \* the sequence of versions in its Pricer's Catalog
    known,      \* history: the versions price_book had when it started
    pc,
    route,      \* route[r]: the route of the request, once it is accepted
    info,       \* info[r]: its RequestInfo
    units,      \* units[r]: cfg.UnitCount of the request
    observed,   \* observed[r]: the ledger CurrentLedger returned
    priced,     \* priced[r]: the PricedRequest, with known of then
    rows,       \* the requests table
    out         \* out[r]: what the client was told

vars == <<ledger, book, up, catalog, known, pc, route, info, units, observed, priced, rows, out>>

Priced == [version : Nat, amount : Nat, known : SUBSET Version]

PC == {"new", "ledger", "price", "insert", "reply", "orphan", "end"}

\* "unmetered": 500 before anything was sent to the Recorder.
\* "unrecorded": 500 because RecordRequest returned an error.
Answer == {"none", "served", "unmetered", "unrecorded"}

Row == [id : Request, consumer : {"set"}, route : Route,
        endpoint : {EndpointHash(e.method, e.path) : e \in Route},
        version : Version, amount : Nat, units : Nat,
        protocol : {"x402", "mpp_charge", "mpp_session"}, channel : {"set", None},
        ledger : 1 .. MaxLedger, known : SUBSET Version]

-----------------------------------------------------------------------------
\* NewCatalog accepts the entries: one at least, none twice, all with a schedule.
Consistent(entries) ==
    /\ entries # {}
    /\ \A v \in entries : Parses(v.schedule)
    /\ \A v, w \in entries : v.version = w.version \/ v.effective = w.effective => v = w

\* And, however they are ordered, sorts them by effective ledger.
NewCatalog(entries) ==
    CHOOSE cat \in [1 .. Cardinality(entries) -> entries] :
        \A i, j \in DOMAIN cat : i < j => cat[i].effective < cat[j].effective

\* Bug: a version applies from the ledger after its effective ledger on.
VersionAfter(cat, l) ==
    SelectLastInSeq(cat, LAMBDA v : v.effective < l)

\* Catalog.VersionAt: the position of the last version in force, found by
\* walking backward; 0 for ErrNoVersionAt.
VersionAt(cat, l) ==
    SelectLastInSeq(cat, LAMBDA v : v.effective <= l)

\* RequestInfo.Validate.
Validate(i) ==
    /\ i.consumer # ""
    /\ i.protocol # "other"
    /\ i.channel # "" <=> i.protocol = "mpp_session"

\* There is a RequestInfo in the request's context, and it validates.
HasInfo(c) == c.info # None /\ Validate(c.info)

\* The table's constraints on who paid how.
PaymentChecks(row) ==
    /\ row.protocol \in {"x402", "mpp_charge", "mpp_session"}
    /\ row.protocol = "mpp_session" <=> row.channel # None

\* What the columns and CHECK constraints of the table accept.
Storable(row) ==
    /\ row.units \in 1 .. MaxUnits /\ row.amount <= MaxNumeric
    /\ row.version <= MaxInteger /\ row.ledger <= MaxInteger
    /\ PaymentChecks(row)

Init ==
    /\ ledger = 1
    /\ book = {}
    /\ up = FALSE
    /\ catalog = <<>>
    /\ known = {}
    /\ pc = [r \in Request |-> "new"]
    /\ route = [r \in Request |-> None]
    /\ info = [r \in Request |-> None]
    /\ units = [r \in Request |-> 0]
    /\ observed = [r \in Request |-> 1]
    /\ priced = [r \in Request |-> [version |-> 0, amount |-> 0, known |-> {}]]
    /\ rows = {}
    /\ out = [r \in Request |-> "none"]

-----------------------------------------------------------------------------
CloseLedger ==
    /\ ledger < MaxLedger
    /\ ledger' = ledger + 1
    /\ UNCHANGED <<book, up, catalog, known, pc, route, info, units, observed, priced, rows, out>>

\* The operator publishes the next version.  The price_book contract refuses
\* one that is effective in the past or not after the version before it.
Publish(effective) ==
    /\ Cardinality(book) + 1 \in Version
    /\ effective >= ledger
    /\ \A m \in book : m.effective_ledger.value < effective
    /\ LET v == Cardinality(book) + 1
           args == PublishArgs(Operator, ScheduleHash(Document[v]), v, effective)
       IN  book' = book \cup {Record(args, v, ledger)}
    /\ UNCHANGED <<ledger, up, catalog, known, pc, route, info, units, observed, priced, rows, out>>

\* The service starts with the price book of this moment as its catalog, read
\* in either way; NewCatalog refuses an empty one, or one with a schedule that
\* does not parse.
StartService ==
    /\ ~up
    /\ up' = TRUE
    /\ \E versions \in {GetVersions(book), PublishEvents(book)} :
          LET entries == {CatalogVersion(v) : v \in versions}
          IN  Consistent(entries) /\ catalog' = NewCatalog(entries)
    /\ known' = {m.version.value : m \in book}
    /\ UNCHANGED <<ledger, book, pc, route, info, units, observed, priced, rows, out>>

\* The middleware refuses the request with a 500 before the Recorder.
RefuseUnmetered(r) ==
    /\ pc' = [pc EXCEPT ![r] = "end"]
    /\ out' = [out EXCEPT ![r] = "unmetered"]
    /\ UNCHANGED <<ledger, book, up, catalog, known, route, info, units, observed, priced, rows>>

\* A request without RequestInfo, or with one that is not well formed.
RejectInfo(r, c) ==
    /\ up
    /\ pc[r] = "new"
    /\ ~HasInfo(c)
    /\ RefuseUnmetered(r)

\* A request whose RequestInfo validates; UnitCount may return any number.
AcceptInfo(r, c, n) ==
    /\ up
    /\ pc[r] = "new"
    /\ HasInfo(c)
    /\ pc' = [pc EXCEPT ![r] = "ledger"]
    /\ route' = [route EXCEPT ![r] = c.route]
    /\ info' = [info EXCEPT ![r] = c.info]
    /\ units' = [units EXCEPT ![r] = n]
    /\ UNCHANGED <<ledger, book, up, catalog, known, observed, priced, rows, out>>

\* CurrentLedger answers.
ObserveLedger(r) ==
    /\ pc[r] = "ledger"
    /\ observed' = [observed EXCEPT ![r] = ledger]
    /\ pc' = [pc EXCEPT ![r] = "price"]
    /\ UNCHANGED <<ledger, book, up, catalog, known, route, info, units, priced, rows, out>>

\* CurrentLedger fails.
LedgerUnavailable(r) ==
    /\ pc[r] = "ledger"
    /\ RefuseUnmetered(r)

\* The price of a unit at ledger l: NoRule without a version or a rule.
UnitPrice(r, l) ==
    LET n == VersionAt(catalog, l)
    IN  IF n = 0 THEN NoRule
        ELSE Lookup(catalog[n].schedule, route[r].method, route[r].path)

Priceable(r) == UnitPrice(r, observed[r]) # NoRule

\* What Price returns for a request observed at ledger l.
PricedAt(r, l, n) ==
    [version |-> catalog[VersionAt(catalog, l)].version,
     amount |-> UnitPrice(r, l) * n, known |-> known]

\* ErrNoVersionAt or ErrUnknownEndpoint.
PriceFails(r) ==
    /\ pc[r] = "price"
    /\ ~Priceable(r)
    /\ RefuseUnmetered(r)

\* No request ID can be generated.
NoRequestID(r) ==
    /\ pc[r] = "price"
    /\ Priceable(r)
    /\ RefuseUnmetered(r)

\* Bug: the request is priced at the ledger of this moment.
PriceAtCurrentLedger(r) ==
    /\ pc[r] = "price" /\ Priceable(r) /\ UnitPrice(r, ledger) # NoRule
    /\ priced' = [priced EXCEPT ![r] = PricedAt(r, ledger, units[r])]
    /\ pc' = [pc EXCEPT ![r] = "insert"]
    /\ UNCHANGED <<ledger, book, up, catalog, known, route, info, units, observed, rows, out>>

\* Bug: the first unit is free.
PriceBeyondFirst(r) ==
    /\ pc[r] = "price" /\ Priceable(r)
    /\ priced' = [priced EXCEPT ![r] = PricedAt(r, observed[r], units[r] - 1)]
    /\ pc' = [pc EXCEPT ![r] = "insert"]
    /\ UNCHANGED <<ledger, book, up, catalog, known, route, info, units, observed, rows, out>>

\* Pricer.Price, and RecordRequest sends the INSERT.
Price(r) ==
    /\ pc[r] = "price" /\ Priceable(r)
    /\ priced' = [priced EXCEPT ![r] = PricedAt(r, observed[r], units[r])]
    /\ pc' = [pc EXCEPT ![r] = "insert"]
    /\ UNCHANGED <<ledger, book, up, catalog, known, route, info, units, observed, rows, out>>

\* Bug: the handler runs when the INSERT has been sent, not when it is done.
ServeBeforeCommit(r) ==
    /\ pc[r] = "insert"
    /\ pc' = [pc EXCEPT ![r] = "orphan"]
    /\ out' = [out EXCEPT ![r] = "served"]
    /\ UNCHANGED <<ledger, book, up, catalog, known, route, info, units, observed, priced, rows>>

\* The row of RecordedRequest; an empty channel is stored as NULL.
RowOf(r) ==
    [id |-> r, consumer |-> info[r].consumer, route |-> route[r],
     endpoint |-> EndpointHash(route[r].method, route[r].path),
     version |-> priced[r].version, amount |-> priced[r].amount, units |-> units[r],
     protocol |-> info[r].protocol,
     channel |-> IF info[r].channel = "" THEN None ELSE info[r].channel,
     ledger |-> observed[r], known |-> priced[r].known]

\* PostgreSQL commits the row.
InsertRow(r) ==
    /\ pc[r] \in {"insert", "orphan"}
    /\ Storable(RowOf(r))
    /\ rows' = rows \cup {RowOf(r)}
    /\ pc' = [pc EXCEPT ![r] = IF @ = "insert" THEN "reply" ELSE "end"]
    /\ UNCHANGED <<ledger, book, up, catalog, known, route, info, units, observed, priced, out>>

\* RecordRequest returned: the wrapped handler runs.
Serve(r) ==
    /\ pc[r] = "reply"
    /\ pc' = [pc EXCEPT ![r] = "end"]
    /\ out' = [out EXCEPT ![r] = "served"]
    /\ UNCHANGED <<ledger, book, up, catalog, known, route, info, units, observed, priced, rows>>

\* The database refuses the row, or fails before it has committed.
InsertFails(r) ==
    /\ pc[r] \in {"insert", "orphan"}
    /\ pc' = [pc EXCEPT ![r] = "end"]
    /\ out' = [out EXCEPT ![r] = IF pc[r] = "insert" THEN "unrecorded" ELSE @]
    /\ UNCHANGED <<ledger, book, up, catalog, known, route, info, units, observed, priced, rows>>

\* The request's context ends, or the connection breaks, while the INSERT is
\* at work or after it has committed: RecordRequest returns an error.
RecordUnanswered(r) ==
    /\ pc[r] \in {"insert", "reply"}
    /\ pc' = [pc EXCEPT ![r] = IF @ = "insert" THEN "orphan" ELSE "end"]
    /\ out' = [out EXCEPT ![r] = "unrecorded"]
    /\ UNCHANGED <<ledger, book, up, catalog, known, route, info, units, observed, priced, rows>>

\* The service crashes.  Rows stay; INSERTs at work run on; no request under
\* way is answered.
Crash ==
    /\ up
    /\ up' = FALSE
    /\ pc' = [r \in Request |->
                CASE pc[r] \in {"new", "orphan"} -> pc[r]
                  [] pc[r] = "insert" -> "orphan"
                  [] OTHER -> "end"]
    /\ UNCHANGED <<ledger, book, catalog, known, route, info, units, observed, priced, rows, out>>

Handle(r) ==
    \/ \E c \in Call : RejectInfo(r, c) \/ \E n \in 0 .. MaxUnits + 1 : AcceptInfo(r, c, n)
    \/ ObserveLedger(r) \/ LedgerUnavailable(r)
    \/ PriceFails(r) \/ NoRequestID(r) \/ Price(r)
    \/ Serve(r)
    \/ InsertRow(r) \/ InsertFails(r) \/ RecordUnanswered(r)

Next ==
    \/ CloseLedger
    \/ \E l \in 1 .. MaxLedger : Publish(l)
    \/ StartService
    \/ Crash
    \/ \E r \in Request : Handle(r)

Spec == Init /\ [][Next]_vars

-----------------------------------------------------------------------------
TypeOK ==
    /\ ledger \in 1 .. MaxLedger
    /\ \A m \in book : m.version.value \in Version /\ m.effective_ledger.value \in 1 .. MaxLedger
    /\ up \in BOOLEAN
    /\ \A v \in Range(catalog) : v.version \in Version
    /\ known \subseteq Version
    /\ route \in [Request -> Route \cup {None}]
    /\ info \in [Request -> Info \cup {None}]
    /\ pc \in [Request -> PC]
    /\ units \in [Request -> 0 .. MaxUnits + 1]
    /\ observed \in [Request -> 1 .. MaxLedger]
    /\ priced \in [Request -> Priced]
    /\ rows \subseteq Row
    /\ out \in [Request -> Answer]

\* "Served but never recorded is a worse failure than rejected before being
\* served" (metering.go:171-181): a served request has exactly one row, and a
\* request refused before the Recorder has none, now or later, although
\* INSERTs outlive the requests and the service that sent them.  And Validate
\* "mirrors the requests table's own CHECK constraint" (metering.go:74-80): no
\* INSERT is sent that the table would refuse for who paid how.
FailsClosed ==
    /\ \A r \in Request : out[r] = "served" => \E x \in rows : x.id = r
    /\ \A x \in rows : out[x.id] # "unmetered"
    /\ \A x, y \in rows : x.id = y.id => x = y
    /\ \A r \in Request : pc[r] \in {"insert", "reply", "orphan"} => PaymentChecks(RowOf(r))

\* The rule of a document for a route, however it is written.
IsRuleFor(rule, e) ==
    Trim[rule.path] = e.path /\ ToUpper[Trim[rule.method]] = ToUpper[e.method]

\* A row is charged at the ledger it is stamped with, by the price book that
\* was published when the service started: it carries the version that
\* price_book.version_at answered of that book for that ledger, and the charge
\* of the only rule for the route in the document published under its hash.
\* This holds of every row, now and ever after, whatever is published or closed
\* while the request is under way; versions published after the service had
\* started are the only ones in force that a row may miss.
PricedAsPublished ==
    \A x \in rows :
        LET then == {m \in book : m.version.value \in x.known}
            m == PublishedAt(then, x.ledger)
            doc == Document[x.version]
            rules == {n \in DOMAIN doc : IsRuleFor(doc[n], x.route)}
        IN  /\ EffectiveAt(then, x.ledger) # {}
            /\ ScvU32(x.version) = m.version /\ ScvBytes(ScheduleHash(doc)) = m.schedule_hash
            /\ rules # {} /\ \A n \in rules : x.amount = doc[n].price * x.units

\* The requests of any statement have a tree: no two have the same leaf, which
\* BuildTree would refuse.  A leaf's endpoint tells the rule it was charged by
\* ("must agree on that identity", schedule.go:45-50), for routes configured
\* in upper case: Lookup ignores the case, EndpointHash does not.
LeavesTellTheRule ==
    \A x, y \in {z \in rows : z.amount \in I128} :
        /\ Leaf(x) = Leaf(y) => x = y
        /\ ToUpper[x.route.method] = x.route.method /\ ToUpper[y.route.method] = y.route.method =>
              (x.endpoint = y.endpoint <=>
                 \A doc \in Range(Document) : \A n \in DOMAIN doc :
                    IsRuleFor(doc[n], x.route) <=> IsRuleFor(doc[n], y.route))

-----------------------------------------------------------------------------
\* schedule.go:32-36: a charged amount "has to fit in the i128 range" of
\* amount_billed.
ChargeFitsI128 == \A x \in rows : x.amount <= MaxI128

=============================================================================
