---------------------------- MODULE MeteringProofs ----------------------------
(***************************************************************************)
(* That metering fails closed and charges as the price book says, for      *)
(* every number of requests, documents, routes, versions, ledgers and      *)
(* units.                                                                  *)
(***************************************************************************)
EXTENDS Metering, FiniteSetTheorems, TLAPS

\* Phases in which no row of the request can be in the table.
Unrecorded == {"new", "ledger", "price", "insert", "orphan"}

Recorded(r) == \E x \in rows : x.id = r

\* What the place of a request in the middleware says of the table and of what
\* its client was told.
RequestInv ==
    \A r \in Request :
        /\ pc[r] \in {"new", "ledger", "price", "insert", "reply"} => out[r] = "none"
        /\ pc[r] = "orphan" => out[r] \in {"none", "unrecorded"}
        /\ pc[r] \in Unrecorded => ~Recorded(r)
        /\ pc[r] = "reply" => Recorded(r)

\* What FailsClosed says of the table.
RowsInv ==
    /\ \A r \in Request : out[r] = "served" => \E x \in rows : x.id = r
    /\ \A x \in rows : out[x.id] # "unmetered"
    /\ \A x, y \in rows : x.id = y.id => x = y

IInv ==
    /\ pc \in [Request -> PC]
    /\ out \in [Request -> Answer]
    /\ \A x \in rows : x.id \in Request
    /\ RequestInv
    /\ RowsInv

-----------------------------------------------------------------------------
LEMMA InitIInv == Init => IInv
BY DEF Init, IInv, RequestInv, RowsInv, Recorded, Unrecorded, PC, Answer

\* A request that moves on before its INSERT, or ends without being served,
\* disturbs nothing.
LEMMA MoveKeepsIInv ==
    ASSUME IInv, NEW r \in Request, NEW phase \in {"ledger", "price", "insert"},
           pc[r] \in {"new", "ledger", "price"},
           pc' = [pc EXCEPT ![r] = phase], UNCHANGED <<rows, out>>
    PROVE  IInv'
BY DEF IInv, RequestInv, RowsInv, Recorded, Unrecorded, PC, Answer

LEMMA RefusalKeepsIInv ==
    ASSUME IInv, NEW r \in Request, pc[r] \in {"new", "ledger", "price"},
           RefuseUnmetered(r)
    PROVE  IInv'
BY DEF IInv, RequestInv, RowsInv, Recorded, Unrecorded, PC, Answer,
       RefuseUnmetered

\* The row that enters is the only one of its request, and nobody has been told
\* that there would be none.
LEMMA InsertRowKeepsIInv ==
    ASSUME IInv, NEW r \in Request, InsertRow(r)
    PROVE  IInv'
<1> DEFINE row == RowOf(r)
<1>1. row.id = r
  BY DEF RowOf
<1>2. rows' = rows \cup {row}
  BY DEF InsertRow
<1> HIDE DEF row
<1>3. ~Recorded(r) /\ out[r] # "unmetered"
  BY DEF InsertRow, IInv, RequestInv, Unrecorded
<1>4. \A q \in Request : Recorded(q)' <=> Recorded(q) \/ q = r
  BY <1>1, <1>2 DEF Recorded
<1>5. /\ pc' = [pc EXCEPT ![r] = IF @ = "insert" THEN "reply" ELSE "end"]
      /\ out' = out /\ pc[r] \in {"insert", "orphan"}
  BY DEF InsertRow
<1>6. pc' \in [Request -> PC] /\ out' \in [Request -> Answer]
  BY <1>5 DEF IInv, PC
<1>7. \A x \in rows' : x.id \in Request
  BY <1>1, <1>2 DEF IInv
<1>8. RequestInv'
  BY <1>4, <1>5 DEF IInv, RequestInv, Unrecorded
<1>9. RowsInv'
  <2>1. \A q \in Request : out'[q] = "served" => \E x \in rows' : x.id = q
    BY <1>2, <1>5 DEF IInv, RowsInv
  <2>2. \A x \in rows' : out'[x.id] # "unmetered"
    BY <1>1, <1>2, <1>3, <1>5 DEF IInv, RowsInv
  <2>3. \A x, y \in rows' : x.id = y.id => x = y
    BY <1>1, <1>2, <1>3 DEF IInv, RowsInv, Recorded
  <2> QED
    BY <2>1, <2>2, <2>3 DEF RowsInv
<1> QED
  BY <1>6, <1>7, <1>8, <1>9 DEF IInv

LEMMA HandleKeepsIInv ==
    ASSUME IInv, NEW r \in Request, Handle(r)
    PROVE  IInv'
<1>1. CASE \E c \in Call : RejectInfo(r, c)
  BY <1>1, RefusalKeepsIInv DEF RejectInfo
<1>2. CASE \E c \in Call, n \in 0 .. MaxUnits + 1 : AcceptInfo(r, c, n)
  BY <1>2, MoveKeepsIInv DEF AcceptInfo
<1>3. CASE ObserveLedger(r)
  BY <1>3, MoveKeepsIInv DEF ObserveLedger
<1>4. CASE LedgerUnavailable(r)
  BY <1>4, RefusalKeepsIInv DEF LedgerUnavailable
<1>5. CASE PriceFails(r) \/ NoRequestID(r)
  BY <1>5, RefusalKeepsIInv DEF PriceFails, NoRequestID
<1>6. CASE Price(r)
  <2>1. /\ pc[r] = "price" /\ pc' = [pc EXCEPT ![r] = "insert"]
        /\ UNCHANGED <<rows, out>>
    BY <1>6 DEF Price
  <2> QED
    BY <2>1, MoveKeepsIInv
<1>7. CASE Serve(r)
  BY <1>7 DEF Serve, IInv, RequestInv, RowsInv, Recorded, Unrecorded, PC, Answer
<1>8. CASE InsertRow(r)
  BY <1>8, InsertRowKeepsIInv
<1>9. CASE InsertFails(r)
  BY <1>9 DEF InsertFails, IInv, RequestInv, RowsInv, Recorded, Unrecorded,
              PC, Answer
<1>10. CASE RecordUnanswered(r)
  BY <1>10 DEF RecordUnanswered, IInv, RequestInv, RowsInv, Recorded,
               Unrecorded, PC, Answer
<1> QED
  BY <1>1, <1>2, <1>3, <1>4, <1>5, <1>6, <1>7, <1>8, <1>9, <1>10 DEF Handle

\* A crash answers nobody, and leaves each INSERT at work to itself.
LEMMA CrashKeepsIInv == IInv /\ Crash => IInv'
BY DEF Crash, IInv, RequestInv, RowsInv, Recorded, Unrecorded, PC, Answer

\* The places of requests, what clients were told and the table are related as
\* IInv says, in every reachable state.
THEOREM Invariance == Spec => []IInv
<1>1. IInv /\ [Next]_vars => IInv'
  <2> SUFFICES ASSUME IInv, [Next]_vars PROVE IInv'
    OBVIOUS
  <2>1. CASE UNCHANGED <<pc, rows, out>>
    BY <2>1 DEF IInv, RequestInv, RowsInv, Recorded
  <2>2. CASE CloseLedger \/ StartService
    BY <2>1, <2>2 DEF CloseLedger, StartService
  <2>3. CASE \E l \in 1 .. MaxLedger : Publish(l)
    BY <2>1, <2>3 DEF Publish
  <2>4. CASE Crash
    BY <2>4, CrashKeepsIInv
  <2>5. CASE \E r \in Request : Handle(r)
    BY <2>5, HandleKeepsIInv
  <2>6. CASE UNCHANGED vars
    BY <2>1, <2>6 DEF vars
  <2> QED
    BY <2>2, <2>3, <2>4, <2>5, <2>6 DEF Next
<1> QED
  BY <1>1, InitIInv, PTL DEF Spec

-----------------------------------------------------------------------------
(* Charges, endpoints and versions.                                        *)

\* A nonempty set of positions has a last one.
LEMMA LastPosition ==
    ASSUME NEW n \in Nat, NEW S \in SUBSET (1 .. n), S # {}
    PROVE  Max(S) \in S /\ \A y \in S : y <= Max(S)
<1> DEFINE R == {p \in Nat \X Nat : p[1] < p[2]}
           T == {n - x : x \in S}
<1>1. IsWellFoundedOn(R, Nat)
  BY NatLessThanWellFounded DEF OpToRel
<1>2. \A x \in S : n - x \in Nat
  OBVIOUS
<1>3. T \subseteq Nat /\ T # {}
  BY <1>2
<1> HIDE DEF R
<1>4. PICK t \in T : \A u \in T : ~ (<<u, t>> \in R)
  BY <1>1, <1>3, WFMin
<1>5. PICK x \in S : t = n - x
  OBVIOUS
<1>6. \A y \in S : y <= x
  <2> TAKE y \in S
  <2>1. n - y \in T /\ n - y \in Nat /\ t \in Nat
    BY <1>2, <1>3
  <2>2. ~ (n - y < t)
    BY <1>4, <2>1 DEF R
  <2> QED
    BY <1>5, <2>2
<1> QED
  BY <1>6 DEF Max

\* Catalog.VersionAt's walk: 0, or the last position in force.
LEMMA VersionAtIsLast ==
    ASSUME NEW cat, Len(cat) \in Nat, NEW l, VersionAt(cat, l) # 0
    PROVE  /\ VersionAt(cat, l) \in 1 .. Len(cat)
           /\ cat[VersionAt(cat, l)].effective <= l
           /\ \A i \in 1 .. Len(cat) : cat[i].effective <= l => i <= VersionAt(cat, l)
<1> DEFINE I == {i \in 1 .. Len(cat) : cat[i].effective <= l}
<1>1. VersionAt(cat, l) = IF I # {} THEN Max(I) ELSE 0
  BY DEF VersionAt, SelectLastInSeq
<1>2. Max(I) \in I /\ \A y \in I : y <= Max(I)
  BY <1>1, LastPosition
<1> QED
  BY <1>1, <1>2

\* Schedule.Lookup finds the rule of a document that parses, the only one there
\* is for the route, however it is written.
LEMMA LookupFindsTheRule ==
    ASSUME NEW v \in Version, Parses(Document[v]), NEW e,
           Lookup(Document[v], e.method, e.path) # NoRule
    PROVE  LET doc == Document[v]
               price == Lookup(doc, e.method, e.path)
           IN  /\ price \in 0 .. MaxI128
               /\ \E n \in DOMAIN doc : IsRuleFor(doc[n], e)
               /\ \A n \in DOMAIN doc : IsRuleFor(doc[n], e) => doc[n].price = price
<1> DEFINE doc == Document[v]
           I == {n \in 1 .. Len(doc) : RuleKey(doc[n]) = scheduleKey(ToUpper[e.method], e.path)}
<1>1. Len(doc) \in Nat /\ DOMAIN doc = 1 .. Len(doc)
  BY ConstantsAssumption
<1>2. Lookup(doc, e.method, e.path)
          = LET n == IF I # {} THEN Max(I) ELSE 0 IN IF n = 0 THEN NoRule ELSE doc[n].price
  BY DEF Lookup, SelectLastInSeq
<1>3. \A n \in DOMAIN doc : n \in I <=> IsRuleFor(doc[n], e)
  BY <1>1 DEF RuleKey, scheduleKey, IsRuleFor
<1>4. I # {}
  BY <1>2
<1>5. Max(I) \in I /\ Max(I) # 0
  <2>1. I \in SUBSET (1 .. Len(doc))
    OBVIOUS
  <2> HIDE DEF I, doc
  <2>2. Max(I) \in I
    BY <1>1, <1>4, <2>1, LastPosition
  <2>3. Max(I) \in 1 .. Len(doc)
    BY <2>1, <2>2
  <2> QED
    BY <1>1, <2>2, <2>3
<1>6. Lookup(doc, e.method, e.path) = doc[Max(I)].price
  BY <1>2, <1>4, <1>5
<1>7. \A n \in I : n = Max(I)
  BY <1>1, <1>5 DEF Parses, IsInjective
<1>8. Max(I) \in DOMAIN doc /\ IsRuleFor(doc[Max(I)], e) /\ doc[Max(I)].price \in 0 .. MaxI128
  BY <1>1, <1>3, <1>5 DEF Parses
<1>9. \A n \in DOMAIN doc : IsRuleFor(doc[n], e) => n = Max(I)
  BY <1>3, <1>7
<1> HIDE DEF I
<1> QED
  BY <1>6, <1>8, <1>9

\* The order NewCatalog sorts by exists: entries are ranked by how many are in
\* force when they are.
LEMMA SortedCatalog ==
    ASSUME NEW entries, IsFiniteSet(entries), \A v \in entries : v.effective \in Nat,
           \A v, w \in entries : v.effective = w.effective => v = w
    PROVE  /\ NewCatalog(entries) \in [1 .. Cardinality(entries) -> entries]
           /\ \A i, j \in 1 .. Cardinality(entries) :
                 i < j => NewCatalog(entries)[i].effective < NewCatalog(entries)[j].effective
<1> DEFINE n == Cardinality(entries)
           InForce(v) == {w \in entries : w.effective <= v.effective}
           rank == [v \in entries |-> Cardinality(InForce(v))]
<1>1. n \in Nat
  BY FS_CardinalityType
<1>2. \A v \in entries : IsFiniteSet(InForce(v)) /\ Cardinality(InForce(v)) \in 1 .. n
  <2> TAKE v \in entries
  <2>1. InForce(v) \in SUBSET entries /\ v \in InForce(v)
    OBVIOUS
  <2> HIDE DEF InForce
  <2>2. IsFiniteSet(InForce(v)) /\ Cardinality(InForce(v)) <= n
    BY <2>1, FS_Subset
  <2>3. Cardinality(InForce(v)) \in Nat /\ Cardinality(InForce(v)) # 0
    BY <2>1, <2>2, FS_CardinalityType, FS_EmptySet
  <2> QED
    BY <1>1, <2>2, <2>3
<1>3. \A v, w \in entries : v.effective < w.effective => rank[v] < rank[w]
  <2> SUFFICES ASSUME NEW v \in entries, NEW w \in entries, v.effective < w.effective
               PROVE  Cardinality(InForce(v)) < Cardinality(InForce(w))
    OBVIOUS
  <2>1. InForce(v) \in SUBSET InForce(w) /\ w \in InForce(w) /\ w \notin InForce(v)
    OBVIOUS
  <2> HIDE DEF InForce
  <2>2. /\ Cardinality(InForce(v)) <= Cardinality(InForce(w))
        /\ Cardinality(InForce(w)) # Cardinality(InForce(v))
    BY <1>2, <2>1, FS_Subset
  <2> QED
    BY <1>2, <2>2
<1>4. rank \in [entries -> 1 .. n]
  BY <1>2
<1> HIDE DEF rank
<1>5. rank \in Injection(entries, 1 .. n)
  <2>1. \A v, w \in entries : rank[v] = rank[w] => v = w
    <3> SUFFICES ASSUME NEW v \in entries, NEW w \in entries, v # w PROVE rank[v] # rank[w]
      OBVIOUS
    <3>1. v.effective < w.effective \/ w.effective < v.effective
      OBVIOUS
    <3> QED
      BY <1>3, <1>4, <3>1
  <2> QED
    BY <1>4, <2>1 DEF Injection, IsInjective
<1>6. rank \in Surjection(entries, 1 .. n)
  <2>1. IsFiniteSet(1 .. n) /\ Cardinality(1 .. n) = n
    BY <1>1, FS_Interval
  <2> HIDE DEF n
  <2>2. /\ IsFiniteSet(entries) /\ Cardinality(entries) <= Cardinality(1 .. n)
        /\ Cardinality(entries) = Cardinality(1 .. n) <=> rank \in Surjection(entries, 1 .. n)
    BY <1>5, <2>1, FS_Injection
  <2> QED
    BY <2>1, <2>2 DEF n
<1> DEFINE cat == [i \in 1 .. n |-> CHOOSE v \in entries : rank[v] = i]
<1>7. \A i \in 1 .. n : cat[i] \in entries /\ rank[cat[i]] = i
  BY <1>6 DEF Surjection
<1>8. \A i, j \in 1 .. n : i < j => cat[i].effective < cat[j].effective
  <2> SUFFICES ASSUME NEW i \in 1 .. n, NEW j \in 1 .. n, i < j
               PROVE  cat[i].effective < cat[j].effective
    OBVIOUS
  <2>1. cat[i] \in entries /\ cat[j] \in entries /\ rank[cat[i]] = i /\ rank[cat[j]] = j
    BY <1>7
  <2> HIDE DEF cat
  <2>2. ~ (cat[j].effective < cat[i].effective) /\ cat[i] # cat[j]
    BY <1>1, <1>3, <2>1
  <2> QED
    BY <2>1, <2>2
<1>9. cat \in [1 .. n -> entries]
  BY <1>7
<1> HIDE DEF cat
<1>10. \E f \in [1 .. n -> entries] :
          \A i, j \in DOMAIN f : i < j => f[i].effective < f[j].effective
  BY <1>8, <1>9
<1> HIDE DEF n
<1>11. /\ NewCatalog(entries) \in [1 .. n -> entries]
       /\ \A i, j \in DOMAIN NewCatalog(entries) :
             i < j => NewCatalog(entries)[i].effective < NewCatalog(entries)[j].effective
  BY <1>10 DEF NewCatalog, n
<1> QED
  BY <1>11 DEF n

-----------------------------------------------------------------------------
\* What NewCatalog is given for a version of the book.
Entry(m) ==
    [version |-> m.version.value, effective |-> m.effective_ledger.value,
     schedule |-> Document[m.version.value]]

\* Versions are numbered as they come, and no two take effect together.
BookInv ==
    /\ IsFiniteSet(book)
    /\ \A m \in book :
          /\ m.version.value \in Version /\ m.version.value \in 1 .. Cardinality(book)
          /\ m.effective_ledger.value \in 1 .. MaxLedger
          /\ m.version = ScvU32(m.version.value)
          /\ m.schedule_hash = ScvBytes(ScheduleHash(Document[m.version.value]))
    /\ \A m, k \in book :
          m.version.value = k.version.value
            \/ m.effective_ledger.value = k.effective_ledger.value => m = k

\* The catalog has the versions of the book that there were when the service
\* started, in the order they take effect.
CatalogInv ==
    /\ Len(catalog) \in Nat /\ DOMAIN catalog = 1 .. Len(catalog)
    /\ \A i \in DOMAIN catalog :
          \E m \in book : catalog[i] = Entry(m) /\ Parses(Document[m.version.value])
    /\ \A i, j \in DOMAIN catalog : i < j => catalog[i].effective < catalog[j].effective
    /\ known = {catalog[i].version : i \in DOMAIN catalog}

\* Of the versions that were known, the row x has the last one in force at its
\* ledger, and the charge of each of its rules for the route.
Charged(x) ==
    /\ x.known \subseteq {m.version.value : m \in book}
    /\ \E m \in book :
          /\ m.version.value = x.version /\ m.effective_ledger.value <= x.ledger
          /\ m.version.value \in x.known
          /\ \A k \in book : k.version.value \in x.known /\ k.effective_ledger.value <= x.ledger
                => k.effective_ledger.value <= m.effective_ledger.value
    /\ \E n \in DOMAIN Document[x.version] : IsRuleFor(Document[x.version][n], x.route)
    /\ \A n \in DOMAIN Document[x.version] :
          IsRuleFor(Document[x.version][n], x.route)
            => x.amount = Document[x.version][n].price * x.units
    /\ x.endpoint = EndpointHash(x.route.method, x.route.path)

\* Phases in which a request has a charge, and has a route and a RequestInfo.
WithCharge == {"insert", "reply", "orphan"}
WithRoute == WithCharge \cup {"ledger", "price"}

Accepted(r) == route[r] \in Route /\ info[r] \in Info /\ Validate(info[r])

ChargeInv ==
    /\ \A r \in Request : pc[r] \in WithCharge => Charged(RowOf(r))
    /\ \A x \in rows : Charged(x)
    /\ \A r \in Request : pc[r] \in WithRoute => Accepted(r)

PricingInv == TypeOK /\ BookInv /\ CatalogInv /\ ChargeInv

-----------------------------------------------------------------------------
\* Equal effective ledgers are equal versions, so the last version in force of
\* those the service knew is the row's.
LEMMA PricingInvImpliesPricedAsPublished == PricingInv => PricedAsPublished
<1> SUFFICES ASSUME PricingInv, NEW x \in rows,
                    NEW then, then = {m \in book : m.version.value \in x.known}
             PROVE  /\ EffectiveAt(then, x.ledger) # {}
                    /\ LET m == PublishedAt(then, x.ledger)
                           doc == Document[x.version]
                           rules == {n \in DOMAIN doc : IsRuleFor(doc[n], x.route)}
                       IN  /\ ScvU32(x.version) = m.version
                           /\ ScvBytes(ScheduleHash(doc)) = m.schedule_hash
                           /\ rules # {} /\ \A n \in rules : x.amount = doc[n].price * x.units
  BY DEF PricedAsPublished
<1>1. Charged(x) /\ BookInv
  BY DEF PricingInv, ChargeInv
<1>2. PICK m \in book :
          /\ m.version.value = x.version /\ m.effective_ledger.value <= x.ledger
          /\ m.version.value \in x.known
          /\ \A k \in book : k.version.value \in x.known /\ k.effective_ledger.value <= x.ledger
                => k.effective_ledger.value <= m.effective_ledger.value
  BY <1>1 DEF Charged
<1>3. /\ m \in EffectiveAt(then, x.ledger)
      /\ \A k \in EffectiveAt(then, x.ledger) :
            k.effective_ledger.value <= m.effective_ledger.value
  BY <1>2 DEF EffectiveAt
<1>4. /\ PublishedAt(then, x.ledger) \in EffectiveAt(then, x.ledger)
      /\ m.effective_ledger.value <= PublishedAt(then, x.ledger).effective_ledger.value
  BY <1>3 DEF PublishedAt
<1>5. PublishedAt(then, x.ledger) = m
  <2>1. PICK p : p = PublishedAt(then, x.ledger)
    OBVIOUS
  <2>2. /\ p \in book /\ p.effective_ledger.value <= m.effective_ledger.value
        /\ m.effective_ledger.value <= p.effective_ledger.value
    BY <1>3, <1>4, <2>1 DEF EffectiveAt
  <2>3. p.effective_ledger.value = m.effective_ledger.value
    BY <1>1, <2>2 DEF BookInv
  <2> QED
    BY <1>1, <2>1, <2>2, <2>3 DEF BookInv
<1>6. /\ ScvU32(x.version) = m.version
      /\ ScvBytes(ScheduleHash(Document[x.version])) = m.schedule_hash
  BY <1>1, <1>2 DEF BookInv
<1> QED
  BY <1>1, <1>3, <1>5, <1>6 DEF Charged

\* Validate refuses what the table's constraints on payment would refuse.
LEMMA PricingInvImpliesPaymentChecks ==
    ASSUME PricingInv, NEW r \in Request, pc[r] \in WithCharge
    PROVE  PaymentChecks(RowOf(r))
<1>1. info[r] \in Info /\ Validate(info[r])
  BY DEF PricingInv, ChargeInv, Accepted, WithRoute
<1>2. /\ RowOf(r).protocol = info[r].protocol
      /\ RowOf(r).channel = IF info[r].channel = "" THEN None ELSE info[r].channel
  BY DEF RowOf
<1>3. None # "set"
  BY ConstantsAssumption
<1> QED
  BY <1>1, <1>2, <1>3 DEF Info, Validate, PaymentChecks

\* Each row was charged by a rule for its route: routes that the same rules are
\* for are written the same, but for the case of the method.
LEMMA InvariantsImplyLeavesTellTheRule == PricingInv /\ RowsInv => LeavesTellTheRule
<1> SUFFICES ASSUME PricingInv, RowsInv, NEW x \in rows, NEW y \in rows
             PROVE  /\ Leaf(x) = Leaf(y) => x = y
                    /\ ToUpper[x.route.method] = x.route.method
                         /\ ToUpper[y.route.method] = y.route.method =>
                          (x.endpoint = y.endpoint <=>
                             \A doc \in Range(Document) : \A n \in DOMAIN doc :
                                IsRuleFor(doc[n], x.route) <=> IsRuleFor(doc[n], y.route))
  BY DEF LeavesTellTheRule
<1>1. Leaf(x) = Leaf(y) => x = y
  <2> SUFFICES ASSUME Leaf(x) = Leaf(y) PROVE x = y
    OBVIOUS
  <2>1. encodeRecord(x) = encodeRecord(y)
    BY DEF Leaf, sha256
  <2>2. ScvBytes(x.id) = ScvBytes(y.id)
    BY <2>1 DEF encodeRecord
  <2> QED
    BY <2>2 DEF ScvBytes, RowsInv
<1>2. /\ x.endpoint = EndpointHash(x.route.method, x.route.path)
      /\ y.endpoint = EndpointHash(y.route.method, y.route.path)
  BY DEF PricingInv, ChargeInv, Charged
<1>3. ASSUME ToUpper[x.route.method] = x.route.method, ToUpper[y.route.method] = y.route.method
      PROVE  x.endpoint = y.endpoint <=>
               \A doc \in Range(Document) : \A n \in DOMAIN doc :
                  IsRuleFor(doc[n], x.route) <=> IsRuleFor(doc[n], y.route)
  <2>1. x.endpoint = y.endpoint
          <=> x.route.method = y.route.method /\ x.route.path = y.route.path
    BY <1>2 DEF EndpointHash, sha256
  <2>2. ASSUME x.endpoint = y.endpoint, NEW doc \in Range(Document), NEW n \in DOMAIN doc
        PROVE  IsRuleFor(doc[n], x.route) <=> IsRuleFor(doc[n], y.route)
    BY <2>1, <2>2 DEF IsRuleFor
  <2>3. ASSUME \A doc \in Range(Document) : \A n \in DOMAIN doc :
                  IsRuleFor(doc[n], x.route) <=> IsRuleFor(doc[n], y.route)
        PROVE  x.endpoint = y.endpoint
    <3>1. PICK n \in DOMAIN Document[x.version] : IsRuleFor(Document[x.version][n], x.route)
      BY DEF PricingInv, ChargeInv, Charged
    <3>2. Document[x.version] \in Range(Document)
      BY DEF PricingInv, TypeOK, Row, Version, Range
    <3>3. IsRuleFor(Document[x.version][n], y.route)
      BY <2>3, <3>1, <3>2
    <3> QED
      BY <1>3, <2>1, <3>1, <3>3 DEF IsRuleFor
  <2> QED
    BY <2>2, <2>3
<1> QED
  BY <1>1, <1>3

-----------------------------------------------------------------------------
LEMMA InitPricingInv == Init => PricingInv
<1> SUFFICES ASSUME Init PROVE PricingInv
  OBVIOUS
<1>1. IsFiniteSet({})
  BY FS_EmptySet
<1>2. TypeOK
  <2>1. ledger \in 1 .. MaxLedger /\ units \in [Request -> 0 .. MaxUnits + 1]
        /\ observed \in [Request -> 1 .. MaxLedger]
    BY ConstantsAssumption DEF Init
  <2>2. Range(catalog) = {}
    BY DEF Init, Range
  <2>3. priced \in [Request -> Priced] /\ pc \in [Request -> PC] /\ out \in [Request -> Answer]
    BY DEF Init, Priced, PC, Answer
  <2> QED
    BY <2>1, <2>2, <2>3 DEF Init, TypeOK
<1>3. BookInv
  BY <1>1 DEF Init, BookInv
<1>4. CatalogInv
  BY DEF Init, CatalogInv
<1>5. ChargeInv
  BY DEF Init, ChargeInv, WithCharge, WithRoute
<1> QED
  BY <1>2, <1>3, <1>4, <1>5 DEF PricingInv

\* While the book and the catalog are as they were, the charges to justify are
\* those of the requests that have moved on.
LEMMA MoveKeepsPricingInv ==
    ASSUME PricingInv, TypeOK', UNCHANGED <<book, catalog, known>>,
           \A x \in rows' : x \in rows \/ \E r \in Request : pc[r] \in WithCharge /\ x = RowOf(r),
           \A r \in Request : pc'[r] \in WithCharge =>
              \/ pc[r] \in WithCharge /\ RowOf(r)' = RowOf(r)
              \/ Charged(RowOf(r)'),
           \A r \in Request : pc'[r] \in WithRoute => Accepted(r)'
    PROVE  PricingInv'
<1>1. \A x : Charged(x)' <=> Charged(x)
  BY DEF Charged
<1>2. BookInv' /\ CatalogInv'
  BY DEF PricingInv, BookInv, CatalogInv
<1>3. \A x \in rows' : Charged(x)'
  BY <1>1 DEF PricingInv, ChargeInv
<1>4. \A r \in Request : pc'[r] \in WithCharge => Charged(RowOf(r))'
  <2> SUFFICES ASSUME NEW r \in Request, pc'[r] \in WithCharge PROVE Charged(RowOf(r))'
    OBVIOUS
  <2>1. Charged(RowOf(r)')
    BY DEF PricingInv, ChargeInv
  <2>2. Charged(RowOf(r)') <=> Charged(RowOf(r))'
    BY DEF Charged
  <2> QED
    BY <2>1, <2>2
<1> QED
  BY <1>2, <1>3, <1>4 DEF PricingInv, ChargeInv, WithCharge, WithRoute

\* What Price charges: the rule, and the only one, of the last version of the
\* catalog in force at the ledger observed.
LEMMA PriceIsCharged ==
    ASSUME PricingInv, NEW r \in Request, Price(r)
    PROVE  /\ priced' \in [Request -> Priced]
           /\ Charged(RowOf(r)')
<1> DEFINE n == VersionAt(catalog, observed[r])
           amount == UnitPrice(r, observed[r]) * units[r]
<1>1. /\ pc[r] = "price" /\ route[r] \in Route
      /\ UnitPrice(r, observed[r]) # NoRule
      /\ priced' = [priced EXCEPT ![r] = PricedAt(r, observed[r], units[r])]
      /\ UNCHANGED <<book, catalog, known, route, info, units, observed>>
  BY DEF Price, Priceable, PricingInv, ChargeInv, Accepted, WithRoute
<1>2. /\ n # 0
      /\ UnitPrice(r, observed[r]) = Lookup(catalog[n].schedule, route[r].method, route[r].path)
  BY <1>1 DEF UnitPrice
<1>3. /\ n \in DOMAIN catalog /\ catalog[n].effective <= observed[r]
      /\ \A i \in DOMAIN catalog : catalog[i].effective <= observed[r] => i <= n
  BY <1>2, VersionAtIsLast DEF PricingInv, CatalogInv
<1> HIDE DEF n
<1>4. PICK m \in book : catalog[n] = Entry(m) /\ Parses(Document[m.version.value])
  BY <1>3 DEF PricingInv, CatalogInv
<1>5. /\ catalog[n].version = m.version.value /\ catalog[n].effective = m.effective_ledger.value
      /\ catalog[n].schedule = Document[m.version.value]
      /\ m.version.value \in Version
  BY <1>4 DEF Entry, PricingInv, BookInv
<1>6. PricedAt(r, observed[r], units[r])
         = [version |-> m.version.value, amount |-> amount, known |-> known]
  BY <1>5 DEF PricedAt, n
<1> DEFINE doc == Document[m.version.value]
<1>7. /\ UnitPrice(r, observed[r]) \in 0 .. MaxI128
      /\ \E k \in DOMAIN doc : IsRuleFor(doc[k], route[r])
      /\ \A k \in DOMAIN doc : IsRuleFor(doc[k], route[r])
            => doc[k].price = UnitPrice(r, observed[r])
  BY <1>1, <1>2, <1>4, <1>5, LookupFindsTheRule
<1>8. \A i \in DOMAIN catalog : \E k \in book :
         /\ catalog[i].version = k.version.value
         /\ catalog[i].effective = k.effective_ledger.value
         /\ k.version.value \in Version
  BY DEF PricingInv, CatalogInv, BookInv, Entry
<1>9. known \subseteq {k.version.value : k \in book} /\ known \in SUBSET Version
  BY <1>8 DEF PricingInv, CatalogInv
<1>10. ASSUME NEW k \in book, k.version.value \in known, k.effective_ledger.value <= observed[r]
       PROVE  k.effective_ledger.value <= m.effective_ledger.value
  <2>1. PICK i \in DOMAIN catalog : catalog[i].version = k.version.value
    BY <1>10 DEF PricingInv, CatalogInv
  <2>2. catalog[i].effective = k.effective_ledger.value
    BY <1>8, <2>1 DEF PricingInv, BookInv
  <2>3. i <= n
    BY <1>3, <1>10, <2>2
  <2>4. i = n \/ catalog[i].effective < catalog[n].effective
    BY <1>3, <2>3 DEF PricingInv, CatalogInv
  <2> QED
    BY <1>5, <2>2, <2>4 DEF PricingInv, BookInv
<1>11. amount \in Nat
  <2>1. UnitPrice(r, observed[r]) \in Nat /\ units[r] \in Nat
    BY <1>7, ConstantsAssumption DEF PricingInv, TypeOK
  <2> QED
    BY <2>1
<1>12. priced' \in [Request -> Priced]
  <2>1. m.version.value \in Nat
    BY <1>5, ConstantsAssumption
  <2>2. PricedAt(r, observed[r], units[r]) \in Priced
    BY <1>6, <1>9, <1>11, <2>1 DEF Priced
  <2> QED
    BY <1>1, <2>2 DEF PricingInv, TypeOK
<1>13. /\ priced'[r].version = m.version.value /\ priced'[r].amount = amount
       /\ priced'[r].known = known
  <2>1. priced'[r] = [version |-> m.version.value, amount |-> amount, known |-> known]
    BY <1>1, <1>6 DEF PricingInv, TypeOK
  <2> HIDE DEF amount
  <2> QED
    BY <2>1
<1> DEFINE row == RowOf(r)'
<1>14. /\ row.route = route[r] /\ row.version = m.version.value /\ row.amount = amount
       /\ row.units = units[r] /\ row.ledger = observed[r] /\ row.known = known
       /\ row.endpoint = EndpointHash(row.route.method, row.route.path)
  <2> HIDE DEF amount
  <2> QED
    BY <1>1, <1>13 DEF RowOf
<1> HIDE DEF row
<1>15. \A k \in DOMAIN doc : IsRuleFor(doc[k], route[r]) => amount = doc[k].price * units[r]
  BY <1>7
<1> HIDE DEF amount
<1>16. Charged(row)
  <2>1. /\ row.known \subseteq {k.version.value : k \in book}
        /\ row.endpoint = EndpointHash(row.route.method, row.route.path)
    BY <1>9, <1>14
  <2>2. /\ m.version.value = row.version /\ m.effective_ledger.value <= row.ledger
        /\ m.version.value \in row.known
        /\ \A k \in book : k.version.value \in row.known /\ k.effective_ledger.value <= row.ledger
              => k.effective_ledger.value <= m.effective_ledger.value
    BY <1>3, <1>5, <1>10, <1>14 DEF PricingInv, CatalogInv
  <2>3. /\ \E k \in DOMAIN Document[row.version] : IsRuleFor(Document[row.version][k], row.route)
        /\ \A k \in DOMAIN Document[row.version] :
              IsRuleFor(Document[row.version][k], row.route)
                => row.amount = Document[row.version][k].price * row.units
    BY <1>7, <1>14, <1>15
  <2> QED
    BY <2>1, <2>2, <2>3 DEF Charged
<1> QED
  BY <1>12, <1>16 DEF row

\* A charge fits its row.
LEMMA RowsHaveTheirType ==
    ASSUME PricingInv, NEW r \in Request, pc[r] \in WithCharge
    PROVE  RowOf(r) \in Row
<1>1. Charged(RowOf(r)) /\ route[r] \in Route /\ info[r] \in Info /\ Validate(info[r])
  BY DEF PricingInv, ChargeInv, WithRoute, Accepted
<1>2. RowOf(r).version = priced[r].version
  BY DEF RowOf
<1>3. priced[r].version \in Version
  BY <1>1, <1>2 DEF Charged, PricingInv, BookInv
<1>4. /\ priced[r].amount \in Nat /\ priced[r].known \in SUBSET Version
      /\ units[r] \in Nat /\ observed[r] \in 1 .. MaxLedger
  BY ConstantsAssumption DEF PricingInv, TypeOK, Priced
<1>5. /\ info[r].consumer \in {"set"}
      /\ info[r].protocol \in {"x402", "mpp_charge", "mpp_session"}
      /\ (IF info[r].channel = "" THEN None ELSE info[r].channel) \in {"set", None}
  BY <1>1 DEF Info, Validate
<1> QED
  BY <1>1, <1>3, <1>4, <1>5 DEF RowOf, Row

LEMMA HandleKeepsPricingInv ==
    ASSUME PricingInv, NEW r \in Request, Handle(r)
    PROVE  PricingInv'
<1> USE DEF WithCharge, WithRoute
<1>1. CASE (\E c \in Call : RejectInfo(r, c)) \/ LedgerUnavailable(r) \/ PriceFails(r) \/ NoRequestID(r)
  <2>1. RefuseUnmetered(r)
    BY <1>1 DEF RejectInfo, LedgerUnavailable, PriceFails, NoRequestID
  <2>2. TypeOK'
    BY <2>1 DEF RefuseUnmetered, PricingInv, TypeOK, PC, Answer
  <2> QED
    BY <2>1, <2>2, MoveKeepsPricingInv DEF RefuseUnmetered, PricingInv, TypeOK, ChargeInv, Accepted, RowOf
<1>2. CASE \E c \in Call, n \in 0 .. MaxUnits + 1 : AcceptInfo(r, c, n)
  <2>1. PICK c \in Call, n \in 0 .. MaxUnits + 1 : AcceptInfo(r, c, n)
    BY <1>2
  <2>2. c.route \in Route /\ c.info \in Info /\ Validate(c.info)
    BY <2>1, ConstantsAssumption DEF AcceptInfo, HasInfo
  <2>3. TypeOK'
    BY <2>1, <2>2 DEF AcceptInfo, PricingInv, TypeOK, PC
  <2> QED
    BY <2>1, <2>2, <2>3, MoveKeepsPricingInv
       DEF AcceptInfo, PricingInv, TypeOK, ChargeInv, Accepted, RowOf
<1>3. CASE ObserveLedger(r)
  <2>1. TypeOK'
    BY <1>3 DEF ObserveLedger, PricingInv, TypeOK, PC
  <2> QED
    BY <1>3, <2>1, MoveKeepsPricingInv DEF ObserveLedger, PricingInv, TypeOK, ChargeInv, Accepted, RowOf
<1>4. CASE Price(r)
  <2>1. priced' \in [Request -> Priced] /\ Charged(RowOf(r)')
    BY <1>4, PriceIsCharged
  <2>2. /\ pc[r] = "price" /\ pc' = [pc EXCEPT ![r] = "insert"]
        /\ \A q \in Request \ {r} : priced'[q] = priced[q]
        /\ UNCHANGED <<ledger, book, up, catalog, known, route, info, units, observed, rows, out>>
    BY <1>4 DEF Price, PricingInv, TypeOK
  <2>3. TypeOK'
    BY <2>1, <2>2 DEF PricingInv, TypeOK, PC
  <2>4. \A q \in Request : pc'[q] \in WithCharge =>
           \/ pc[q] \in WithCharge /\ RowOf(q)' = RowOf(q)
           \/ Charged(RowOf(q)')
    <3> SUFFICES ASSUME NEW q \in Request \ {r}, pc'[q] \in WithCharge
                 PROVE  pc[q] \in WithCharge /\ RowOf(q)' = RowOf(q)
      BY <2>1
    <3> QED
      BY <2>2 DEF RowOf, PricingInv, TypeOK
  <2>5. \A q \in Request : pc'[q] \in WithRoute => Accepted(q)'
    BY <2>2 DEF PricingInv, ChargeInv, Accepted, TypeOK
  <2> QED
    BY <2>2, <2>3, <2>4, <2>5, MoveKeepsPricingInv
<1>5. CASE Serve(r) \/ InsertFails(r) \/ RecordUnanswered(r)
  <2>1. TypeOK'
    BY <1>5 DEF Serve, InsertFails, RecordUnanswered, PricingInv, TypeOK, PC, Answer
  <2> QED
    BY <1>5, <2>1, MoveKeepsPricingInv
       DEF Serve, InsertFails, RecordUnanswered, PricingInv, TypeOK, ChargeInv, Accepted, RowOf
<1>6. CASE InsertRow(r)
  <2>1. RowOf(r) \in Row
    BY <1>6, RowsHaveTheirType DEF InsertRow
  <2>2. TypeOK'
    BY <1>6, <2>1 DEF InsertRow, PricingInv, TypeOK, PC
  <2>3. /\ rows' = rows \cup {RowOf(r)} /\ pc[r] \in WithCharge
        /\ pc' = [pc EXCEPT ![r] = IF @ = "insert" THEN "reply" ELSE "end"]
        /\ UNCHANGED <<book, catalog, known, route, info, units, observed, priced>>
    BY <1>6 DEF InsertRow
  <2>4. \A q \in Request : RowOf(q)' = RowOf(q)
    BY <2>3 DEF RowOf
  <2>5. \A q \in Request : pc'[q] \in WithRoute => pc[q] \in WithCharge \/ pc'[q] = pc[q]
    BY <2>3 DEF PricingInv, TypeOK
  <2>6. \A q \in Request : pc'[q] \in WithCharge => pc[q] \in WithCharge
    BY <2>5
  <2>7. \A q \in Request : pc'[q] \in WithRoute => Accepted(q)'
    BY <2>3, <2>5 DEF PricingInv, ChargeInv, Accepted
  <2>8. \A x \in rows' : x \in rows \/ \E q \in Request : pc[q] \in WithCharge /\ x = RowOf(q)
    BY <2>3
  <2> QED
    BY <2>2, <2>3, <2>4, <2>6, <2>7, <2>8, MoveKeepsPricingInv
<1> QED
  BY <1>1, <1>2, <1>3, <1>4, <1>5, <1>6 DEF Handle

\* The version that is published has a number nobody has known, and takes
\* effect after all before it.
LEMMA PublishKeepsPricingInv ==
    ASSUME PricingInv, NEW effective \in 1 .. MaxLedger, Publish(effective)
    PROVE  PricingInv'
<1> DEFINE v == Cardinality(book) + 1
           new == Record(PublishArgs(Operator, ScheduleHash(Document[v]), v, effective), v, ledger)
<1>1. /\ v \in Version /\ book' = book \cup {new}
      /\ \A m \in book : m.effective_ledger.value < effective
      /\ UNCHANGED <<ledger, up, catalog, known, pc, route, info, units, observed, priced, rows, out>>
  BY DEF Publish
<1>2. /\ new.version = ScvU32(v) /\ new.version.value = v
      /\ new.schedule_hash = ScvBytes(ScheduleHash(Document[v]))
      /\ new.effective_ledger.value = effective
  BY DEF Record, PublishArgs, ScvU32, ScvBytes
<1> HIDE DEF new
<1>3. IsFiniteSet(book) /\ Cardinality(book) \in Nat
  BY FS_CardinalityType DEF PricingInv, BookInv
<1>4. new \notin book
  BY <1>1, <1>2, <1>3 DEF PricingInv, BookInv
<1>5. IsFiniteSet(book') /\ Cardinality(book') = v
  BY <1>1, <1>3, <1>4, FS_AddElement
<1>6. \A m \in book : m.version.value \in 1 .. Cardinality(book) /\ m.version.value # v
  BY <1>3 DEF PricingInv, BookInv
<1> HIDE DEF v
<1>7. TypeOK'
  <2>1. \A m \in book' : m.version.value \in Version /\ m.effective_ledger.value \in 1 .. MaxLedger
    BY <1>1, <1>2 DEF PricingInv, BookInv
  <2> QED
    BY <1>1, <2>1 DEF PricingInv, TypeOK
<1>8. BookInv'
  <2>1. \A m \in book' :
          /\ m.version.value \in Version /\ m.version.value \in 1 .. Cardinality(book')
          /\ m.effective_ledger.value \in 1 .. MaxLedger
          /\ m.version = ScvU32(m.version.value)
          /\ m.schedule_hash = ScvBytes(ScheduleHash(Document[m.version.value]))
    <3> SUFFICES ASSUME NEW m \in book', m.version.value \notin 1 .. Cardinality(book')
                 PROVE  FALSE
      BY <1>1, <1>2 DEF PricingInv, BookInv
    <3>1. v = Cardinality(book) + 1
      BY DEF v
    <3> QED
      BY <1>1, <1>2, <1>3, <1>5, <1>6, <3>1
  <2>2. ASSUME NEW m \in book', NEW k \in book',
               m.version.value = k.version.value
                 \/ m.effective_ledger.value = k.effective_ledger.value
        PROVE  m = k
    <3>1. \A l \in book : l.effective_ledger.value # effective
      BY <1>1 DEF PricingInv, BookInv
    <3> QED
      BY <1>1, <1>2, <1>6, <2>2, <3>1 DEF PricingInv, BookInv
  <2> QED
    BY <1>5, <2>1, <2>2 DEF BookInv
<1>9. CatalogInv'
  BY <1>1 DEF PricingInv, CatalogInv, Entry
<1>10. \A x : Charged(x) => Charged(x)'
  <2> SUFFICES ASSUME NEW x, Charged(x) PROVE Charged(x)'
    OBVIOUS
  <2>1. x.known \subseteq {m.version.value : m \in book'} /\ v \notin x.known
    BY <1>1, <1>6 DEF Charged
  <2>2. \E m \in book' :
          /\ m.version.value = x.version /\ m.effective_ledger.value <= x.ledger
          /\ \A k \in book' : k.version.value \in x.known /\ k.effective_ledger.value <= x.ledger
                => k.effective_ledger.value <= m.effective_ledger.value
    BY <1>1, <1>2, <2>1 DEF Charged
  <2> QED
    BY <2>1, <2>2 DEF Charged
<1>11. ChargeInv'
  <2>1. \A r : RowOf(r)' = RowOf(r)
    BY <1>1 DEF RowOf
  <2>2. \A r \in Request : pc[r] \in WithCharge => Charged(RowOf(r))'
    <3> SUFFICES ASSUME NEW r \in Request, pc[r] \in WithCharge PROVE Charged(RowOf(r))'
      OBVIOUS
    <3>1. PICK row : row = RowOf(r)
      OBVIOUS
    <3>2. Charged(row)
      BY <3>1 DEF PricingInv, ChargeInv
    <3>3. Charged(row)' /\ RowOf(r)' = row
      BY <1>10, <2>1, <3>1, <3>2
    <3> QED
      BY <3>3 DEF Charged
  <2> QED
    BY <1>1, <1>10, <2>2 DEF PricingInv, ChargeInv, Accepted, WithCharge, WithRoute
<1> QED
  BY <1>7, <1>8, <1>9, <1>11 DEF PricingInv

\* Read in either way, the book gives the same entries: the schedule is found
\* by its hash.
LEMMA EntriesOfTheBook ==
    ASSUME PricingInv, NEW versions \in {GetVersions(book), PublishEvents(book)}
    PROVE  {CatalogVersion(w) : w \in versions} = {Entry(m) : m \in book}
<1> DEFINE Read(m) == [operator |-> m.operator.value, version |-> m.version.value,
                       hash |-> m.schedule_hash.value, effective |-> m.effective_ledger.value]
<1>1. versions = {Read(m) : m \in book}
  BY DEF GetVersions, PublishEvents, decodePriceBookVersion, DecodePriceBookPublishEvent,
         PublishEvent, Decode
<1>2. \A m \in book : CatalogVersion(Read(m)) = Entry(m)
  <2> SUFFICES ASSUME NEW m \in book PROVE CatalogVersion(Read(m)) = Entry(m)
    OBVIOUS
  <2>1. /\ m.version.value \in DOMAIN Document
        /\ m.schedule_hash = ScvBytes(ScheduleHash(Document[m.version.value]))
    BY DEF PricingInv, BookInv, Version
  <2>2. Read(m).hash = ScheduleHash(Document[m.version.value])
    BY <2>1 DEF ScvBytes
  <2>3. \A d, e : ScheduleHash(d) = ScheduleHash(e) => d = e
    BY DEF ScheduleHash
  <2>4. Document[m.version.value] \in Range(Document)
    BY <2>1 DEF Range
  <2>5. /\ Read(m).version = m.version.value
        /\ Read(m).effective = m.effective_ledger.value
    OBVIOUS
  <2> HIDE DEF Read
  <2>6. (CHOOSE d \in Range(Document) : ScheduleHash(d) = Read(m).hash)
           = Document[m.version.value]
    BY <2>2, <2>3, <2>4
  <2> QED
    BY <2>5, <2>6 DEF CatalogVersion, Entry
<1> HIDE DEF Read
<1>3. ASSUME NEW w \in versions PROVE CatalogVersion(w) \in {Entry(m) : m \in book}
  BY <1>1, <1>2
<1>4. ASSUME NEW m \in book
      PROVE  Entry(m) \in {CatalogVersion(w) : w \in versions}
  <2>1. Read(m) \in versions /\ CatalogVersion(Read(m)) = Entry(m)
    BY <1>1, <1>2
  <2> QED
    BY <2>1
<1> QED
  BY <1>3, <1>4

\* A sequence of the entries that takes each effective ledger once has them all.
LEMMA InjectiveIsSurjective ==
    ASSUME NEW entries, IsFiniteSet(entries),
           NEW cat \in [1 .. Cardinality(entries) -> entries],
           \A v \in entries : v.effective \in Nat,
           \A i, j \in 1 .. Cardinality(entries) :
              i < j => cat[i].effective < cat[j].effective
    PROVE  cat \in Surjection(1 .. Cardinality(entries), entries)
<1> DEFINE n == Cardinality(entries)
<1>1. n \in Nat
  BY FS_CardinalityType
<1>2. IsFiniteSet(1 .. n) /\ Cardinality(1 .. n) = n
  BY <1>1, FS_Interval
<1>3. cat \in Injection(1 .. n, entries)
  <2>1. ASSUME NEW i \in 1 .. n, NEW j \in 1 .. n, cat[i] = cat[j]
        PROVE  i = j
    <3>1. cat[i] \in entries /\ cat[i].effective \in Nat
      OBVIOUS
    <3>2. ~ (i < j) /\ ~ (j < i)
      BY <2>1, <3>1
    <3> QED
      BY <1>1, <3>2
  <2> QED
    BY <2>1 DEF Injection, IsInjective
<1>4. cat \in Surjection(1 .. n, entries)
  BY <1>2, <1>3, FS_Injection
<1> QED
  BY <1>4

LEMMA StartServiceKeepsPricingInv == PricingInv /\ StartService => PricingInv'
<1> SUFFICES ASSUME PricingInv, StartService PROVE PricingInv'
  OBVIOUS
<1> DEFINE entries == {Entry(m) : m \in book}
<1>1. /\ Consistent(entries) /\ catalog' = NewCatalog(entries) /\ up' = TRUE
      /\ known' = {m.version.value : m \in book}
      /\ UNCHANGED <<ledger, book, pc, route, info, units, observed, priced, rows, out>>
  BY EntriesOfTheBook DEF StartService
<1>2. \A v \in entries : \E m \in book : v = Entry(m) /\ Parses(Document[m.version.value])
  BY <1>1 DEF Consistent, Entry
<1>3. IsFiniteSet(entries)
  <2> DEFINE f == [m \in book |-> Entry(m)]
  <2>1. f \in Surjection(book, entries)
    BY DEF Surjection
  <2>2. IsFiniteSet(book)
    BY DEF PricingInv, BookInv
  <2> HIDE DEF f, entries
  <2> QED
    BY <2>1, <2>2, FS_Surjection
<1>4. /\ \A v \in entries : v.effective \in Nat /\ v.version \in Version
      /\ \A v, w \in entries : v.effective = w.effective => v = w
  BY DEF PricingInv, BookInv, Entry
<1> HIDE DEF entries
<1>5. /\ catalog' \in [1 .. Cardinality(entries) -> entries]
      /\ \A i, j \in 1 .. Cardinality(entries) :
            i < j => catalog'[i].effective < catalog'[j].effective
      /\ Cardinality(entries) \in Nat
  BY <1>1, <1>3, <1>4, SortedCatalog, FS_CardinalityType
<1>6. Len(catalog') = Cardinality(entries) /\ DOMAIN catalog' = 1 .. Cardinality(entries)
  BY <1>5
<1>7. CatalogInv'
  <2>1. known' = {catalog'[i].version : i \in 1 .. Cardinality(entries)}
    <3>1. catalog' \in Surjection(1 .. Cardinality(entries), entries)
      BY <1>3, <1>4, <1>5, InjectiveIsSurjective
    <3>2. \A m \in book : Entry(m).version = m.version.value
      BY DEF Entry
    <3>3. known' = {v.version : v \in entries}
      BY <1>1, <3>2 DEF entries
    <3> QED
      BY <3>1, <3>3 DEF Surjection
  <2> QED
    BY <1>1, <1>2, <1>5, <1>6, <2>1 DEF CatalogInv, Entry
<1>8. TypeOK'
  <2>1. \A v \in Range(catalog') : v.version \in Version
    BY <1>4, <1>5 DEF Range
  <2>2. known' \subseteq Version
    BY <1>1 DEF PricingInv, BookInv
  <2> QED
    BY <1>1, <2>1, <2>2 DEF PricingInv, TypeOK
<1>9. BookInv' /\ ChargeInv'
  <2>1. \A x : Charged(x)' <=> Charged(x)
    BY <1>1 DEF Charged
  <2>2. \A r \in Request : pc[r] \in WithCharge => Charged(RowOf(r))'
    <3> SUFFICES ASSUME NEW r \in Request, pc[r] \in WithCharge PROVE Charged(RowOf(r))'
      BY <1>1
    <3>1. Charged(RowOf(r))
      BY DEF PricingInv, ChargeInv
    <3>2. RowOf(r)' = RowOf(r)
      BY <1>1 DEF RowOf
    <3> QED
      BY <1>1, <3>1, <3>2 DEF Charged
  <2> QED
    BY <1>1, <2>1, <2>2 DEF PricingInv, BookInv, ChargeInv, Accepted, WithRoute
<1> QED
  BY <1>7, <1>8, <1>9 DEF PricingInv

LEMMA NextKeepsPricingInv == PricingInv /\ [Next]_vars => PricingInv'
<1> SUFFICES ASSUME PricingInv, [Next]_vars PROVE PricingInv'
  OBVIOUS
<1>1. CASE CloseLedger
  <2>1. TypeOK'
    BY <1>1, ConstantsAssumption DEF CloseLedger, PricingInv, TypeOK
  <2> QED
    BY <1>1, <2>1, MoveKeepsPricingInv DEF CloseLedger, PricingInv, ChargeInv, Accepted, RowOf
<1>2. ASSUME NEW l \in 1 .. MaxLedger, Publish(l) PROVE PricingInv'
  BY <1>2, PublishKeepsPricingInv
<1>3. CASE StartService
  BY <1>3, StartServiceKeepsPricingInv
<1>4. CASE Crash
  <2>1. TypeOK'
    BY <1>4 DEF Crash, PricingInv, TypeOK, PC
  <2>2. \A r \in Request : /\ pc'[r] \in WithCharge => pc[r] \in WithCharge
                           /\ pc'[r] \in WithRoute => pc[r] \in WithRoute
    BY <1>4 DEF Crash, WithCharge, WithRoute
  <2> QED
    BY <1>4, <2>1, <2>2, MoveKeepsPricingInv DEF Crash, PricingInv, ChargeInv, Accepted, RowOf
<1>5. ASSUME NEW r \in Request, Handle(r) PROVE PricingInv'
  BY <1>5, HandleKeepsPricingInv
<1>6. CASE UNCHANGED vars
  <2>1. TypeOK'
    BY <1>6 DEF vars, PricingInv, TypeOK
  <2> QED
    BY <1>6, <2>1, MoveKeepsPricingInv DEF vars, PricingInv, ChargeInv, Accepted, RowOf
<1> QED
  BY <1>1, <1>2, <1>3, <1>4, <1>5, <1>6 DEF Next

\* Book, catalog and charges are related as PricingInv says: what was priced is
\* priced by the last version in force that the service knew.
THEOREM PricingInvariance == Spec => []PricingInv
<1>1. PricingInv /\ [Next]_vars => PricingInv'
  BY NextKeepsPricingInv
<1> QED
  BY <1>1, InitPricingInv, PTL DEF Spec

\* The variables of Metering have their types.
THEOREM TypeCorrect == Spec => []TypeOK
<1>1. PricingInv => TypeOK
  BY DEF PricingInv
<1> QED
  BY <1>1, PricingInvariance, PTL

\* "Served but never recorded is a worse failure than rejected before being
\* served" (metering.go:171-181): served requests have their one row, requests
\* refused before the Recorder have none, whatever crashes and outlives what, and
\* none is sent that the table refuses for who paid how.
THEOREM MeteringFailsClosed == Spec => []FailsClosed
<1>1. IInv /\ PricingInv => FailsClosed
  BY PricingInvImpliesPaymentChecks DEF IInv, RowsInv, FailsClosed, WithCharge
<1> QED
  BY <1>1, Invariance, PricingInvariance, PTL

\* A recorded request carries the version and the charge that the price book of
\* the service's start gives for the ledger it is stamped with, whatever is
\* published, closed, crashes or starts again between reading the ledger and
\* committing the row.
THEOREM ChargedAsPublished == Spec => []PricedAsPublished
BY PricingInvariance, PricingInvImpliesPricedAsPublished, PTL

\* No two recorded requests have one leaf, and the endpoint in a leaf tells the
\* rule it was charged by, for routes configured in upper case.
THEOREM LeavesAreRight == Spec => []LeavesTellTheRule
<1>1. IInv => RowsInv
  BY DEF IInv
<1> QED
  BY <1>1, Invariance, PricingInvariance, InvariantsImplyLeavesTellTheRule, PTL

=============================================================================
