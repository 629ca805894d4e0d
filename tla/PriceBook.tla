------------------------------ MODULE PriceBook ------------------------------
(***************************************************************************)
(* internal/meter/schedule.go and internal/stellar/pricebook.go: price     *)
(* schedules, and the versions of them in the price_book contract, which   *)
(* is external.  Versions are published by arguments in one order, read    *)
(* back by field name, and announced by events in another order.           *)
(*                                                                         *)
(* A schedule document is the sequence of its rules [method, path, price]; *)
(* a price that is no integer is NotANumber.  No method has a space in it, *)
(* so that scheduleKey is as good as the pair.                             *)
(***************************************************************************)
EXTENDS ScVal, SequencesExt

CONSTANTS
    Operator,
    Document,     \* Document[v]: the document of the version v, once published
    Text,         \* what methods and paths are written as
    Trim,         \* strings.TrimSpace on Text
    ToUpper,      \* strings.ToUpper on Text
    Rooted,       \* the members of Text that start with "/"
    NotANumber,
    NoRule        \* Lookup finds no rule

MaxI128 == Modulus \div 2 - 1

\* A rule's endpoint as Schedule keeps it.
scheduleKey(method, path) == [method |-> method, path |-> path]

\* Bug: the case of a rule's method is kept.
RuleKeyAsWritten(rule) == scheduleKey(Trim[rule.method], Trim[rule.path])

RuleKey(rule) == scheduleKey(ToUpper[Trim[rule.method]], Trim[rule.path])

\* ParseSchedule accepts the document.
Parses(doc) ==
    /\ doc # <<>>
    /\ \A n \in DOMAIN doc :
          /\ RuleKey(doc[n]).method # "" /\ RuleKey(doc[n]).path \in Rooted
          /\ doc[n].price \in 0 .. MaxI128
    /\ IsInjective([n \in DOMAIN doc |-> RuleKey(doc[n])])

\* Schedule.Lookup: the unit price, NoRule if there is none.
Lookup(doc, method, path) ==
    LET n == SelectLastInSeq(doc, LAMBDA rule : RuleKey(rule) = scheduleKey(ToUpper[method], path))
    IN  IF n = 0 THEN NoRule ELSE doc[n].price

\* Of the raw document, and without collisions.
ScheduleHash(doc) == <<"sha256", doc>>

-----------------------------------------------------------------------------
\* Publish; the URI is where the document can be fetched.
PublishArgs(operator, hash, uri, effective) ==
    <<ScvAddress(operator), ScvBytes(hash), ScvString(uri), ScvU32(effective)>>

\* price_book's record of a version, and its event: external.
Record(args, version, ledger) ==
    [operator |-> args[1], version |-> ScvU32(version), schedule_hash |-> args[2],
     uri |-> args[3], effective_ledger |-> args[4], published_ledger |-> ScvU32(ledger)]

PublishEvent(m) == <<m.operator, m.version, m.schedule_hash, m.effective_ledger>>

\* Bug: a version takes effect when it is published.
decodePriceBookVersionAtOnce(m) ==
    [operator |-> Decode(m.operator), version |-> Decode(m.version),
     hash |-> Decode(m.schedule_hash), effective |-> Decode(m.published_ledger)]

\* GetVersion's answer, without the URI and the ledger of publication.
decodePriceBookVersion(m) ==
    [operator |-> Decode(m.operator), version |-> Decode(m.version),
     hash |-> Decode(m.schedule_hash), effective |-> Decode(m.effective_ledger)]

DecodePriceBookPublishEvent(f) ==
    [operator |-> Decode(f[1]), version |-> Decode(f[2]),
     hash |-> Decode(f[3]), effective |-> Decode(f[4])]

\* price_book.version_at: of the versions in force at or before ledger l, the
\* one with the greatest effective ledger.
EffectiveAt(book, l) == {m \in book : m.effective_ledger.value <= l}

PublishedAt(book, l) ==
    CHOOSE m \in EffectiveAt(book, l) :
        \A n \in EffectiveAt(book, l) : n.effective_ledger.value <= m.effective_ledger.value

\* What a service can read of the contract: each version, or the events.
GetVersions(book) == {decodePriceBookVersion(m) : m \in book}

PublishEvents(book) == {DecodePriceBookPublishEvent(PublishEvent(m)) : m \in book}

\* A CatalogVersion: the schedule is the document that has the hash.
CatalogVersion(v) ==
    [version |-> v.version, effective |-> v.effective,
     schedule |-> CHOOSE doc \in Range(Document) : ScheduleHash(doc) = v.hash]

=============================================================================
