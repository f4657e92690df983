---------------------------- MODULE AuditLogProofs ----------------------------
(***************************************************************************)
(* Theorems about AuditLog for any number of writers and events.           *)
(***************************************************************************)
EXTENDS AuditLog, FiniteSetTheorems, SequenceTheorems, TLAPS

\* Hash h, read or written at time t, commits to nothing or to an event of E
\* that is no younger than t.
Resolves(E, h, t) ==
  \/ h = None
  \/ \E f \in E : f.hash = h /\ f.time <= t

TimesOK ==
  /\ now \in Nat
  /\ \A e \in events : e.time \in Nat /\ e.time <= now

\* The hash of call r has been selected by time t, or its event stamped.
Links(E, r, t) ==
  /\ r.kind = "selected" => Resolves(E, r.previous, t)
  /\ r.kind = "insert" => /\ r.event.time \in Nat
                          /\ r.event.time <= t
                          /\ Resolves(E, r.event.previous, r.event.time)

\* The links of the stored events, strengthened by those of the calls in flight.
LinkInv ==
  /\ TimesOK
  /\ \A e \in events : Resolves(events, e.previous, e.time)
  /\ DOMAIN writes = Writers
  /\ \A w \in Writers : Links(events, writes[w], now)

-----------------------------------------------------------------------------
\* A hash that resolves keeps resolving: events stay, and time only grows.
LEMMA ResolvesStays ==
  ASSUME NEW E, NEW F, E \subseteq F, \A e \in E : e.time \in Nat,
         NEW h, NEW t \in Nat, NEW u \in Nat, t <= u, Resolves(E, h, t)
  PROVE  Resolves(F, h, u)
BY DEF Resolves

\* So does a call that does not move.
LEMMA LinksStay ==
  ASSUME NEW E, NEW F, E \subseteq F, \A e \in E : e.time \in Nat,
         NEW r, NEW t \in Nat, NEW u \in Nat, t <= u, Links(E, r, t)
  PROVE  Links(F, r, u)
<1>1. r.kind = "selected" => Resolves(F, r.previous, u)
  BY ResolvesStays DEF Links
<1>2. ASSUME r.kind = "insert"
      PROVE  /\ r.event.time \in Nat
             /\ r.event.time <= u
             /\ Resolves(F, r.event.previous, r.event.time)
  <2>1. /\ r.event.time \in Nat
        /\ r.event.time <= t
        /\ Resolves(E, r.event.previous, r.event.time)
    BY <1>2 DEF Links
  <2>2. r.event.time <= u
    BY <2>1
  <2>3. r.event.time <= r.event.time
    BY <2>1
  <2>4. Resolves(F, r.event.previous, r.event.time)
    BY <2>1, <2>3, ResolvesStays
  <2> QED BY <2>1, <2>2, <2>4
<1> QED BY <1>1, <1>2 DEF Links

\* What SELECT ... LIMIT 1 returns resolves.
LEMMA LastResolves ==
  ASSUME TimesOK, NEW h \in LastHashes
  PROVE  Resolves(events, h, now)
<1>1. CASE events = {}
  BY <1>1 DEF LastHashes, Resolves
<1>2. CASE events # {}
  BY <1>2 DEF LastHashes, Latest, Resolves, TimesOK
<1> QED BY <1>1, <1>2

-----------------------------------------------------------------------------
\* A step of one writer's call that leaves the events and the clock alone.
LEMMA CallStep ==
  ASSUME LinkInv, NEW w \in Writers, NEW r,
         writes' = [writes EXCEPT ![w] = r], UNCHANGED <<events, now>>,
         Links(events, r, now)
  PROVE  LinkInv'
<1>1. \A v \in Writers : Links(events, writes'[v], now)
  BY DEF LinkInv
<1> QED BY <1>1 DEF LinkInv, TimesOK

LEMMA AuditStart == AuditInit => LinkInv
BY DEF AuditInit, LinkInv, TimesOK, Links, NotWriting, Resolves

LEMMA AuditStep == LinkInv /\ [AuditNext]_auditVars => LinkInv'
<1> SUFFICES ASSUME LinkInv, [AuditNext]_auditVars
             PROVE  LinkInv'
  OBVIOUS
<1>1. ASSUME NEW w \in Writers, NEW d \in Data, NEW c \in Columns, SelectLast(w, d, c)
      PROVE  LinkInv'
  <2>1. PICK previous \in LastHashes :
          writes' = [writes EXCEPT ![w] =
            [kind |-> "selected", data |-> d, columns |-> c, previous |-> previous]]
    BY <1>1 DEF SelectLast
  <2>2. Resolves(events, previous, now)
    BY LastResolves DEF LinkInv
  <2>3. Links(events, [kind |-> "selected", data |-> d, columns |-> c, previous |-> previous], now)
    BY <2>2 DEF Links
  <2> QED BY <1>1, <2>1, <2>3, CallStep DEF SelectLast
<1>2. ASSUME NEW w \in Writers, StampEvent(w)
      PROVE  LinkInv'
  <2> DEFINE e == NewEvent([data |-> writes[w].data, time |-> now], writes[w].columns, writes[w].previous)
             r == [kind |-> "insert", event |-> e]
  <2>1. writes' = [writes EXCEPT ![w] = r]
    BY <1>2 DEF StampEvent
  <2>2. Resolves(events, writes[w].previous, now)
    BY <1>2 DEF StampEvent, LinkInv, Links
  <2>3. e.time = now /\ e.previous = writes[w].previous
    BY DEF NewEvent
  <2>4. Links(events, r, now)
    BY <2>2, <2>3 DEF Links, LinkInv, TimesOK
  <2> HIDE DEF e, r
  <2> QED BY <1>2, <2>1, <2>4, CallStep DEF StampEvent
<1>3. ASSUME NEW w \in Writers, InsertEvent(w)
      PROVE  LinkInv'
  <2> DEFINE e == writes[w].event
  <2>1. /\ events' = events \/ events' = events \cup {e}
        /\ writes' = [writes EXCEPT ![w] = NotWriting]
        /\ now' = now
    BY <1>3 DEF InsertEvent
  <2>2. /\ e.time \in Nat
        /\ e.time <= now
        /\ Resolves(events, e.previous, e.time)
    BY <1>3 DEF InsertEvent, LinkInv, Links
  <2>3. TimesOK'
    BY <2>1, <2>2 DEF LinkInv, TimesOK
  <2>4. \A f \in events' : Resolves(events', f.previous, f.time)
    BY <2>1, <2>2 DEF LinkInv, Resolves
  <2>5. ASSUME NEW v \in Writers
        PROVE  Links(events', writes'[v], now')
    <3>1. CASE v = w
      BY <2>1, <3>1 DEF LinkInv, Links, NotWriting
    <3>2. CASE v # w
      <4>1. writes'[v] = writes[v] /\ Links(events, writes[v], now)
        BY <2>1, <3>2 DEF LinkInv
      <4>2. /\ events \subseteq events' /\ now \in Nat /\ now' \in Nat /\ now <= now'
            /\ \A f \in events : f.time \in Nat
        BY <2>1 DEF LinkInv, TimesOK
      <4> QED BY <4>1, <4>2, LinksStay
    <3> QED BY <3>1, <3>2
  <2> QED BY <2>1, <2>3, <2>4, <2>5 DEF LinkInv
<1>4. ASSUME NEW w \in Writers, FailWrite(w)
      PROVE  LinkInv'
  <2>1. Links(events, NotWriting, now)
    BY DEF Links, NotWriting
  <2> QED BY <1>4, <2>1, CallStep DEF FailWrite
<1>5. CASE AuditTick
  <2>1. /\ now \in Nat /\ now' \in Nat /\ now <= now' /\ events' = events
        /\ writes' = writes /\ \A f \in events : f.time \in Nat
    BY <1>5 DEF AuditTick, LinkInv, TimesOK
  <2>2. \A v \in Writers : Links(events', writes'[v], now')
    BY <2>1, LinksStay DEF LinkInv
  <2>3. TimesOK'
    BY <2>1 DEF LinkInv, TimesOK
  <2> QED BY <2>1, <2>2, <2>3 DEF LinkInv
<1>6. CASE UNCHANGED auditVars
  BY <1>6 DEF auditVars, LinkInv, TimesOK
<1> QED BY <1>1, <1>2, <1>3, <1>4, <1>5, <1>6 DEF AuditNext

\* Every stored event links to nothing or to a stored event that is no younger,
\* however many writers overlap and whichever of their writes fail.
THEOREM LinksAlwaysResolve == AuditSpec => []LinksResolve
<1>1. LinkInv => LinksResolve
  BY DEF LinkInv, LinksResolve, Resolves
<1> QED BY <1>1, AuditStart, AuditStep, PTL DEF AuditSpec
-----------------------------------------------------------------------------
(* Refinement of AuditTrail.  A hash determines timestamp and predecessor,   *)
(* because every event stored or in flight was made by NewEvent; that no two *)
(* entries of the trail have one hash is the UNIQUE of the column.           *)

Built(e) == \E p \in Payload, c \in Columns, q \in Seq(Payload) : e = NewEvent(p, c, q)

Making(r) ==
  /\ r.kind = "selected" => r.data \in Data /\ r.columns \in Columns /\ r.previous \in Seq(Payload)
  /\ r.kind = "insert" => Built(r.event)

BuiltInv ==
  /\ \A e \in events : Built(e)
  /\ \A w \in Writers : Making(writes[w])

\* Events of equal hashes were linked to one predecessor at one time.
LEMMA HashIdentifies ==
  ASSUME NEW e, NEW f, Built(e), Built(f), e.hash = f.hash
  PROVE  e.time = f.time /\ e.previous = f.previous
<1>1. PICK p \in Payload, c \in Columns, q \in Seq(Payload) : e = NewEvent(p, c, q)
  BY DEF Built
<1>2. PICK r \in Payload, d \in Columns, u \in Seq(Payload) : f = NewEvent(r, d, u)
  BY DEF Built
<1>3. Append(q, p) = Append(u, r)
  BY <1>1, <1>2 DEF NewEvent, ComputeHash
<1>4. p = r /\ q = u
  BY <1>3, AppendInjective
<1> QED BY <1>1, <1>2, <1>4 DEF NewEvent

\* A selected hash is a sequence of payloads.
LEMMA LastIsSequence ==
  ASSUME BuiltInv, NEW h \in LastHashes
  PROVE  h \in Seq(Payload)
<1>1. CASE events = {}
  BY <1>1 DEF LastHashes, None
<1>2. CASE events # {}
  <2>1. PICK e \in events : h = e.hash
    BY <1>2 DEF LastHashes, Latest
  <2>2. PICK p \in Payload, c \in Columns, q \in Seq(Payload) : e = NewEvent(p, c, q)
    BY DEF BuiltInv, Built
  <2>3. h = Append(q, p)
    BY <2>1, <2>2 DEF NewEvent, ComputeHash
  <2> QED BY <2>3, AppendProperties
<1> QED BY <1>1, <1>2

\* Replacing one writer's call.
LEMMA OneCall ==
  ASSUME LinkInv, BuiltInv, NEW w \in Writers, NEW r, Making(r),
         writes' = [writes EXCEPT ![w] = r], \A e \in events' : Built(e)
  PROVE  BuiltInv'
BY DEF BuiltInv, LinkInv

LEMMA BuiltStep ==
  ASSUME LinkInv, BuiltInv, [AuditNext]_auditVars
  PROVE  BuiltInv'
<1>1. ASSUME NEW w \in Writers, NEW d \in Data, NEW c \in Columns, SelectLast(w, d, c)
      PROVE  BuiltInv'
  <2>1. PICK previous \in LastHashes :
          writes' = [writes EXCEPT ![w] =
            [kind |-> "selected", data |-> d, columns |-> c, previous |-> previous]]
    BY <1>1 DEF SelectLast
  <2>2. Making([kind |-> "selected", data |-> d, columns |-> c, previous |-> previous])
    BY LastIsSequence DEF Making
  <2> QED BY <1>1, <2>1, <2>2, OneCall DEF SelectLast, BuiltInv
<1>2. ASSUME NEW w \in Writers, StampEvent(w)
      PROVE  BuiltInv'
  <2> DEFINE p == [data |-> writes[w].data, time |-> now]
             r == [kind |-> "insert", event |-> NewEvent(p, writes[w].columns, writes[w].previous)]
  <2>1. /\ writes[w].data \in Data /\ writes[w].columns \in Columns
        /\ writes[w].previous \in Seq(Payload)
    BY <1>2 DEF StampEvent, BuiltInv, Making
  <2>2. p \in Payload
    BY <2>1 DEF Payload, LinkInv, TimesOK
  <2>3. Making(r)
    BY <2>1, <2>2 DEF Making, Built
  <2>4. writes' = [writes EXCEPT ![w] = r]
    BY <1>2 DEF StampEvent
  <2> HIDE DEF r
  <2> QED BY <1>2, <2>3, <2>4, OneCall DEF StampEvent, BuiltInv
<1>3. ASSUME NEW w \in Writers, InsertEvent(w)
      PROVE  BuiltInv'
  <2>1. Built(writes[w].event)
    BY <1>3 DEF InsertEvent, BuiltInv, Making
  <2>2. Making(NotWriting)
    BY DEF Making, NotWriting
  <2> QED BY <1>3, <2>1, <2>2, OneCall DEF InsertEvent, BuiltInv
<1>4. ASSUME NEW w \in Writers, FailWrite(w)
      PROVE  BuiltInv'
  <2>1. Making(NotWriting)
    BY DEF Making, NotWriting
  <2> QED BY <1>4, <2>1, OneCall DEF FailWrite, BuiltInv
<1>5. CASE AuditTick \/ UNCHANGED auditVars
  BY <1>5 DEF AuditTick, auditVars, BuiltInv
<1> QED BY <1>1, <1>2, <1>3, <1>4, <1>5 DEF AuditNext

Entries == {Entry(e) : e \in events}

\* Storing an event extends the trail, or repeats an event that is there.
LEMMA InsertExtends ==
  ASSUME LinkInv, BuiltInv, NEW w \in Writers, InsertEvent(w)
  PROVE  Trail!Next \/ UNCHANGED Entries
<1> DEFINE e == writes[w].event
<1>1. Resolves(events, e.previous, e.time)
  BY DEF InsertEvent, LinkInv, Links
<1>2. CASE \E f \in events : f.hash = e.hash
  BY <1>2 DEF InsertEvent, Entries
<1>3. CASE \A f \in events : f.hash # e.hash
  <2> events' = events \cup {e}
    BY <1>3 DEF InsertEvent
  <2>0. Entries' = Entries \cup {Entry(e)}
    BY DEF Entries
  <2>1. \A f \in Entries : f.id # Entry(e).id
    BY <1>3 DEF Entries, Entry
  <2>2. \/ Entry(e).link = None
        \/ \E f \in Entries : f.id = Entry(e).link /\ f.time <= Entry(e).time
    <3>1. CASE e.previous = None
      BY <3>1 DEF Entry
    <3>2. CASE \E f \in events : f.hash = e.previous /\ f.time <= e.time
      <4>1. PICK f \in events : f.hash = e.previous /\ f.time <= e.time
        BY <3>2
      <4>2. /\ Entry(f) \in Entries /\ Entry(f).id = Entry(e).link
            /\ Entry(f).time <= Entry(e).time
        BY <4>1 DEF Entries, Entry
      <4> QED BY <4>2
    <3> QED BY <1>1, <3>1, <3>2 DEF Resolves
  <2>3. Trail!Extend(Entry(e))
    BY <2>0, <2>1, <2>2 DEF Trail!Extend, Trail!LinksBack, Entries
  <2>4. Entry(e) \in Entries'
    BY <2>0
  <2> QED BY <2>3, <2>4 DEF Trail!Next, Entries
<1> QED BY <1>2, <1>3

\* The log implements the trail: it only grows, an event at a time, under hashes of
\* their own, each linked to what was there before, however many writers overlap,
\* fail, or share a timestamp.
THEOREM LogImplementsTrail == AuditSpec => ExtendsTrail
<1>1. AuditInit => BuiltInv /\ Trail!Init
  BY DEF AuditInit, BuiltInv, Making, NotWriting, Trail!Init
<1>2. LinkInv /\ BuiltInv /\ [AuditNext]_auditVars => BuiltInv'
  BY BuiltStep
<1>3. LinkInv /\ BuiltInv /\ [AuditNext]_auditVars => [Trail!Next]_Entries
  <2>1. events' = events => UNCHANGED Entries
    BY DEF Entries
  <2> QED
    BY <2>1, InsertExtends
    DEF AuditNext, SelectLast, StampEvent, FailWrite, AuditTick, auditVars
<1> QED
  BY <1>1, <1>2, <1>3, AuditStart, AuditStep, PTL DEF AuditSpec, ExtendsTrail, Trail!Spec, Entries

-----------------------------------------------------------------------------
(* Types follow from the way every event and every call is made.             *)

\* The row of an event that write made.
LEMMA MadeOf ==
  ASSUME NEW e, Built(e)
  PROVE  /\ e.payload \in Payload /\ e.previous \in Seq(Payload)
         /\ \E p \in Payload : e.hash = Append(e.previous, p) /\ Last(e.hash) = p
         /\ e.hash \in Seq(Payload) /\ e.hash # e.previous /\ e.hash # None
<1>1. PICK p \in Payload, c \in Columns, q \in Seq(Payload) : e = NewEvent(p, c, q)
  BY DEF Built
<1>2. /\ e.payload = [p EXCEPT !.data = ReadBack[@]] /\ e.previous = q
      /\ e.hash = Append(q, p)
  BY <1>1 DEF NewEvent, ComputeHash
<1>3. /\ Append(q, p) \in Seq(Payload) /\ Len(Append(q, p)) = Len(q) + 1 /\ Len(q) \in Nat
      /\ Append(q, p)[Len(q) + 1] = p
  OBVIOUS
<1>4. Append(q, p) # q /\ Append(q, p) # None /\ Last(Append(q, p)) = p
  BY <1>3 DEF None, Last
<1>5. [p EXCEPT !.data = ReadBack[@]] \in Payload
  BY AuditAssumption DEF Payload
<1> QED BY <1>2, <1>3, <1>4, <1>5

LEMMA BuiltType ==
  ASSUME NEW e, Built(e)
  PROVE  e \in Event /\ e.hash # None
<1>1. PICK p \in Payload, c \in Columns, q \in Seq(Payload) : e = NewEvent(p, c, q)
  BY DEF Built
<1>2. /\ e = [columns |-> c, time |-> p.time, payload |-> e.payload,
               previous |-> e.previous, hash |-> e.hash]
      /\ p.time \in Nat
  BY <1>1 DEF NewEvent, Payload
<1> QED BY <1>2, MadeOf DEF Event

LEMMA AuditTypeStep ==
  ASSUME LinkInv, BuiltInv, AuditTypeOK, [AuditNext]_auditVars
  PROVE  AuditTypeOK'
<1>1. BuiltInv'
  BY BuiltStep
<1>2. \A e \in events' : e \in Event /\ e.hash # None
  BY <1>1, BuiltType DEF BuiltInv
<1>3. ASSUME NEW w \in Writers, NEW r, r \in Write, writes' = [writes EXCEPT ![w] = r], now' = now
      PROVE  AuditTypeOK'
  BY <1>2, <1>3 DEF AuditTypeOK
<1>4. NotWriting \in Write
  BY DEF Write
<1>5. ASSUME NEW w \in Writers, NEW d \in Data, NEW c \in Columns, SelectLast(w, d, c)
      PROVE  AuditTypeOK'
  <2>1. PICK previous \in LastHashes :
          writes' = [writes EXCEPT ![w] =
            [kind |-> "selected", data |-> d, columns |-> c, previous |-> previous]]
    BY <1>5 DEF SelectLast
  <2>2. [kind |-> "selected", data |-> d, columns |-> c, previous |-> previous] \in Write
    BY LastIsSequence DEF Write
  <2> QED BY <1>3, <1>5, <2>1, <2>2 DEF SelectLast
<1>6. ASSUME NEW w \in Writers, StampEvent(w)
      PROVE  AuditTypeOK'
  <2> DEFINE e == NewEvent([data |-> writes[w].data, time |-> now], writes[w].columns, writes[w].previous)
             r == [kind |-> "insert", event |-> e]
  <2>1. Built(e)
    BY <1>6 DEF StampEvent, BuiltInv, Making, Built, AuditTypeOK, Payload
  <2>2. r \in Write
    BY <2>1, BuiltType DEF Write
  <2>3. writes' = [writes EXCEPT ![w] = r]
    BY <1>6 DEF StampEvent
  <2> HIDE DEF r
  <2> QED BY <1>3, <1>6, <2>2, <2>3 DEF StampEvent
<1>7. ASSUME NEW w \in Writers, InsertEvent(w) \/ FailWrite(w)
      PROVE  AuditTypeOK'
  BY <1>3, <1>4, <1>7 DEF InsertEvent, FailWrite
<1>8. CASE AuditTick
  BY <1>2, <1>8 DEF AuditTick, AuditTypeOK
<1>9. CASE UNCHANGED auditVars
  BY <1>9 DEF auditVars, AuditTypeOK
<1> QED BY <1>5, <1>6, <1>7, <1>8, <1>9 DEF AuditNext

\* Rows and calls in flight stay well formed; no stored event has an empty hash.
THEOREM AuditTypes == AuditSpec => []AuditTypeOK
<1>1. AuditInit => BuiltInv /\ AuditTypeOK
  BY DEF AuditInit, BuiltInv, Making, NotWriting, AuditTypeOK, Write
<1> QED BY <1>1, AuditStart, AuditStep, BuiltStep, AuditTypeStep, PTL DEF AuditSpec

-----------------------------------------------------------------------------
(* verify_chain.  Induction here is the choice of a least counterexample,    *)
(* since no theorem of the library that takes a predicate can be applied.    *)

\* The least element of a set of naturals.
LEMMA Least ==
  ASSUME NEW T \in SUBSET Nat, T # {}
  PROVE  \E m \in T : \A k \in T : m <= k
<1> DEFINE R == {p \in Nat \X Nat : p[1] < p[2]}
<1>1. IsWellFoundedOn(R, Nat)
  BY NatLessThanWellFounded, Zenon DEF OpToRel
<1>2. PICK m \in T : \A k \in T : ~(<<k, m>> \in R)
  BY <1>1, WFMin, Zenon
<1>3. ASSUME NEW k \in T PROVE m <= k
  <2>1. <<k, m>> \in Nat \X Nat /\ <<k, m>>[1] = k /\ <<k, m>>[2] = m
    OBVIOUS
  <2>2. ~(k < m)
    BY <1>2, <2>1, Zenon
  <2> QED BY <2>2
<1> QED BY <1>3

\* A sequence that nowhere falls rises from any place to any later one.
LEMMA Rising ==
  ASSUME NEW n \in Nat, NEW f \in [1..n -> Nat], \A i \in 2..n : f[i-1] <= f[i],
         NEW j \in 1..n, NEW k \in j..n
  PROVE  f[j] <= f[k]
<1> DEFINE T == {i \in j..n : ~(f[j] <= f[i])}
<1> SUFFICES ASSUME T # {} PROVE FALSE
  OBVIOUS
<1>1. PICK m \in T : \A i \in T : m <= i
  <2>1. T \in SUBSET Nat
    OBVIOUS
  <2> HIDE DEF T
  <2> QED BY <2>1, Least
<1>2. m - 1 \in j..n /\ m \in 2..n
  BY <1>1
<1>3. f[j] <= f[m-1]
  BY <1>1, <1>2
<1>4. f[m-1] \in Nat /\ f[m] \in Nat /\ f[j] \in Nat /\ f[m-1] <= f[m]
  BY <1>2
<1> QED BY <1>1, <1>3, <1>4

\* A listing holds every event, each once.
LEMMA ListingIsBijection ==
  ASSUME IsFiniteSet(events), NEW s \in Listings
  PROVE  /\ Len(s) \in Nat /\ DOMAIN s = 1..Len(s) /\ s \in Seq(events)
         /\ \A i, j \in DOMAIN s : s[i] = s[j] => i = j
         /\ \A e \in events : \E i \in DOMAIN s : s[i] = e
<1> DEFINE n == Cardinality(events)
<1>1. n \in Nat
  BY FS_CardinalityType
<1>2. s \in [1..n -> events] /\ \A i, j \in 1..n : i # j => s[i] # s[j]
  BY DEF Listings, SetToSeqs
<1>3. s \in Seq(events) /\ Len(s) = n /\ DOMAIN s = 1..n
  BY <1>1, <1>2
<1>4. s \in Injection(1..n, events)
  BY <1>2 DEF Injection, IsInjective
<1>5. IsFiniteSet(1..n) /\ Cardinality(1..n) = n
  BY <1>1, FS_Interval
<1>6. s \in Surjection(1..n, events)
  BY <1>4, <1>5, FS_Injection
<1> QED BY <1>1, <1>2, <1>3, <1>6 DEF Surjection

\* The events are finite in number, so that a listing holds each of them.
FiniteInv == IsFiniteSet(events)

LEMMA FiniteStep == FiniteInv /\ [AuditNext]_auditVars => FiniteInv'
<1>1. \A e : FiniteInv => IsFiniteSet(events \cup {e})
  BY FS_AddElement DEF FiniteInv
<1>2. [AuditNext]_auditVars => events' = events \/ \E e : events' = events \cup {e}
  BY DEF AuditNext, SelectLast, StampEvent, InsertEvent, FailWrite, AuditTick, auditVars
<1> QED BY <1>1, <1>2 DEF FiniteInv

\* An untouched log without forks and ties, whose data reads as it was hashed, verifies.
LEMMA StraightLogVerifies ==
  ASSUME LinkInv, BuiltInv, FiniteInv, ~Forked, ~Tied, ~Reencoded, NEW s \in Listings
  PROVE  VerifyChain(s)
<1>1. /\ Len(s) \in Nat /\ DOMAIN s = 1..Len(s) /\ \A i \in DOMAIN s : s[i] \in events
      /\ \A i, j \in DOMAIN s : s[i] = s[j] => i = j
      /\ \A e \in events : \E i \in DOMAIN s : s[i] = e
  BY ListingIsBijection DEF FiniteInv
<1>2. \A i \in DOMAIN s : Built(s[i]) /\ s[i].time \in Nat
  BY <1>1 DEF BuiltInv, LinkInv, TimesOK
<1>3. ASSUME NEW j \in DOMAIN s, NEW k \in DOMAIN s, s[k].time <= s[j].time
      PROVE  k <= j
  <2> SUFFICES ASSUME j < k PROVE FALSE
    BY <1>1
  <2> DEFINE f == [i \in 1..Len(s) |-> s[i].time]
  <2>1. f \in [1..Len(s) -> Nat] /\ k \in j..Len(s)
    BY <1>1, <1>2
  <2>2. \A i \in 2..Len(s) : f[i-1] <= f[i]
    BY <1>1 DEF Listings
  <2>3. f[j] <= f[k]
    <3> HIDE DEF f
    <3> QED BY <1>1, <2>1, <2>2, Rising
  <2>4. s[j].time = s[k].time
    BY <1>1, <1>2, <1>3, <2>3
  <2> QED BY <1>1, <2>4 DEF Tied
<1>4. \A i \in DOMAIN s : LinkHolds(s, i)
  <2> DEFINE T == {i \in DOMAIN s : ~LinkHolds(s, i)}
  <2> SUFFICES ASSUME T # {} PROVE FALSE
    OBVIOUS
  <2>1. PICK m \in T : \A i \in T : m <= i
    <3>1. T \in SUBSET Nat
      BY <1>1
    <3> HIDE DEF T
    <3> QED BY <3>1, Least
  <2>2. m \in DOMAIN s /\ ~LinkHolds(s, m) /\ \A i \in 1..(m-1) : LinkHolds(s, i)
    BY <1>1, <2>1
  <2>3. CASE s[m].previous = None
    <3>1. m # 1
      BY <2>2, <2>3 DEF LinkHolds, PreviousHash
    <3>2. 1 \in DOMAIN s /\ LinkHolds(s, 1)
      BY <1>1, <2>2, <3>1
    <3>3. s[1].previous = None /\ s[1] # s[m]
      BY <1>1, <2>2, <3>1, <3>2 DEF LinkHolds, PreviousHash
    <3> QED BY <1>1, <2>2, <2>3, <3>2, <3>3 DEF Forked
  <2>4. CASE \E e \in events : e.hash = s[m].previous /\ e.time <= s[m].time
    <3>1. PICK k \in DOMAIN s : s[k].hash = s[m].previous /\ s[k].time <= s[m].time
      BY <1>1, <2>4
    <3>2. k <= m
      BY <1>3, <2>2, <3>1
    <3>3. k # m
      BY <1>2, <3>1, MadeOf
    <3>4. k # m - 1
      BY <1>1, <2>2, <3>1 DEF LinkHolds, PreviousHash
    <3>5. k + 1 \in 2..(m-1) /\ k + 1 \in DOMAIN s
      BY <1>1, <2>2, <3>2, <3>3, <3>4
    <3>6. LinkHolds(s, k + 1)
      BY <1>1, <2>2, <3>5
    <3>7. s[k + 1].previous = s[k].hash
      BY <1>1, <3>5, <3>6 DEF LinkHolds, PreviousHash
    <3> QED BY <1>1, <2>2, <3>1, <3>5, <3>7 DEF Forked
  <2> QED BY <1>1, <2>2, <2>3, <2>4 DEF LinkInv, Resolves
<1>5. ASSUME NEW i \in DOMAIN s
      PROVE  HashHolds(s, i)
  <2>1. PICK p \in Payload : s[i].hash = Append(s[i].previous, p) /\ Last(s[i].hash) = p
    BY <1>2, MadeOf
  <2>2. s[i].payload = p
    BY <1>1, <2>1 DEF Reencoded
  <2> QED BY <1>4, <2>1, <2>2 DEF LinkHolds, HashHolds, ComputeHash
<1> QED BY <1>4, <1>5 DEF VerifyChain

\* A log that verifies does not verify with one event's data column changed, nor with
\* one event before the last taken out.
LEMMA ChangesBreak ==
  ASSUME BuiltInv, FiniteInv, NEW s \in Listings, VerifyChain(s), NEW i \in DOMAIN s
  PROVE  /\ \A p \in Payloads \ {s[i].payload} : ~VerifyChain([s EXCEPT ![i].payload = p])
         /\ i < Len(s) => ~VerifyChain(RemoveAt(s, i))
<1>1. /\ Len(s) \in Nat /\ DOMAIN s = 1..Len(s) /\ s \in Seq(events)
      /\ \A j \in DOMAIN s : Built(s[j])
  BY ListingIsBijection DEF FiniteInv, BuiltInv
<1>2. /\ s[i].payload \in Payload /\ s[i].previous \in Seq(Payload)
      /\ s[i].hash # s[i].previous
      /\ s[i].previous = PreviousHash(s, i) /\ s[i].hash = Append(PreviousHash(s, i), s[i].payload)
  BY <1>1, MadeOf DEF VerifyChain, LinkHolds, HashHolds, ComputeHash
<1>3. ASSUME NEW p \in Payloads \ {s[i].payload}, VerifyChain([s EXCEPT ![i].payload = p])
      PROVE  FALSE
  <2> DEFINE t == [s EXCEPT ![i].payload = p]
  <2>1. DOMAIN t = DOMAIN s /\ t[i].payload = p /\ t[i].hash = s[i].hash
    BY <1>1
  <2>2. PreviousHash(t, i) = PreviousHash(s, i)
    BY <1>1 DEF PreviousHash
  <2>3. s[i].hash = Append(PreviousHash(s, i), p)
    BY <1>3, <2>1, <2>2 DEF VerifyChain, HashHolds, ComputeHash
  <2>4. p \in Payload /\ p # s[i].payload
    BY DEF Payload, Payloads
  <2>5. PreviousHash(s, i) \in Seq(Payload)
    BY <1>2
  <2>6. Append(PreviousHash(s, i), p) = Append(PreviousHash(s, i), s[i].payload)
    BY <1>2, <2>3
  <2> QED BY <1>2, <2>4, <2>5, <2>6, AppendInjective
<1>4. ASSUME i < Len(s), VerifyChain(RemoveAt(s, i))
      PROVE  FALSE
  <2> DEFINE t == RemoveAt(s, i)
  <2>1. i \in DOMAIN t /\ t[i] = s[i+1] /\ (i # 1 => t[i-1] = s[i-1])
    <3> DEFINE u == SubSeq(s, 1, i-1)
               v == SubSeq(s, i+1, Len(s))
    <3>1. /\ u \in Seq(events) /\ Len(u) = i - 1
          /\ \A j \in 1..(i-1) : u[j] = s[j]
      BY <1>1
    <3>2. v \in Seq(events) /\ Len(v) = Len(s) - i /\ v[1] = s[i+1]
      BY <1>1, <1>4
    <3>3. t = u \o v
      BY DEF RemoveAt
    <3> HIDE DEF u, v, t
    <3> QED BY <1>1, <1>4, <3>1, <3>2, <3>3
  <2>2. PreviousHash(t, i) = PreviousHash(s, i)
    BY <2>1 DEF PreviousHash
  <2>3. s[i+1].previous = PreviousHash(s, i)
    BY <1>4, <2>1, <2>2 DEF VerifyChain, LinkHolds
  <2>4. s[i+1].previous = s[i].hash
    BY <1>1, <1>4 DEF VerifyChain, LinkHolds, PreviousHash
  <2> QED BY <1>2, <2>3, <2>4
<1> QED BY <1>3, <1>4

\* On a log that nobody touched, verify_chain raises an alarm only where writers
\* overlapped and forked the chain, two events have one timestamp, or the data column
\* of one does not give back what was hashed.
THEOREM AlarmsAreExplained == AuditSpec => []AlarmsExplained
<1>1. AuditInit => BuiltInv /\ FiniteInv
  BY FS_EmptySet DEF AuditInit, BuiltInv, Making, NotWriting, FiniteInv
<1>2. LinkInv /\ BuiltInv /\ FiniteInv => AlarmsExplained
  BY StraightLogVerifies DEF AlarmsExplained
<1> QED BY <1>1, <1>2, AuditStart, AuditStep, BuiltStep, FiniteStep, PTL DEF AuditSpec

\* Of a log that verifies, no version with another data column in one event verifies,
\* and none with an event before the last taken out, in whatever order the events are
\* listed.  Nothing is said of the columns outside the hash.
THEOREM HashedTamperingShows == AuditSpec => []HashedTamperEvident
<1>1. AuditInit => BuiltInv /\ FiniteInv
  BY FS_EmptySet DEF AuditInit, BuiltInv, Making, NotWriting, FiniteInv
<1>2. BuiltInv /\ FiniteInv => HashedTamperEvident
  BY ChangesBreak DEF HashedTamperEvident
<1> QED BY <1>1, <1>2, AuditStart, AuditStep, BuiltStep, FiniteStep, PTL DEF AuditSpec

-----------------------------------------------------------------------------
(* One writer at a time.  What it has read is still the last hash when its   *)
(* event is stored; and nothing else can be linked to that hash, for it would*)
(* have to be as late as the last event.                                     *)

AtMostOneWriter == \A v, w \in Writers : v = w

\* The hash call r has read is the last one.
UpToDate(r) ==
  /\ r.kind = "selected" => r.previous \in LastHashes
  /\ r.kind = "insert" => r.event.previous \in LastHashes

OneWriterInv == ~Tied => ~Forked /\ \A w \in Writers : UpToDate(writes[w])

\* A step of the only call that leaves the events alone.
LEMMA OnlyCall ==
  ASSUME AtMostOneWriter, OneWriterInv, NEW w \in Writers, NEW r, DOMAIN writes = Writers,
         writes' = [writes EXCEPT ![w] = r], events' = events,
         ~Tied => UpToDate(r)
  PROVE  OneWriterInv'
<1>1. Tied' <=> Tied
  BY DEF Tied
<1>2. Forked' <=> Forked
  BY DEF Forked
<1>3. LastHashes' = LastHashes
  BY DEF LastHashes, Latest
<1>4. \A v \in Writers : writes'[v] = r
  BY DEF AtMostOneWriter
<1> QED BY <1>1, <1>2, <1>3, <1>4 DEF OneWriterInv, UpToDate

\* Storing an event linked to the last hash does not fork the chain.
LEMMA LastIsUnlinked ==
  ASSUME LinkInv, BuiltInv, ~Tied, NEW f \in events
  PROVE  f.previous \notin LastHashes
<1> SUFFICES ASSUME f.previous \in LastHashes PROVE FALSE
  OBVIOUS
<1>1. PICK g \in Latest(events) : g.hash = f.previous
  BY DEF LastHashes
<1>2. g \in events /\ f.time <= g.time
  BY DEF Latest
<1>3. Built(f) /\ Built(g)
  BY <1>2 DEF BuiltInv
<1>4. PICK h \in events : h.hash = f.previous /\ h.time <= f.time
  BY <1>1, <1>3, MadeOf DEF LinkInv, Resolves
<1>5. h.time = g.time
  BY <1>1, <1>3, <1>4, HashIdentifies DEF BuiltInv
<1>6. f.time = g.time
  BY <1>2, <1>4, <1>5 DEF LinkInv, TimesOK
<1>7. f = g
  BY <1>2, <1>6 DEF Tied
<1> QED BY <1>1, <1>3, <1>7, MadeOf

LEMMA OneWriterStep ==
  ASSUME AtMostOneWriter, LinkInv, BuiltInv, OneWriterInv, [AuditNext]_auditVars
  PROVE  OneWriterInv'
<1>1. DOMAIN writes = Writers
  BY DEF LinkInv
<1>2. UpToDate(NotWriting)
  BY DEF UpToDate, NotWriting
<1>3. ASSUME NEW w \in Writers, NEW d \in Data, NEW c \in Columns, SelectLast(w, d, c)
      PROVE  OneWriterInv'
  <2>1. PICK previous \in LastHashes :
          writes' = [writes EXCEPT ![w] =
            [kind |-> "selected", data |-> d, columns |-> c, previous |-> previous]]
    BY <1>3 DEF SelectLast
  <2>2. UpToDate([kind |-> "selected", data |-> d, columns |-> c, previous |-> previous])
    BY DEF UpToDate
  <2> QED BY <1>1, <1>3, <2>1, <2>2, OnlyCall DEF SelectLast
<1>4. ASSUME NEW w \in Writers, StampEvent(w)
      PROVE  OneWriterInv'
  <2> DEFINE e == NewEvent([data |-> writes[w].data, time |-> now], writes[w].columns, writes[w].previous)
             r == [kind |-> "insert", event |-> e]
  <2>1. writes' = [writes EXCEPT ![w] = r]
    BY <1>4 DEF StampEvent
  <2>2. ~Tied => UpToDate(r)
    BY <1>4 DEF StampEvent, NewEvent, OneWriterInv, UpToDate
  <2> HIDE DEF r
  <2> QED BY <1>1, <1>4, <2>1, <2>2, OnlyCall DEF StampEvent
<1>5. ASSUME NEW w \in Writers, InsertEvent(w)
      PROVE  OneWriterInv'
  <2> DEFINE e == writes[w].event
  <2> SUFFICES ASSUME ~Tied'
               PROVE  ~Forked' /\ \A v \in Writers : UpToDate(writes[v])'
    BY DEF OneWriterInv
  <2>1. /\ events' = events \/ events' = events \cup {e}
        /\ writes' = [writes EXCEPT ![w] = NotWriting]
    BY <1>5 DEF InsertEvent
  <2>2. ~Tied
    BY <2>1 DEF Tied
  <2>3. ~Forked /\ e.previous \in LastHashes
    BY <1>5, <2>2 DEF InsertEvent, OneWriterInv, UpToDate
  <2>4. \A f \in events : f.previous # e.previous
    BY <2>2, <2>3, LastIsUnlinked
  <2>5. ~Forked'
    BY <2>1, <2>3, <2>4 DEF Forked
  <2>6. \A v \in Writers : writes'[v] = NotWriting
    BY <1>1, <2>1 DEF AtMostOneWriter
  <2> QED BY <2>5, <2>6 DEF UpToDate, NotWriting
<1>6. ASSUME NEW w \in Writers, FailWrite(w)
      PROVE  OneWriterInv'
  BY <1>1, <1>2, <1>6, OnlyCall DEF FailWrite
<1>7. CASE AuditTick \/ UNCHANGED auditVars
  BY <1>7
  DEF AuditTick, auditVars, OneWriterInv, UpToDate, LastHashes, Latest, Forked, Tied
<1> QED BY <1>3, <1>4, <1>5, <1>6, <1>7 DEF AuditNext

\* Written by one call of AuditWriter.write at a time, however many of them fail, a
\* log in which no two events have one timestamp has no fork, and verifies if the data
\* column of each event gives back what was hashed.
THEOREM OneWriterKeepsChain ==
  ASSUME AtMostOneWriter
  PROVE  AuditSpec => [](~Tied => ~Forked /\ (~Reencoded => \A s \in Listings : VerifyChain(s)))
<1>1. AuditInit => BuiltInv /\ FiniteInv /\ OneWriterInv
  BY FS_EmptySet
  DEF AuditInit, BuiltInv, Making, NotWriting, FiniteInv, OneWriterInv, UpToDate, Forked
<1>2. LinkInv /\ BuiltInv /\ OneWriterInv /\ [AuditNext]_auditVars => OneWriterInv'
  BY OneWriterStep
<1>3. LinkInv /\ BuiltInv /\ FiniteInv /\ OneWriterInv =>
        (~Tied => ~Forked /\ (~Reencoded => \A s \in Listings : VerifyChain(s)))
  BY StraightLogVerifies DEF OneWriterInv
<1> QED
  BY <1>1, <1>2, <1>3, AuditStart, AuditStep, BuiltStep, FiniteStep, PTL DEF AuditSpec

-----------------------------------------------------------------------------
(* Anchoring the chain. *)

\* Where a log of any events verifies, a hash is as long as its place.
LEMMA HashLength ==
  ASSUME NEW s \in Seq(Event), VerifyChain(s), NEW i \in DOMAIN s
  PROVE  /\ Len(s[i].hash) = i /\ s[i].payload \in Payload
         /\ PreviousHash(s, i) \in Seq(Payload)
         /\ s[i].hash = Append(PreviousHash(s, i), s[i].payload)
<1>1. \A j \in DOMAIN s :
        /\ s[j].hash \in Seq(Payload) /\ s[j].payload \in Payload
        /\ PreviousHash(s, j) \in Seq(Payload)
        /\ s[j].hash = Append(PreviousHash(s, j), s[j].payload)
  <2>1. ASSUME NEW j \in DOMAIN s
        PROVE  s[j].hash \in Seq(Payload) /\ s[j].payload \in Payload
    <3>1. s[j] \in Event
      OBVIOUS
    <3> QED BY <3>1 DEF Event
  <2>2. \A j \in DOMAIN s : PreviousHash(s, j) \in Seq(Payload)
    BY <2>1 DEF PreviousHash, None
  <2> QED BY <2>1, <2>2 DEF VerifyChain, HashHolds, ComputeHash
<1> DEFINE T == {j \in DOMAIN s : Len(s[j].hash) # j}
<1>2. ASSUME T # {} PROVE FALSE
  <2>1. PICK m \in T : \A k \in T : m <= k
    <3>1. T \in SUBSET Nat
      OBVIOUS
    <3> HIDE DEF T
    <3> QED BY <1>2, <3>1, Least
  <2>2. m \in DOMAIN s /\ Len(s[m].hash) = Len(PreviousHash(s, m)) + 1
    BY <1>1
  <2>3. Len(PreviousHash(s, m)) = m - 1
    <3>1. CASE m = 1
      BY <3>1 DEF PreviousHash, None
    <3>2. CASE m # 1
      <4>1. m - 1 \in DOMAIN s /\ m - 1 \notin T
        BY <2>1, <3>2
      <4> QED BY <3>2, <4>1 DEF PreviousHash
    <3> QED BY <3>1, <3>2
  <2> QED BY <2>1, <2>2, <2>3
<1> QED BY <1>1, <1>2

\* Whoever keeps the last hash keeps what the hashes cover: of all sequences of
\* events that verify (verify_chain) and end in that hash, whatever was changed, left
\* out, inserted or put in another order, each has the same data, links and hashes
\* at every place.  The columns outside the hash may be anything.
THEOREM LastHashPinsData ==
  ASSUME NEW s \in Seq(Event), NEW t \in Seq(Event), VerifyChain(s), VerifyChain(t),
         s # <<>>, t # <<>>, s[Len(s)].hash = t[Len(t)].hash
  PROVE  /\ Len(s) = Len(t)
         /\ \A i \in DOMAIN s : /\ s[i].payload = t[i].payload
                                /\ s[i].previous = t[i].previous
                                /\ s[i].hash = t[i].hash
<1> DEFINE n == Len(s)
<1>1. n \in Nat \ {0} /\ Len(t) \in Nat \ {0} /\ DOMAIN s = 1..n /\ DOMAIN t = 1..Len(t)
  OBVIOUS
<1>2. Len(t) = n
  <2>1. n \in DOMAIN s /\ Len(t) \in DOMAIN t
    BY <1>1
  <2>2. Len(s[n].hash) = n /\ Len(t[Len(t)].hash) = Len(t)
    BY <2>1, HashLength
  <2> QED BY <2>2
<1>3. ASSUME NEW i \in 1..n, s[i].hash = t[i].hash
      PROVE  PreviousHash(s, i) = PreviousHash(t, i) /\ s[i].payload = t[i].payload
  <2>1. /\ PreviousHash(s, i) \in Seq(Payload) /\ PreviousHash(t, i) \in Seq(Payload)
        /\ s[i].payload \in Payload /\ t[i].payload \in Payload
        /\ Append(PreviousHash(s, i), s[i].payload) = Append(PreviousHash(t, i), t[i].payload)
    <3>1. i \in DOMAIN s /\ i \in DOMAIN t
      BY <1>1, <1>2
    <3>2. /\ s[i].payload \in Payload /\ PreviousHash(s, i) \in Seq(Payload)
          /\ s[i].hash = Append(PreviousHash(s, i), s[i].payload)
      BY <3>1, HashLength
    <3>3. /\ t[i].payload \in Payload /\ PreviousHash(t, i) \in Seq(Payload)
          /\ t[i].hash = Append(PreviousHash(t, i), t[i].payload)
      BY <3>1, HashLength
    <3> QED BY <1>3, <3>2, <3>3
  <2> QED BY <2>1, AppendInjective
<1>4. \A i \in 1..n : s[i].hash = t[i].hash
  <2> DEFINE T == {k \in 0..(n - 1) : s[n - k].hash # t[n - k].hash}
  <2>1. ASSUME T # {} PROVE FALSE
    <3>1. PICK m \in T : \A k \in T : m <= k
      <4>1. T \in SUBSET Nat
        BY <1>1
      <4> HIDE DEF T
      <4> QED BY <2>1, <4>1, Least
    <3>2. m # 0 /\ m \in 1..(n - 1)
      BY <1>1, <1>2, <3>1
    <3>3. m - 1 \in 0..(n - 1) /\ m - 1 \notin T
      <4>1. m - 1 \in 0..(n - 1) /\ ~(m <= m - 1)
        BY <1>1, <3>2
      <4> HIDE DEF T
      <4> QED BY <3>1, <4>1
    <3> DEFINE i == n - m + 1
    <3>4. i \in 2..n /\ i - 1 = n - m /\ i = n - (m - 1)
      BY <1>1, <3>2
    <3>5. s[i].hash = t[i].hash
      BY <3>3, <3>4
    <3>6. PreviousHash(s, i) = PreviousHash(t, i)
      BY <1>3, <3>4, <3>5
    <3>7. s[n - m].hash = t[n - m].hash
      BY <3>4, <3>6 DEF PreviousHash
    <3> QED BY <3>1, <3>7
  <2>2. ASSUME NEW i \in 1..n PROVE s[i].hash = t[i].hash
    <3>1. n - i \in 0..(n - 1) /\ n - (n - i) = i
      BY <1>1
    <3> QED BY <2>1, <3>1
  <2> QED BY <2>2
<1>5. ASSUME NEW i \in 1..n
      PROVE  /\ s[i].payload = t[i].payload
             /\ s[i].previous = t[i].previous
             /\ s[i].hash = t[i].hash
  <2>1. s[i].previous = t[i].previous
    BY <1>1, <1>2, <1>3, <1>4 DEF VerifyChain, LinkHolds
  <2> QED BY <1>3, <1>4, <2>1
<1> QED BY <1>1, <1>2, <1>5
=============================================================================
