----------------------- MODULE EntitlementCacheProofs -----------------------
(***************************************************************************)
(* Proofs about EntitlementCache, for any number of events and handlers,   *)
(* any seconds and any number of duplicates and faults.                    *)
(*                                                                         *)
(* AcknowledgedIsReflected is about what is cached; the invariant behind   *)
(* it is about the record next to it (RecordReflects).  What is cached is  *)
(* never older than the record (CacheKeepsUp), because a handler retrieves *)
(* the subscription after its event was created (RetrievedIsNew), and a    *)
(* handler that is about to write has passed the guards against the record *)
(* it has seen (GuardsPassed).                                             *)
(*                                                                         *)
(* And about BillingCheckout, the purchases beside it: what is cached of   *)
(* a subscription is its state, or a later event is on its way (CheckoutInv). *)
(***************************************************************************)
EXTENDS EntitlementCache, BillingCheckout, TLAPS

\* A handler at work has an event, and what it retrieved is at least as new.
RetrievedIsNew ==
  \A h \in Handlers :
    /\ pc[h] # "idle" => event[h] > 0
    /\ pc[h] \in {"guard", "write", "readback"} => event[h] <= next[h]

\* The subscription cached is at least as new as the event recorded with it.
CacheKeepsUp == record <= cached

\* A handler about to write saw no newer event, or could not read.
GuardsPassed ==
  \A h \in Handlers : pc[h] = "write" => seen[h] = NoRead \/ Passes(event[h], seen[h])

\* Without an excuse, the record is at or past every acknowledged event.
RecordReflects == excuses # {} \/ \A e \in acked : e <= record

EntitlementInv ==
  TypeOK /\ RetrievedIsNew /\ CacheKeepsUp /\ GuardsPassed /\ RecordReflects

\* TypeOK in two parts: what is stored, and the handlers.
StoreTypes ==
  /\ stripe \in 0..N /\ acked \subseteq 1..stripe
  /\ record \in 0..stripe /\ cached \in 0..stripe
  /\ customer \in BOOLEAN
  /\ checkout \in [record : NoRead..stripe, cached : NoRead..stripe]
  /\ dupes \in 0..MAX_DUPES /\ faults \in 0..MAX_FAULTS
  /\ excuses \subseteq Excuses

HandlerTypes ==
  /\ pc \in [Handlers -> Places]
  /\ event \in [Handlers -> 0..stripe] /\ next \in [Handlers -> 0..stripe]
  /\ seen \in [Handlers -> NoRead..stripe]
  /\ attempt \in [Handlers -> 0..(ATTEMPTS - 1)]

\* The two parts are the type invariant.
LEMMA TypeParts == TypeOK <=> StoreTypes /\ HandlerTypes
  BY DEF TypeOK, StoreTypes, HandlerTypes

\* Nothing has happened yet.
LEMMA InitEntitlement == Init => EntitlementInv
  <1>. SUFFICES ASSUME Init PROVE EntitlementInv
    OBVIOUS
  <1>. USE EntitlementAssumption DEF Init
  <1>1. HandlerTypes
    BY DEF HandlerTypes, Places, NoRead
  <1>2. StoreTypes
    <2>1. NoRead \in NoRead..stripe
      BY DEF NoRead
    <2>2. checkout \in [record : NoRead..stripe, cached : NoRead..stripe]
      BY <2>1 DEF NotChecking
    <2>3. stripe \in 0..N /\ acked \subseteq 1..stripe
      OBVIOUS
    <2>4. record \in 0..stripe /\ cached \in 0..stripe
      OBVIOUS
    <2>5. customer \in BOOLEAN
      BY Zenon
    <2>6. dupes \in 0..MAX_DUPES /\ faults \in 0..MAX_FAULTS /\ excuses \subseteq Excuses
      OBVIOUS
    <2>. QED
      BY ONLY <2>2, <2>3, <2>4, <2>5, <2>6 DEF StoreTypes
  <1>3. RetrievedIsNew /\ CacheKeepsUp /\ GuardsPassed /\ RecordReflects
    BY DEF RetrievedIsNew, CacheKeepsUp, GuardsPassed, RecordReflects
  <1>. QED
    BY <1>1, <1>2, <1>3, TypeParts DEF EntitlementInv

\* A handler that leaves keeps the types.
LEMMA LeaveTypes ==
  ASSUME HandlerTypes, NEW h \in Handlers, Leave(h), UNCHANGED stripe, stripe \in Nat
  PROVE  HandlerTypes'
  BY EntitlementAssumption DEF HandlerTypes, Leave, Places, NoRead

\* A handler with an event may acknowledge it.
LEMMA AckTypes ==
  ASSUME TypeOK, RetrievedIsNew, NEW h \in Handlers, pc[h] # "idle", Ack(h), UNCHANGED stripe
  PROVE  HandlerTypes' /\ acked' \subseteq 1..stripe'
  <1>1. stripe \in Nat /\ event[h] \in 1..stripe /\ acked \subseteq 1..stripe
    BY EntitlementAssumption DEF TypeOK, RetrievedIsNew
  <1>2. HandlerTypes'
    BY LeaveTypes, TypeParts, <1>1 DEF Ack
  <1>. QED
    BY <1>1, <1>2 DEF Ack

\* A handler at work has an event Stripe has created.
LEMMA AtWork ==
  ASSUME TypeOK, RetrievedIsNew, NEW h \in Handlers, pc[h] # "idle"
  PROVE  event[h] \in Events /\ record \in 0..N /\ acked \subseteq Events
  <1>1. event[h] \in 0..stripe /\ stripe \in 0..N /\ event[h] > 0 /\ record \in 0..stripe
    BY EntitlementAssumption DEF TypeOK, RetrievedIsNew
  <1>2. acked \subseteq 1..stripe
    BY DEF TypeOK
  <1>. QED
    BY <1>1, <1>2, EntitlementAssumption DEF Events

\* Every step keeps the types.
LEMMA StepTypes == EntitlementInv /\ [Next]_vars => TypeOK'
  <1>. SUFFICES ASSUME TypeOK, RetrievedIsNew, [Next]_vars PROVE StoreTypes' /\ HandlerTypes'
    BY TypeParts DEF EntitlementInv, TypeOK, StoreTypes, HandlerTypes
  <1>. USE EntitlementAssumption
  <1>0. /\ StoreTypes /\ HandlerTypes /\ stripe \in Nat /\ NoRead \in Int
        /\ NoRead \in NoRead..stripe /\ 0..stripe \subseteq NoRead..stripe
    BY TypeParts DEF TypeOK, NoRead
  <1>1. ASSUME Change PROVE StoreTypes' /\ HandlerTypes'
    <2>1. StoreTypes'
      BY <1>0, <1>1 DEF Change, StoreTypes
    <2>2. HandlerTypes'
      BY <1>0, <1>1 DEF Change, HandlerTypes, handlerVars
    <2>. QED
      BY <2>1, <2>2
  <1>2. ASSUME CheckoutRead PROVE StoreTypes' /\ HandlerTypes'
    BY <1>0, <1>2 DEF CheckoutRead, handlerVars, StoreTypes, HandlerTypes
  <1>3. ASSUME CheckoutWrite PROVE StoreTypes' /\ HandlerTypes'
    BY <1>0, <1>3 DEF CheckoutWrite, Remember, NotChecking, handlerVars, StoreTypes, HandlerTypes
  <1>4. ASSUME NEW h \in Handlers, NEW e \in Events, Deliver(h, e) PROVE StoreTypes' /\ HandlerTypes'
    BY <1>0, <1>4 DEF Deliver, Receive, Events, Places, StoreTypes, HandlerTypes
  <1>5. ASSUME NEW h \in Handlers, NEW e \in Events, Duplicate(h, e) PROVE StoreTypes' /\ HandlerTypes'
    BY <1>0, <1>5 DEF Duplicate, Receive, Events, Places, StoreTypes, HandlerTypes
  <1>6. ASSUME NEW h \in Handlers, Retrieve(h) PROVE StoreTypes' /\ HandlerTypes'
    BY <1>0, <1>6 DEF Retrieve, Places, StoreTypes, HandlerTypes
  <1>7. ASSUME NEW h \in Handlers, Guard(h) PROVE StoreTypes' /\ HandlerTypes'
    <2>1. UNCHANGED <<stripe, record, cached, customer, checkout, dupes, excuses>>
      BY <1>7 DEF Guard
    <2>2. faults' \in 0..MAX_FAULTS
      BY <1>0, <1>7 DEF Guard, Fault, StoreTypes
    <2>3. CASE Ack(h)
      BY <1>0, <1>7, <2>1, <2>2, <2>3, AckTypes DEF Guard, StoreTypes
    <2>4. PICK r \in {record, NoRead} :
            \/ Dropped(h, r)
            \/ /\ pc' = [pc EXCEPT ![h] = "write"]
               /\ seen' = [seen EXCEPT ![h] = r]
               /\ UNCHANGED <<acked, event, next, attempt>>
      BY <1>7 DEF Guard
    <2>5. r \in NoRead..stripe
      BY <1>0 DEF StoreTypes
    <2>6. CASE ~ Ack(h)
      <3>1. HandlerTypes'
        BY <1>0, <2>1, <2>4, <2>5, <2>6 DEF Dropped, Places, HandlerTypes
      <3>2. StoreTypes'
        BY <1>0, <2>1, <2>2, <2>4, <2>6 DEF Dropped, StoreTypes
      <3>. QED
        BY <3>1, <3>2
    <2>. QED
      BY <2>3, <2>6
  <1>8. ASSUME NEW h \in Handlers, Write(h) PROVE StoreTypes' /\ HandlerTypes'
    <2>1. HandlerTypes'
      BY <1>0, <1>8 DEF Write, Places, HandlerTypes
    <2>2. excuses' \subseteq Excuses
      BY <1>0, <1>8 DEF Write, Excuse, Excuses, StoreTypes
    <2>3. StoreTypes'
      BY <1>0, <1>8, <2>2 DEF Write, StoreTypes, HandlerTypes
    <2>. QED
      BY <2>1, <2>3
  <1>9. ASSUME NEW h \in Handlers, ReadBack(h) PROVE StoreTypes' /\ HandlerTypes'
    <2>1. UNCHANGED <<stripe, record, cached, customer, checkout, dupes, excuses>>
      BY <1>9 DEF ReadBack
    <2>2. faults' \in 0..MAX_FAULTS
      BY <1>0, <1>9 DEF ReadBack, Fault, StoreTypes
    <2>3. CASE Ack(h)
      BY <1>0, <1>9, <2>1, <2>2, <2>3, AckTypes DEF ReadBack, StoreTypes
    <2>4. CASE Lost(h)
      <3>1. StoreTypes'
        BY <1>0, <2>1, <2>2, <2>4 DEF Lost, Nack, StoreTypes
      <3>2. CASE Nack(h)
        BY <1>0, <2>1, <3>1, <3>2, LeaveTypes DEF Nack
      <3>3. CASE ~ Nack(h)
        BY <1>0, <2>1, <2>4, <3>1, <3>3 DEF Lost, Places, HandlerTypes
      <3>. QED
        BY <3>2, <3>3
    <2>. QED
      BY <1>9, <2>3, <2>4 DEF ReadBack
  <1>10. ASSUME NEW h \in Handlers, SkipUser(h) PROVE StoreTypes' /\ HandlerTypes'
    <2>1. HandlerTypes' /\ acked' \subseteq 1..stripe'
      BY <1>10, AckTypes DEF SkipUser
    <2>. QED
      BY <1>0, <1>10, <2>1 DEF SkipUser, Fault, Excuses, StoreTypes
  <1>11. ASSUME NEW h \in Handlers, WriteFails(h) PROVE StoreTypes' /\ HandlerTypes'
    <2>1. HandlerTypes'
      BY <1>0, <1>11, LeaveTypes DEF WriteFails, Nack
    <2>. QED
      BY <1>0, <1>11, <2>1 DEF WriteFails, Nack, Fault, StoreTypes
  <1>12. ASSUME NEW h \in Handlers, Die(h) PROVE StoreTypes' /\ HandlerTypes'
    <2>1. HandlerTypes'
      BY <1>0, <1>12, LeaveTypes DEF Die, Nack
    <2>. QED
      BY <1>0, <1>12, <2>1 DEF Die, Nack, Fault, StoreTypes
  <1>13. ASSUME UNCHANGED vars PROVE StoreTypes' /\ HandlerTypes'
    BY <1>0, <1>13 DEF vars, handlerVars, StoreTypes, HandlerTypes
  <1>. QED
    BY <1>1, <1>2, <1>3, <1>4, <1>5, <1>6, <1>7, <1>8, <1>9, <1>10, <1>11, <1>12, <1>13 DEF Next, Work

\* The subscription is retrieved after the event was created.
LEMMA StepNew == EntitlementInv /\ [Next]_vars => RetrievedIsNew'
  <1>. SUFFICES ASSUME TypeOK, RetrievedIsNew, [Next]_vars PROVE RetrievedIsNew'
    BY DEF EntitlementInv
  <1>. USE EntitlementAssumption DEF Events, TypeOK, RetrievedIsNew
  <1>1. ASSUME Change PROVE RetrievedIsNew'
    BY <1>1 DEF Change, handlerVars
  <1>2. ASSUME CheckoutRead PROVE RetrievedIsNew'
    BY <1>2 DEF CheckoutRead, handlerVars
  <1>3. ASSUME CheckoutWrite PROVE RetrievedIsNew'
    BY <1>3 DEF CheckoutWrite, Remember, handlerVars
  <1>4. ASSUME NEW h \in Handlers, NEW e \in Events, Deliver(h, e) PROVE RetrievedIsNew'
    BY <1>4 DEF Deliver, Receive, handlerVars
  <1>5. ASSUME NEW h \in Handlers, NEW e \in Events, Duplicate(h, e) PROVE RetrievedIsNew'
    BY <1>5 DEF Duplicate, Receive, handlerVars
  <1>6. ASSUME NEW h \in Handlers, Retrieve(h) PROVE RetrievedIsNew'
    BY <1>6 DEF Retrieve, handlerVars
  <1>7. ASSUME NEW h \in Handlers, Guard(h) PROVE RetrievedIsNew'
    BY <1>7 DEF Guard, Dropped, Ack, Leave, Fault, handlerVars
  <1>8. ASSUME NEW h \in Handlers, Write(h) PROVE RetrievedIsNew'
    BY <1>8 DEF Write, handlerVars
  <1>9. ASSUME NEW h \in Handlers, ReadBack(h) PROVE RetrievedIsNew'
    <2>1. UNCHANGED <<stripe, record, cached>> /\ h \in Handlers
      BY <1>9 DEF ReadBack
    <2>2. CASE Leave(h)
      BY <2>1, <2>2 DEF Leave
    <2>3. CASE ~ Leave(h)
      <3>1. /\ pc' = [pc EXCEPT ![h] = "guard"] /\ UNCHANGED <<event, next>>
            /\ pc[h] = "readback"
        BY <1>9, <2>3 DEF ReadBack, Lost, Ack, Nack
      <3>. QED
        BY <2>1, <3>1
    <2>. QED
      BY <2>2, <2>3
  <1>10. ASSUME NEW h \in Handlers, SkipUser(h) PROVE RetrievedIsNew'
    BY <1>10 DEF SkipUser, Ack, Leave, Fault, handlerVars
  <1>11. ASSUME NEW h \in Handlers, WriteFails(h) PROVE RetrievedIsNew'
    BY <1>11 DEF WriteFails, Nack, Leave, Fault, handlerVars
  <1>12. ASSUME NEW h \in Handlers, Die(h) PROVE RetrievedIsNew'
    BY <1>12 DEF Die, Nack, Leave, Fault, handlerVars
  <1>13. ASSUME UNCHANGED vars PROVE RetrievedIsNew'
    BY <1>13 DEF vars, handlerVars
  <1>. QED
    BY <1>1, <1>2, <1>3, <1>4, <1>5, <1>6, <1>7, <1>8, <1>9, <1>10, <1>11, <1>12, <1>13 DEF Next, Work

\* Record and cache are written together.
LEMMA StepKeepsUp == EntitlementInv /\ [Next]_vars => CacheKeepsUp'
  <1>. SUFFICES ASSUME TypeOK, RetrievedIsNew, CacheKeepsUp, [Next]_vars PROVE CacheKeepsUp'
    BY DEF EntitlementInv
  <1>. USE EntitlementAssumption DEF Events, TypeOK, RetrievedIsNew, CacheKeepsUp
  <1>1. ASSUME Change PROVE CacheKeepsUp'
    BY <1>1 DEF Change, handlerVars
  <1>2. ASSUME CheckoutRead PROVE CacheKeepsUp'
    BY <1>2 DEF CheckoutRead, handlerVars
  <1>3. ASSUME CheckoutWrite PROVE CacheKeepsUp'
    BY <1>3 DEF CheckoutWrite, Remember, handlerVars
  <1>4. ASSUME NEW h \in Handlers, NEW e \in Events, Deliver(h, e) PROVE CacheKeepsUp'
    BY <1>4 DEF Deliver, Receive, handlerVars
  <1>5. ASSUME NEW h \in Handlers, NEW e \in Events, Duplicate(h, e) PROVE CacheKeepsUp'
    BY <1>5 DEF Duplicate, Receive, handlerVars
  <1>6. ASSUME NEW h \in Handlers, Retrieve(h) PROVE CacheKeepsUp'
    BY <1>6 DEF Retrieve, handlerVars
  <1>7. ASSUME NEW h \in Handlers, Guard(h) PROVE CacheKeepsUp'
    BY <1>7 DEF Guard, Dropped, Ack, Leave, Fault, handlerVars
  <1>8. ASSUME NEW h \in Handlers, Write(h) PROVE CacheKeepsUp'
    BY <1>8 DEF Write, handlerVars
  <1>9. ASSUME NEW h \in Handlers, ReadBack(h) PROVE CacheKeepsUp'
    BY <1>9 DEF ReadBack, Lost, Ack, Nack, Leave, Fault, handlerVars
  <1>10. ASSUME NEW h \in Handlers, SkipUser(h) PROVE CacheKeepsUp'
    BY <1>10 DEF SkipUser, Ack, Leave, Fault, handlerVars
  <1>11. ASSUME NEW h \in Handlers, WriteFails(h) PROVE CacheKeepsUp'
    BY <1>11 DEF WriteFails, Nack, Leave, Fault, handlerVars
  <1>12. ASSUME NEW h \in Handlers, Die(h) PROVE CacheKeepsUp'
    BY <1>12 DEF Die, Nack, Leave, Fault, handlerVars
  <1>13. ASSUME UNCHANGED vars PROVE CacheKeepsUp'
    BY <1>13 DEF vars, handlerVars
  <1>. QED
    BY <1>1, <1>2, <1>3, <1>4, <1>5, <1>6, <1>7, <1>8, <1>9, <1>10, <1>11, <1>12, <1>13 DEF Next, Work

\* Only the guards lead to a write.
LEMMA StepGuards == EntitlementInv /\ [Next]_vars => GuardsPassed'
  <1>. SUFFICES ASSUME TypeOK, GuardsPassed, [Next]_vars PROVE GuardsPassed'
    BY DEF EntitlementInv
  <1>. USE EntitlementAssumption DEF Events, TypeOK, GuardsPassed, Passes
  <1>1. ASSUME Change PROVE GuardsPassed'
    BY <1>1 DEF Change, handlerVars
  <1>2. ASSUME CheckoutRead PROVE GuardsPassed'
    BY <1>2 DEF CheckoutRead, handlerVars
  <1>3. ASSUME CheckoutWrite PROVE GuardsPassed'
    BY <1>3 DEF CheckoutWrite, Remember, handlerVars
  <1>4. ASSUME NEW h \in Handlers, NEW e \in Events, Deliver(h, e) PROVE GuardsPassed'
    BY <1>4 DEF Deliver, Receive, handlerVars
  <1>5. ASSUME NEW h \in Handlers, NEW e \in Events, Duplicate(h, e) PROVE GuardsPassed'
    BY <1>5 DEF Duplicate, Receive, handlerVars
  <1>6. ASSUME NEW h \in Handlers, Retrieve(h) PROVE GuardsPassed'
    BY <1>6 DEF Retrieve, handlerVars
  <1>7. ASSUME NEW h \in Handlers, Guard(h) PROVE GuardsPassed'
    BY <1>7 DEF Guard, Dropped, Ack, Leave, Fault, handlerVars
  <1>8. ASSUME NEW h \in Handlers, Write(h) PROVE GuardsPassed'
    BY <1>8 DEF Write, handlerVars
  <1>9. ASSUME NEW h \in Handlers, ReadBack(h) PROVE GuardsPassed'
    BY <1>9 DEF ReadBack, Lost, Ack, Nack, Leave, Fault, handlerVars
  <1>10. ASSUME NEW h \in Handlers, SkipUser(h) PROVE GuardsPassed'
    BY <1>10 DEF SkipUser, Ack, Leave, Fault, handlerVars
  <1>11. ASSUME NEW h \in Handlers, WriteFails(h) PROVE GuardsPassed'
    BY <1>11 DEF WriteFails, Nack, Leave, Fault, handlerVars
  <1>12. ASSUME NEW h \in Handlers, Die(h) PROVE GuardsPassed'
    BY <1>12 DEF Die, Nack, Leave, Fault, handlerVars
  <1>13. ASSUME UNCHANGED vars PROVE GuardsPassed'
    BY <1>13 DEF vars, handlerVars
  <1>. QED
    BY <1>1, <1>2, <1>3, <1>4, <1>5, <1>6, <1>7, <1>8, <1>9, <1>10, <1>11, <1>12, <1>13 DEF Next, Work

\* An event is acknowledged when the record has it or a later one, and a write
\* below an acknowledged event has its excuse.
LEMMA StepReflects == EntitlementInv /\ [Next]_vars => RecordReflects'
  <1>. SUFFICES ASSUME TypeOK, RetrievedIsNew, GuardsPassed, RecordReflects, [Next]_vars PROVE RecordReflects'
    BY DEF EntitlementInv
  <1>. USE EntitlementAssumption DEF Events, TypeOK, RecordReflects
  <1>1. ASSUME Change PROVE RecordReflects'
    BY <1>1 DEF Change, handlerVars
  <1>2. ASSUME CheckoutRead PROVE RecordReflects'
    BY <1>2 DEF CheckoutRead, handlerVars
  <1>3. ASSUME CheckoutWrite PROVE RecordReflects'
    BY <1>3 DEF CheckoutWrite, Remember, handlerVars
  <1>4. ASSUME NEW h \in Handlers, NEW e \in Events, Deliver(h, e) PROVE RecordReflects'
    BY <1>4 DEF Deliver, Receive, handlerVars
  <1>5. ASSUME NEW h \in Handlers, NEW e \in Events, Duplicate(h, e) PROVE RecordReflects'
    BY <1>5 DEF Duplicate, Receive, handlerVars
  <1>6. ASSUME NEW h \in Handlers, Retrieve(h) PROVE RecordReflects'
    BY <1>6 DEF Retrieve, handlerVars
  <1>7. ASSUME NEW h \in Handlers, Guard(h) PROVE RecordReflects'
    <2>1. UNCHANGED <<record, excuses>> /\ event[h] \in Events /\ record \in 0..N
      BY <1>7, AtWork DEF Guard
    <2>2. PICK r \in {record, NoRead} :
            \/ ~ Passes(event[h], r) /\ acked' = acked \cup {event[h]}
            \/ UNCHANGED acked
      BY <1>7 DEF Guard, Dropped, Ack
    <2>3. CASE ~ Passes(event[h], r)
      <3>1. r = record
        BY <2>1, <2>3 DEF Passes, NoRead
      <3>2. event[h] <= record
        BY <2>1, <2>3, <3>1 DEF Passes
      <3>. QED
        BY <2>1, <2>2, <3>2
    <2>. QED
      BY <2>1, <2>2, <2>3
  <1>8. ASSUME NEW h \in Handlers, Write(h) PROVE RecordReflects'
    <2>1. record' = event[h] /\ UNCHANGED acked /\ event[h] \in Events
      BY <1>8, AtWork DEF Write
    <2>2. CASE ~ Clobbers(h)
      <3>1. excuses' = excuses
        BY <1>8, <2>2 DEF Write
      <3>. QED
        BY <2>1, <2>2, <3>1 DEF Clobbers
    <2>3. CASE Clobbers(h)
      <3>1. excuses' = excuses \cup Excuse(h)
        BY <1>8, <2>3 DEF Write
      <3>2. ASSUME seen[h] # NoRead, seen[h] = record
            PROVE  Created[seen[h]] = Created[event[h]]
        <4>1. Passes(event[h], record)
          BY <1>8, <3>2 DEF GuardsPassed, Write
        <4>2. event[h] < record /\ record \in Events
          BY <2>1, <2>3 DEF Clobbers
        <4>. QED
          BY <2>1, <3>2, <4>1, <4>2 DEF Passes
      <3>3. Excuse(h) # {}
        BY <3>2 DEF Excuse
      <3>. QED
        BY <3>1, <3>3
    <2>. QED
      BY <2>2, <2>3
  <1>9. ASSUME NEW h \in Handlers, ReadBack(h) PROVE RecordReflects'
    <2>1. UNCHANGED <<record, excuses>> /\ event[h] \in Events /\ record \in 0..N
      BY <1>9, AtWork DEF ReadBack
    <2>2. PICK r \in {record, NoRead} :
            \/ Landed(event[h], r) /\ acked' = acked \cup {event[h]}
            \/ UNCHANGED acked
      BY <1>9 DEF ReadBack, Lost, Ack, Nack
    <2>3. CASE Landed(event[h], r)
      <3>1. r = record
        BY <2>1, <2>3 DEF Landed, NoRead
      <3>2. event[h] <= record
        BY <2>1, <2>3, <3>1 DEF Landed
      <3>. QED
        BY <2>1, <2>2, <3>2
    <2>. QED
      BY <2>1, <2>2, <2>3
  <1>10. ASSUME NEW h \in Handlers, SkipUser(h) PROVE RecordReflects'
    BY <1>10 DEF SkipUser, Ack, Leave, Fault, handlerVars
  <1>11. ASSUME NEW h \in Handlers, WriteFails(h) PROVE RecordReflects'
    BY <1>11 DEF WriteFails, Nack, Leave, Fault, handlerVars
  <1>12. ASSUME NEW h \in Handlers, Die(h) PROVE RecordReflects'
    BY <1>12 DEF Die, Nack, Leave, Fault, handlerVars
  <1>13. ASSUME UNCHANGED vars PROVE RecordReflects'
    BY <1>13 DEF vars, handlerVars
  <1>. QED
    BY <1>1, <1>2, <1>3, <1>4, <1>5, <1>6, <1>7, <1>8, <1>9, <1>10, <1>11, <1>12, <1>13 DEF Next, Work

\* The invariant is inductive.
LEMMA StepEntitlement == EntitlementInv /\ [Next]_vars => EntitlementInv'
  BY StepTypes, StepNew, StepKeepsUp, StepGuards, StepReflects DEF EntitlementInv

\* Every reachable state satisfies it.
THEOREM EntitlementInvariant == Spec => []EntitlementInv
  BY InitEntitlement, StepEntitlement, PTL DEF Spec

\* The cache and the handlers keep their types, whatever is delivered when.
THEOREM EntitlementTypeCorrect == Spec => []TypeOK
  <1>1. EntitlementInv => TypeOK
    BY DEF EntitlementInv
  <1>. QED
    BY <1>1, EntitlementInvariant, PTL

\* What Stripe was told is handled is in the cache, up to the four excuses
\* (applyEntitlement).
THEOREM AcknowledgedReflected == Spec => []AcknowledgedIsReflected
  <1>1. EntitlementInv => AcknowledgedIsReflected
    BY DEF EntitlementInv, TypeOK, CacheKeepsUp, RecordReflects, AcknowledgedIsReflected
  <1>. QED
    BY <1>1, EntitlementInvariant, PTL

-----------------------------------------------------------------------------
(* The purchase: BillingCheckout.                                           *)

\* A state is written over by a later event of the same subscription, if it is stale.
StateFollows ==
    \A k \in Keys : onFile.key = k /\ onFile.status # sub[k] =>
        \E e \in pending : e.key = k /\ e.created > onFile.created

\* n is the subscription of the newest event, which is under way or applied; while no
\* two have been live at once, none but it is live.
NewestEvent(n) ==
    /\ \/ [key |-> n, created |-> stamp] \in pending
       \/ onFile.key = n /\ onFile.created = stamp
    /\ \A e \in pending : e.created = stamp => e.key = n
    /\ ~doubled => LiveNow \subseteq {n}

CheckoutInv ==
    /\ stamp \in Nat
    /\ doubled \in BOOLEAN
    /\ sub \in [Keys -> {"none", "active", "past_due", "canceled"}]
    /\ pending \subseteq [key : Keys, created : 1..stamp]
    /\ onFile.created \in 0..stamp
    /\ StateFollows
    /\ stamp = 0 => LiveNow = {}
    /\ stamp > 0 => \E n \in Keys : NewestEvent(n)
    /\ \A t \in Tabs : form[t] # NoTab => form[t].against = {}
    /\ DOMAIN form = Tabs
    /\ against \in [Keys -> {{}}]

LEMMA CheckoutStart == ASSUME CheckoutInit PROVE CheckoutInv
<1>1. /\ form = [t \in Tabs |-> NoTab] /\ sub = [k \in Keys |-> "none"]
      /\ pending = {} /\ stamp = 0 /\ against = [k \in Keys |-> {}] /\ doubled = FALSE
      /\ onFile = [key |-> NoTab, status |-> "none", created |-> 0]
  BY DEF CheckoutInit
<1>2. StateFollows
  BY <1>1 DEF StateFollows
<1>3. LiveNow = {}
  BY <1>1 DEF LiveNow
<1>4. doubled \in BOOLEAN
  BY <1>1
<1>5. onFile.created \in 0..stamp
  BY <1>1
<1> QED
  BY <1>1, <1>2, <1>3, <1>4, <1>5 DEF CheckoutInv

\* A subscription changes: its event is the newest.
LEMMA BecomesHolds ==
    ASSUME CheckoutInv, NEW k \in Keys, NEW s \in {"active", "past_due", "canceled"},
           s = "canceled" => k \in LiveNow, Becomes(k, s)
    PROVE  CheckoutInv'
<1>1. /\ stamp' = stamp + 1 /\ sub' = [sub EXCEPT ![k] = s]
      /\ pending' = pending \cup {[key |-> k, created |-> stamp + 1]}
      /\ UNCHANGED <<form, onFile, against>>
  BY DEF Becomes
<1>2. doubled' = (doubled \/ \E o \in LiveNow : o # k /\ s # "canceled")
  BY DEF Becomes
<1>3. /\ stamp' \in Nat /\ sub' \in [Keys -> {"none", "active", "past_due", "canceled"}]
      /\ pending' \subseteq [key : Keys, created : 1..stamp'] /\ onFile'.created \in 0..stamp'
  BY <1>1 DEF CheckoutInv
<1>4. doubled' \in BOOLEAN
  BY <1>2, Zenon
<1>5. \E e \in pending' : e.key = k /\ e.created = stamp + 1
  <2>1. [key |-> k, created |-> stamp + 1] \in pending'
    BY <1>1
  <2> QED
    BY <2>1, Zenon
<1>6. StateFollows'
  <2> SUFFICES ASSUME NEW j \in Keys, onFile'.key = j, onFile'.status # sub'[j]
               PROVE  \E d \in pending' : d.key = j /\ d.created > onFile'.created
    BY DEF StateFollows
  <2>1. CASE j = k
    BY <2>1, <1>1, <1>5 DEF CheckoutInv
  <2>2. CASE j # k
    <3>1. sub'[j] = sub[j]
      BY <2>2, <1>1 DEF CheckoutInv
    <3>2. \E d \in pending : d.key = j /\ d.created > onFile.created
      BY <1>1, <3>1 DEF CheckoutInv, StateFollows
    <3> QED
      BY <1>1, <3>2
  <2> QED
    BY <2>1, <2>2
<1>7. LiveNow' \subseteq LiveNow \cup {k} /\ (s = "canceled" => LiveNow' \subseteq LiveNow \ {k})
  BY <1>1 DEF LiveNow, CheckoutInv
<1>8. ASSUME ~doubled' PROVE LiveNow' \subseteq {k}
  <2>1. ~doubled /\ (\A o \in LiveNow : o = k \/ s = "canceled")
    BY <1>2, <1>8, Zenon
  <2>2. CASE s = "canceled"
    <3>1. stamp > 0
      BY <2>2 DEF CheckoutInv
    <3>2. PICK n \in Keys : NewestEvent(n)
      BY <3>1 DEF CheckoutInv
    <3>3. LiveNow \subseteq {n}
      BY <2>1, <3>2, Zenon DEF NewestEvent
    <3> QED
      BY <2>2, <3>3, <1>7
  <2>3. CASE s # "canceled"
    BY <2>1, <2>3, <1>7
  <2> QED
    BY <2>2, <2>3
<1>9. NewestEvent(k)'
  <2>1. [key |-> k, created |-> stamp'] \in pending'
    BY <1>1
  <2>2. \A e \in pending' : e.created = stamp' => e.key = k
    <3> SUFFICES ASSUME NEW e \in pending', e.created = stamp + 1 PROVE e.key = k
      BY <1>1
    <3>1. e \in pending => e.created \in 1..stamp /\ stamp \in Nat
      BY DEF CheckoutInv
    <3>2. e \notin pending
      BY <3>1
    <3>3. e = [key |-> k, created |-> stamp + 1]
      BY <1>1, <3>2
    <3> QED
      BY <3>3
  <2> QED
    BY <1>8, <2>1, <2>2, Zenon DEF NewestEvent
<1>10. stamp' > 0
  BY <1>1 DEF CheckoutInv
<1> QED
  BY <1>1, <1>3, <1>4, <1>6, <1>9, <1>10 DEF CheckoutInv

\* What the webhook is given of e.
LEMMA WebhookHolds == ASSUME CheckoutInv, NEW e \in pending, Webhook(e) PROVE CheckoutInv'
<1>1. /\ pending' = pending \ {e} /\ UNCHANGED <<form, sub, stamp, against, doubled>>
      /\ onFile' = IF IsStale(e) THEN onFile
                   ELSE [key |-> e.key, status |-> sub[e.key], created |-> e.created]
  BY DEF Webhook
<1>2. e.key \in Keys /\ e.created \in 1..stamp /\ e = [key |-> e.key, created |-> e.created]
  BY DEF CheckoutInv
<1>3. onFile.created \in 0..stamp /\ stamp \in Nat
  BY DEF CheckoutInv
<1>4. LiveNow' = LiveNow
  BY <1>1 DEF LiveNow
<1>5. CASE e.created < onFile.created
  <2>1. onFile' = onFile
    BY <1>1, <1>5 DEF IsStale
  <2>2. StateFollows'
    <3> SUFFICES ASSUME NEW k \in Keys, onFile.key = k, onFile.status # sub[k]
                 PROVE  \E d \in pending' : d.key = k /\ d.created > onFile.created
      BY <1>1, <2>1 DEF StateFollows
    <3>1. PICK d \in pending : d.key = k /\ d.created > onFile.created
      BY DEF CheckoutInv, StateFollows
    <3>2. d # e
      <4>1. d.created \in 1..stamp
        BY DEF CheckoutInv
      <4> QED
        BY <3>1, <4>1, <1>2, <1>3, <1>5
    <3> QED
      BY <1>1, <3>1, <3>2
  <2>3. ASSUME NEW n \in Keys, NewestEvent(n) PROVE NewestEvent(n)'
    <3>1. [key |-> n, created |-> stamp] # e
      BY <1>2, <1>3, <1>5
    <3>2. \/ [key |-> n, created |-> stamp'] \in pending'
          \/ onFile'.key = n /\ onFile'.created = stamp'
      BY <1>1, <2>1, <2>3, <3>1 DEF NewestEvent
    <3>3. \A d \in pending' : d.created = stamp' => d.key = n
      BY <1>1, <2>3 DEF NewestEvent
    <3> QED
      BY <3>2, <3>3, <2>3, <1>1, <1>4, Zenon DEF NewestEvent
  <2>4. stamp' > 0 => \E n \in Keys : NewestEvent(n)'
    BY <1>1, <2>3 DEF CheckoutInv
  <2> QED
    BY <1>1, <1>4, <2>1, <2>2, <2>4 DEF CheckoutInv
<1>6. CASE ~(e.created < onFile.created)
  <2>1. onFile' = [key |-> e.key, status |-> sub[e.key], created |-> e.created]
    BY <1>1, <1>6 DEF IsStale
  <2>2. /\ onFile'.key = e.key /\ onFile'.status = sub'[e.key]
        /\ onFile'.created = e.created
    BY <1>1, <2>1
  <2>3. StateFollows'
    BY <2>2, Zenon DEF StateFollows
  <2>4. ASSUME NEW n \in Keys, NewestEvent(n) PROVE NewestEvent(n)'
    <3>4. \A d \in pending' : d.created = stamp' => d.key = n
      BY <1>1, <2>4 DEF NewestEvent
    <3>1. CASE [key |-> n, created |-> stamp] = e
      <4>1. onFile'.key = n /\ onFile'.created = stamp'
        BY <1>1, <2>2, <3>1
      <4> QED
        BY <4>1, <3>4, <2>4, <1>1, <1>4, Zenon DEF NewestEvent
    <3>2. CASE [key |-> n, created |-> stamp] \in pending /\ [key |-> n, created |-> stamp] # e
      <4>1. [key |-> n, created |-> stamp'] \in pending'
        BY <1>1, <3>2
      <4> QED
        BY <4>1, <3>4, <2>4, <1>1, <1>4, Zenon DEF NewestEvent
    <3>3. CASE onFile.key = n /\ onFile.created = stamp
      <4>1. e.created = stamp
        BY <1>2, <1>3, <1>6, <3>3
      <4>2. CASE e.key = n
        <5>1. onFile'.key = n /\ onFile'.created = stamp'
          BY <1>1, <2>2, <4>1, <4>2
        <5> QED
          BY <5>1, <3>4, <2>4, <1>1, <1>4, Zenon DEF NewestEvent
      <4> QED
        BY <2>4, <4>1, <4>2 DEF NewestEvent
    <3> QED
      BY <2>4, <3>1, <3>2, <3>3, Zenon DEF NewestEvent
  <2> QED
    BY <1>1, <1>2, <1>4, <2>2, <2>3, <2>4 DEF CheckoutInv
<1> QED
  BY <1>5, <1>6

LEMMA CheckoutStep == ASSUME CheckoutInv, [CheckoutNext]_checkoutVars PROVE CheckoutInv'
<1>1. ASSUME UNCHANGED <<sub, pending, stamp, onFile, doubled>>,
             \A t \in Tabs : form'[t] # NoTab => form'[t].against = {},
             DOMAIN form' = Tabs, against' \in [Keys -> {{}}]
      PROVE  CheckoutInv'
  <2>1. StateFollows' /\ LiveNow' = LiveNow
    BY <1>1 DEF CheckoutInv, StateFollows, LiveNow
  <2>2. \A n \in Keys : NewestEvent(n) => NewestEvent(n)'
    BY <1>1, <2>1, Zenon DEF NewestEvent
  <2> QED
    BY <1>1, <2>1, <2>2 DEF CheckoutInv
<1>2. /\ DOMAIN form = Tabs /\ against \in [Keys -> {{}}]
      /\ \A t \in Tabs : form[t] # NoTab => form[t].against = {}
  BY DEF CheckoutInv
<1>3. CASE Tick
  BY <1>1, <1>2, <1>3 DEF Tick
<1>4. ASSUME NEW t \in Tabs, NEW p \in PLAN_IDS, Submit(t, p) PROVE CheckoutInv'
  <2>1. /\ onFile.status \notin LiveStatuses
        /\ form' = [form EXCEPT ![t] =
                      [plan |-> p, against |-> {k \in LiveNow : OnFile(k)}]]
        /\ UNCHANGED <<sub, pending, stamp, onFile, doubled, against>>
    BY <1>4 DEF Submit
  <2>2. {k \in LiveNow : OnFile(k)} = {}
    BY <2>1 DEF CheckoutInv, StateFollows, LiveNow, LiveStatuses, OnFile
  <2>3. form' = [form EXCEPT ![t] = [plan |-> p, against |-> {}]]
    BY <2>1, <2>2
  <2>4. \A u \in Tabs : form'[u] # NoTab => form'[u].against = {}
    BY <1>2, <2>3
  <2> QED
    BY <1>1, <1>2, <2>1, <2>3, <2>4
<1>5. ASSUME NEW t \in Tabs, Create(t) PROVE CheckoutInv'
  <2>1. PICK k : against' = [against EXCEPT ![k] =
                               IF session[k] = "none" THEN form[t].against ELSE @]
    BY <1>5, Zenon DEF Create
  <2>2. form[t].against = {}
    BY <1>2, <1>5 DEF Create
  <2>3. against' \in [Keys -> {{}}]
    BY <1>2, <2>1, <2>2
  <2>4. form' = [form EXCEPT ![t] = NoTab]
    BY <1>5 DEF Create
  <2>5. \A u \in Tabs : form'[u] # NoTab => form'[u].against = {}
    BY <1>2, <2>4
  <2> QED
    BY <1>1, <1>2, <1>5, <2>3, <2>4, <2>5 DEF Create
<1>6. ASSUME NEW t \in Tabs, Abandon(t) PROVE CheckoutInv'
  <2>1. form' = [form EXCEPT ![t] = NoTab]
    BY <1>6 DEF Abandon
  <2>2. \A u \in Tabs : form'[u] # NoTab => form'[u].against = {}
    BY <1>2, <2>1
  <2> QED
    BY <1>1, <1>2, <1>6, <2>1, <2>2 DEF Abandon
<1>7. ASSUME NEW k \in Keys, Pay(k) \/ PaymentRecovers(k) PROVE CheckoutInv'
  BY <1>7, BecomesHolds DEF Pay, PaymentRecovers
<1>8. ASSUME NEW k \in Keys, PaymentFails(k) PROVE CheckoutInv'
  BY <1>8, BecomesHolds DEF PaymentFails
<1>9. ASSUME NEW k \in Keys, Cancel(k) PROVE CheckoutInv'
  <2>1. k \in LiveNow
    BY <1>9 DEF Cancel, LiveNow
  <2> QED
    BY <1>9, <2>1, BecomesHolds DEF Cancel
<1>10. ASSUME NEW e \in pending, Webhook(e) PROVE CheckoutInv'
  BY <1>10, WebhookHolds
<1>11. CASE UNCHANGED checkoutVars
  BY <1>1, <1>2, <1>11 DEF checkoutVars
<1> QED
  BY <1>3, <1>4, <1>5, <1>6, <1>7, <1>8, <1>9, <1>10, <1>11 DEF CheckoutNext

LEMMA ServedUnlessDoubled == ASSUME CheckoutInv PROVE OnlyDoublesGoUnserved
<1>1. ASSUME pending = {}, ~doubled, NEW k \in Keys, sub[k] = "active"
      PROVE  onFile.status = "active"
  <2>1. k \in LiveNow
    BY <1>1 DEF LiveNow
  <2>2. PICK n \in Keys : NewestEvent(n)
    BY <2>1 DEF CheckoutInv
  <2>3. n = k /\ onFile.key = k
    BY <1>1, <2>1, <2>2 DEF NewestEvent
  <2> QED
    BY <1>1, <2>3 DEF CheckoutInv, StateFollows
<1>2. ASSUME NEW a \in LiveNow, NEW b \in LiveNow PROVE a \notin against[b]
  BY <1>2 DEF CheckoutInv, LiveNow
<1> QED
  BY <1>1, <1>2, Zenon DEF OnlyDoublesGoUnserved

\* Of the checkout route, Stripe's sessions and the webhook (checkout/route.ts POST,
\* entitlement.ts applyEntitlement): for any number of tabs, plans, sessions and
\* events delivered in any order, a paying user whose webhooks were all answered is
\* served unless two subscriptions were live at once, and no session is made by a
\* check at which another live subscription was on record.
THEOREM PayersAreServed == CheckoutSpec => []OnlyDoublesGoUnserved
<1>1. CheckoutInit => CheckoutInv
  BY CheckoutStart
<1>2. CheckoutInv /\ [CheckoutNext]_checkoutVars => CheckoutInv'
  BY CheckoutStep
<1>3. CheckoutInv => OnlyDoublesGoUnserved
  BY ServedUnlessDoubled
<1> QED
  BY <1>1, <1>2, <1>3, PTL DEF CheckoutSpec

=============================================================================
