------------------------ MODULE AttributeCacheProofs ------------------------
(* TLAPS proofs about AttributeCache, for every set of devices, attributes  *)
(* and ages, every length of a minute and every bound on the time.          *)
EXTENDS AttributeCache, TLAPS

\* No stamp lies in the future, and a read under way has begun.
ClocksAgree ==
  /\ \A a \in Attribute : attributeMap[a].stamp <= now
  /\ reading # NoRead => reading.begun <= now

\* A stamp that came without a value is noted: any other entry was stamped by its value.
StampedByValue ==
  \A a \in Attribute \ touched :
    attributeMap[a].known =>
      attributeMap[a].value # NoValue /\ attributeMap[a].value.at = attributeMap[a].stamp

CacheInv == TypeOK /\ ClocksAgree /\ StampedByValue

Entry == [known : BOOLEAN, stamp : Time \cup {-1}, value : Values]
Reading == [attr : Attribute, within : MaxAges, begun : Time, step : Steps]

-----------------------------------------------------------------------------
(* The records of the model                                                *)

\* Seconds are numbers, and the one of an entry without a stamp comes before all of them.
LEMMA Seconds ==
  /\ \A t \in Time : t \in Int /\ 0 <= t
  /\ 0 \in Time /\ -1 \in Int
BY TimeAssumption DEF Time

LEMMA EntryFields ==
  ASSUME NEW e \in Entry
  PROVE  /\ e.known \in BOOLEAN
         /\ e.stamp \in Time \cup {-1} /\ e.stamp \in Int
         /\ e.value \in Values /\ e.value.at \in Int
<1>1. e.known \in BOOLEAN /\ e.stamp \in Time \cup {-1} /\ e.value \in Values
  BY DEF Entry
<1>2. e.value.at \in Time \cup {-1}
  BY <1>1 DEF Values, NoValue
<1> QED  BY <1>1, <1>2, Seconds

LEMMA ValueFacts ==
  /\ NoValue \in Values /\ NoValue.at = -1
  /\ \A v \in Values : v # NoValue => v.of \in Device /\ v.at \in Time
  /\ \A d \in Device, t \in Time : /\ [of |-> d, at |-> t] \in Values
                                  /\ [of |-> d, at |-> t] # NoValue
<1>1. ASSUME NEW d \in Device, NEW t \in Time PROVE [of |-> d, at |-> t] # NoValue
  <2>1. d # None  BY NoneAssumption
  <2> QED  BY <2>1 DEF NoValue
<1> QED  BY <1>1 DEF NoValue, Values

LEMMA ReadingFacts ==
  /\ NoRead.step = "none"
  /\ \A r \in Reading : r.step \in Steps /\ r.attr \in Attribute /\ r # NoRead
BY DEF NoRead, Reading, Steps

\* A read is under way exactly when it is at a step.
LEMMA AtAStep ==
  ASSUME TypeOK
  PROVE  /\ reading = NoRead <=> AtStep("none")
         /\ \A s \in Steps : AtStep(s) => reading \in Reading
BY ReadingFacts DEF TypeOK, ReadingOK, AtStep, Reading, Steps

\* An age below a minute is not changed by taking it modulo a minute.
LEMMA WithinAMinute ==
  ASSUME NEW n \in Nat, n < Minute
  PROVE  n % Minute = n
BY TimeAssumption

-----------------------------------------------------------------------------
(* Type correctness                                                        *)

\* A table stays well formed when one of its entries is replaced by a well-formed one.
LEMMA MapType ==
  ASSUME MapOK, NEW a \in Attribute, NEW e \in Entry,
         e.known => Connected /\ e.stamp \in Time, e.value.at <= e.stamp,
         attributeMap' = [attributeMap EXCEPT ![a] = e], macAddress' = macAddress
  PROVE  MapOK'
BY DEF MapOK, Connected, Entry

\* What ReadAttribute sees of an attribute of a connected device.
LEMMA LookedEntry ==
  ASSUME TypeOK, ClocksAgree, Connected, NEW a \in Attribute
  PROVE  /\ Looked(a) \in Entry /\ Looked(a).known
         /\ Looked(a).stamp \in Time /\ Looked(a).stamp <= now
         /\ Looked(a).value.at <= Looked(a).stamp
<1>1. CASE attributeMap[a].known
  <2>1. Looked(a) = attributeMap[a]  BY <1>1 DEF Looked
  <2> QED  BY <1>1, <2>1 DEF TypeOK, MapOK, ClocksAgree, Entry
<1>2. CASE ~attributeMap[a].known
  <2>1. Looked(a) = [known |-> TRUE, stamp |-> now, value |-> NoValue]  BY <1>2 DEF Looked
  <2>2. now \in Time /\ now \in Int /\ 0 <= now  BY Seconds DEF TypeOK
  <2> QED  BY <2>1, <2>2, ValueFacts DEF Entry
<1> QED  BY <1>1, <1>2

\* A reply is a well-formed answer and ends the read.
LEMMA ReplyType ==
  ASSUME now \in Time, NEW r \in Reading, NEW v \in Entry,
         NEW why \in SUBSET {"stamped", "minute", "released"}, Reply(v, r, why)
  PROVE  ReadingOK' /\ AnswerOK'
<1>1. v.value \in Values  BY EntryFields
<1>2. answer' \in Answers  BY <1>1 DEF Reply, Answers, Reading
<1> QED  BY <1>2 DEF Reply, ReadingOK, AnswerOK, NoRead

LEMMA GotoType ==
  ASSUME ReadingOK, NEW s \in Steps, NEW t \in Steps, AtStep(t), Goto(s)
  PROVE  ReadingOK'
<1>1. reading \in Reading  BY ReadingFacts DEF ReadingOK, Reading, AtStep, Steps
<1>2. reading' = [reading EXCEPT !.step = s]  BY DEF Goto
<1>3. reading' \in Reading  BY <1>1, <1>2 DEF Reading
<1> QED  BY <1>3 DEF ReadingOK, Reading

LEMMA InitInv == Init => CacheInv
<1> SUFFICES ASSUME Init PROVE CacheInv  OBVIOUS
<1>1. NoEntry \in Entry /\ NoEntry.known = FALSE /\ NoEntry.stamp = -1 /\ NoEntry.value.at = -1
  BY ValueFacts DEF NoEntry, Entry
<1>2. TypeOK  BY <1>1, Seconds DEF Init, TypeOK, MapOK, ReadingOK, AnswerOK, Entry
<1>3. ClocksAgree  BY <1>1 DEF Init, ClocksAgree
<1>4. StampedByValue  BY <1>1 DEF Init, StampedByValue
<1> QED  BY <1>2, <1>3, <1>4 DEF CacheInv

LEMMA TypeStep ==
  ASSUME TypeOK, ClocksAgree, [Next]_vars
  PROVE  TypeOK'
<1> USE DEF TypeOK
<1>0. now \in Time /\ now \in Int /\ 0 <= now /\ touched \subseteq Attribute
  BY Seconds
<1>1. CASE Tick
  <2>1. now' \in Time  BY <1>1, TimeAssumption DEF Tick, Time
  <2> QED  BY <1>1, <2>1 DEF Tick, MapOK, ReadingOK, AnswerOK, Connected
<1>2. CASE CommandAccepted
  <2>1. ReadingOK'  BY <1>2, GotoType DEF CommandAccepted, Steps
  <2> QED  BY <1>2, <2>1 DEF CommandAccepted, MapOK, AnswerOK, Connected
<1>3. CASE ReadFails
  BY <1>3 DEF ReadFails, MapOK, ReadingOK, AnswerOK, Connected
<1>4. CASE ProcedureCompleted
  <2>1. reading \in Reading  BY <1>4, AtAStep DEF ProcedureCompleted, Steps
  <2>2. attributeMap[reading.attr] \in Entry  BY <2>1 DEF MapOK, Reading, Entry
  <2>3. ReadingOK' /\ AnswerOK'  BY <1>0, <1>4, <2>1, <2>2, ReplyType DEF ProcedureCompleted
  <2> QED  BY <1>4, <2>3 DEF ProcedureCompleted, MapOK, Connected
<1>5. CASE ConnectionDisconnect
  <2>1. NoEntry \in Entry /\ NoEntry.known = FALSE /\ NoEntry.stamp = -1 /\ NoEntry.value.at = -1
    BY ValueFacts DEF NoEntry, Entry
  <2>2. MapOK'  BY <1>5, <2>1 DEF ConnectionDisconnect, MapOK, Entry
  <2> QED  BY <1>5, <2>2 DEF ConnectionDisconnect, ReadingOK, AnswerOK
<1>6. ASSUME NEW d \in Device, ConnectionGetStatus(d) PROVE TypeOK'
  <2>1. MapOK'  BY <1>6 DEF ConnectionGetStatus, MapOK, Connected
  <2> QED  BY <1>6, <2>1 DEF ConnectionGetStatus, ReadingOK, AnswerOK
<1>7. ASSUME NEW a \in Attribute, Described(a) PROVE TypeOK'
  <2> DEFINE e == [attributeMap[a] EXCEPT !.known = TRUE, !.stamp = now]
  <2>1. attributeMap[a] \in Entry /\ attributeMap[a].value.at <= attributeMap[a].stamp
    BY DEF MapOK, Entry
  <2>2. e \in Entry /\ e.stamp = now /\ e.value = attributeMap[a].value
    BY <1>0, <2>1 DEF Entry
  <2>3. e.value.at <= e.stamp
    BY <1>0, <2>1, <2>2, EntryFields DEF ClocksAgree
  <2>4. attributeMap' = [attributeMap EXCEPT ![a] = e]  BY <1>7 DEF Described
  <2> HIDE DEF e
  <2>5. MapOK'  BY <1>0, <1>7, <2>2, <2>3, <2>4, MapType DEF Described
  <2> QED  BY <1>7, <2>5 DEF Described, ReadingOK, AnswerOK
<1>8. ASSUME NEW a \in Attribute, AttributeValue(a) PROVE TypeOK'
  <2>1. macAddress \in Device  BY <1>8 DEF AttributeValue, Connected
  <2>2. Received(a) \in Entry /\ Received(a).stamp = now /\ Received(a).value.at = now
    BY <1>0, <2>1, ValueFacts DEF Received, Entry
  <2> DEFINE e == Received(a)
  <2>3. MapOK'
    <3>1. attributeMap' = [attributeMap EXCEPT ![a] = e] /\ Connected /\ macAddress' = macAddress
      BY <1>8 DEF AttributeValue
    <3> HIDE DEF e
    <3>2. e \in Entry /\ e.stamp \in Time /\ e.value.at <= e.stamp
      BY <1>0, <2>2 DEF e
    <3> QED  BY <3>1, <3>2, MapType
  <2>4. ReadingOK' /\ AnswerOK'
    <3>1. CASE AtStep("value")
      <4>1. reading \in Reading  BY <3>1, AtAStep DEF Steps
      <4>2. attributeMap'[reading.attr] \in Entry  BY <2>3, <4>1 DEF MapOK, Reading, Entry
      <4> QED  BY <1>0, <1>8, <3>1, <4>1, <4>2, ReplyType DEF AttributeValue
    <3>2. CASE ~AtStep("value")
      BY <1>8, <3>2 DEF AttributeValue, ReadingOK, AnswerOK
    <3> QED  BY <3>1, <3>2
  <2> QED  BY <1>8, <2>3, <2>4 DEF AttributeValue
<1>9. ASSUME NEW a \in Attribute, NEW within \in MaxAges, ReadAttribute(a, within) PROVE TypeOK'
  <2> DEFINE r == [attr |-> a, within |-> within, begun |-> now, step |-> "find"]
  <2>1. r \in Reading  BY <1>0 DEF Reading, Steps
  <2>2. Looked(a) \in Entry /\ Looked(a).known /\ Looked(a).stamp \in Time
        /\ Looked(a).value.at <= Looked(a).stamp
    BY <1>9, LookedEntry DEF ReadAttribute
  <2>3. MapOK'  BY <1>9, <2>2, MapType DEF ReadAttribute
  <2>4. ReadingOK' /\ AnswerOK'
    <3>1. CASE OldEnough(Looked(a), within)
      <4>1. reading' = r /\ answer' = NoAnswer  BY <1>9, <3>1 DEF ReadAttribute
      <4> QED  BY <2>1, <4>1 DEF ReadingOK, AnswerOK, Reading
    <3>2. CASE ~OldEnough(Looked(a), within)
      <4>1. PICK t : Reply(Looked(a), r, Excuses(r, Looked(a), t))
        BY <1>9, <3>2 DEF ReadAttribute
      <4>2. Excuses(r, Looked(a), t) \in SUBSET {"stamped", "minute", "released"}
        BY DEF Excuses
      <4> QED  BY <1>0, <2>1, <2>2, <4>1, <4>2, ReplyType
    <3> QED  BY <3>1, <3>2
  <2>5. touched' \subseteq Attribute  BY <1>0, <1>9 DEF ReadAttribute
  <2> QED  BY <1>9, <2>3, <2>4, <2>5 DEF ReadAttribute
<1>10. CASE UNCHANGED vars
  BY <1>10 DEF vars, MapOK, ReadingOK, AnswerOK, Connected
<1> QED  BY <1>1, <1>2, <1>3, <1>4, <1>5, <1>6, <1>7, <1>8, <1>9, <1>10 DEF Next

-----------------------------------------------------------------------------
(* Stamps and values                                                       *)

LEMMA ClocksStep ==
  ASSUME TypeOK, ClocksAgree, [Next]_vars
  PROVE  ClocksAgree'
<1> USE DEF ClocksAgree
<1>0. /\ now \in Int /\ \A a \in Attribute : attributeMap[a].stamp \in Int
      /\ reading # NoRead => reading.begun \in Int
  <2>1. now \in Int  BY Seconds DEF TypeOK
  <2>2. \A a \in Attribute : attributeMap[a] \in Entry  BY DEF TypeOK, MapOK, Entry
  <2>3. reading # NoRead => reading.begun \in Int  BY Seconds DEF TypeOK, ReadingOK
  <2> QED  BY <2>1, <2>2, <2>3, EntryFields
<1>1. CASE Tick  BY <1>0, <1>1 DEF Tick
<1>2. CASE CommandAccepted
  <2>1. reading # NoRead /\ reading'.begun = reading.begun
    <3>1. reading \in Reading
      BY <1>2, AtAStep DEF CommandAccepted, Steps
    <3>2. PICK s \in Steps : reading' = [reading EXCEPT !.step = s]
      BY <1>2 DEF CommandAccepted, Goto, Steps
    <3> QED  BY <3>1, <3>2, ReadingFacts DEF Reading
  <2> QED  BY <1>2, <2>1 DEF CommandAccepted
<1>3. CASE ReadFails  BY <1>3 DEF ReadFails
<1>4. CASE ProcedureCompleted  BY <1>4 DEF ProcedureCompleted, Reply
<1>5. CASE ConnectionDisconnect
  <2>1. NoEntry.stamp <= now  BY <1>0, Seconds DEF NoEntry, TypeOK
  <2> QED  BY <1>5, <2>1 DEF ConnectionDisconnect
<1>6. ASSUME NEW d \in Device, ConnectionGetStatus(d) PROVE ClocksAgree'
  BY <1>6 DEF ConnectionGetStatus
<1>7. ASSUME NEW a \in Attribute, Described(a) PROVE ClocksAgree'
  <2>1. attributeMap'[a].stamp = now
    BY <1>7 DEF Described, TypeOK, MapOK
  <2>2. \A b \in Attribute \ {a} : attributeMap'[b] = attributeMap[b]
    BY <1>7 DEF Described, TypeOK, MapOK
  <2> QED  BY <1>0, <1>7, <2>1, <2>2 DEF Described
<1>8. ASSUME NEW a \in Attribute, AttributeValue(a) PROVE ClocksAgree'
  <2>1. attributeMap'[a].stamp = now
    BY <1>8 DEF AttributeValue, Received, TypeOK, MapOK
  <2>2. \A b \in Attribute \ {a} : attributeMap'[b] = attributeMap[b]
    BY <1>8 DEF AttributeValue, TypeOK, MapOK
  <2>3. reading' = NoRead \/ reading' = reading
    BY <1>8 DEF AttributeValue, Reply
  <2> QED  BY <1>0, <1>8, <2>1, <2>2, <2>3 DEF AttributeValue
<1>9. ASSUME NEW a \in Attribute, NEW within \in MaxAges, ReadAttribute(a, within) PROVE ClocksAgree'
  <2>1. attributeMap'[a].stamp <= now
    <3>1. Looked(a).stamp <= now  BY <1>9, LookedEntry DEF ReadAttribute
    <3> QED  BY <1>9, <3>1 DEF ReadAttribute, TypeOK, MapOK
  <2>2. \A b \in Attribute \ {a} : attributeMap'[b] = attributeMap[b]
    BY <1>9 DEF ReadAttribute, TypeOK, MapOK
  <2>3. reading' = NoRead \/ reading'.begun = now
    BY <1>9 DEF ReadAttribute, Reply
  <2> QED  BY <1>0, <1>9, <2>1, <2>2, <2>3 DEF ReadAttribute
<1>10. CASE UNCHANGED vars  BY <1>10 DEF vars
<1> QED  BY <1>1, <1>2, <1>3, <1>4, <1>5, <1>6, <1>7, <1>8, <1>9, <1>10 DEF Next

LEMMA StampStep ==
  ASSUME TypeOK, StampedByValue, [Next]_vars
  PROVE  StampedByValue'
<1> USE DEF StampedByValue
<1>1. CASE Tick \/ CommandAccepted \/ ReadFails \/ ProcedureCompleted
  BY <1>1 DEF Tick, CommandAccepted, ReadFails, ProcedureCompleted
<1>2. CASE ConnectionDisconnect
  <2>1. NoEntry.known = FALSE  BY DEF NoEntry
  <2> QED  BY <1>2, <2>1 DEF ConnectionDisconnect
<1>3. ASSUME NEW d \in Device, ConnectionGetStatus(d) PROVE StampedByValue'
  BY <1>3 DEF ConnectionGetStatus
<1>4. ASSUME NEW a \in Attribute, Described(a) PROVE StampedByValue'
  <2>1. \A b \in Attribute \ {a} : attributeMap'[b] = attributeMap[b]
    BY <1>4 DEF Described, TypeOK, MapOK
  <2> QED  BY <1>4, <2>1 DEF Described
<1>5. ASSUME NEW a \in Attribute, AttributeValue(a) PROVE StampedByValue'
  <2>1. \A b \in Attribute \ {a} : attributeMap'[b] = attributeMap[b]
    BY <1>5 DEF AttributeValue, TypeOK, MapOK
  <2>2. /\ attributeMap'[a].value # NoValue
        /\ attributeMap'[a].value.at = now /\ attributeMap'[a].stamp = now
    <3>1. attributeMap'[a] = Received(a)  BY <1>5 DEF AttributeValue, TypeOK, MapOK
    <3>2. macAddress \in Device /\ now \in Time  BY <1>5 DEF AttributeValue, Connected, TypeOK
    <3> QED  BY <3>1, <3>2, ValueFacts DEF Received
  <2> QED  BY <1>5, <2>1, <2>2 DEF AttributeValue
<1>6. ASSUME NEW a \in Attribute, NEW within \in MaxAges, ReadAttribute(a, within) PROVE StampedByValue'
  <2>1. \A b \in Attribute \ {a} : attributeMap'[b] = attributeMap[b]
    BY <1>6 DEF ReadAttribute, TypeOK, MapOK
  <2>2. attributeMap'[a] = Looked(a)  BY <1>6 DEF ReadAttribute, TypeOK, MapOK
  <2>3. /\ touched \subseteq touched'
        /\ attributeMap[a].known \/ a \in touched'
    BY <1>6 DEF ReadAttribute
  <2>4. attributeMap[a].known => attributeMap'[a] = attributeMap[a]  BY <2>2 DEF Looked
  <2> QED  BY <2>1, <2>3, <2>4
<1>7. CASE UNCHANGED vars  BY <1>7 DEF vars
<1> QED  BY <1>1, <1>2, <1>3, <1>4, <1>5, <1>6, <1>7 DEF Next

LEMMA InvStep == CacheInv /\ [Next]_vars => CacheInv'
BY TypeStep, ClocksStep, StampStep DEF CacheInv

\* The cache of AttributeCache keeps its types, and with them: only a connected device has
\* attributes, no stamp lies in the future, and a stamp no value came with is noted.
THEOREM CacheInvariant == Spec => []CacheInv
BY InitInv, InvStep, PTL DEF Spec

THEOREM TypeCorrect == Spec => []TypeOK
<1>1. CacheInv => TypeOK  BY DEF CacheInv
<1> QED  BY <1>1, CacheInvariant, PTL

-----------------------------------------------------------------------------
(* Whose values they are, and how old                                      *)

\* A value never outlives the connection of the device it came from, so none is taken for the
\* next device's on the same handle.
THEOREM ValuesOfThisDevice == Spec => []CacheOfThisDevice
<1> USE DEF CacheOfThisDevice
<1>1. Init => CacheOfThisDevice
  BY DEF Init, NoEntry
<1>2. TypeOK /\ CacheOfThisDevice /\ [Next]_vars => CacheOfThisDevice'
  <2> SUFFICES ASSUME TypeOK, CacheOfThisDevice, [Next]_vars PROVE CacheOfThisDevice'  OBVIOUS
  <2>1. CASE Tick \/ CommandAccepted \/ ReadFails \/ ProcedureCompleted
    BY <2>1 DEF Tick, CommandAccepted, ReadFails, ProcedureCompleted
  <2>2. CASE ConnectionDisconnect
    BY <2>2 DEF ConnectionDisconnect, NoEntry
  <2>3. ASSUME NEW d \in Device, ConnectionGetStatus(d) PROVE CacheOfThisDevice'
    <3>1. \A a \in Attribute : attributeMap[a].value = NoValue
      <4> SUFFICES ASSUME NEW a \in Attribute, attributeMap[a].value # NoValue PROVE FALSE
        OBVIOUS
      <4>1. attributeMap[a].value.of \in Device  BY ValueFacts DEF TypeOK, MapOK
      <4>2. attributeMap[a].value.of = None  BY <2>3 DEF ConnectionGetStatus, Connected
      <4> QED  BY <4>1, <4>2, NoneAssumption
    <3> QED  BY <2>3, <3>1 DEF ConnectionGetStatus
  <2>4. ASSUME NEW a \in Attribute, Described(a) PROVE CacheOfThisDevice'
    <3>1. \A b \in Attribute : attributeMap'[b].value = attributeMap[b].value
      BY <2>4 DEF Described, TypeOK, MapOK
    <3> QED  BY <2>4, <3>1 DEF Described
  <2>5. ASSUME NEW a \in Attribute, AttributeValue(a) PROVE CacheOfThisDevice'
    <3>1. \A b \in Attribute \ {a} : attributeMap'[b] = attributeMap[b]
      BY <2>5 DEF AttributeValue, TypeOK, MapOK
    <3>2. attributeMap'[a].value.of = macAddress
      BY <2>5 DEF AttributeValue, Received, TypeOK, MapOK
    <3> QED  BY <2>5, <3>1, <3>2 DEF AttributeValue
  <2>6. ASSUME NEW a \in Attribute, NEW within \in MaxAges, ReadAttribute(a, within)
        PROVE  CacheOfThisDevice'
    <3>1. \A b \in Attribute \ {a} : attributeMap'[b] = attributeMap[b]
      BY <2>6 DEF ReadAttribute, TypeOK, MapOK
    <3>2. attributeMap'[a].value \in {attributeMap[a].value, NoValue}
      BY <2>6 DEF ReadAttribute, Looked, TypeOK, MapOK
    <3> QED  BY <2>6, <3>1, <3>2 DEF ReadAttribute
  <2>7. CASE UNCHANGED vars  BY <2>7 DEF vars
  <2> QED  BY <2>1, <2>2, <2>3, <2>4, <2>5, <2>6, <2>7 DEF Next
<1> QED  BY <1>1, <1>2, TypeCorrect, PTL DEF Spec

\* An answer from the cache without an excuse has a value of its entry's stamp, and the stamp is
\* as young as was asked for: below a minute, the remainder of an age is the age.
LEMMA YoungEnough ==
  ASSUME CacheInv, NEW a \in Attribute, NEW within \in MaxAges,
         NEW t, touched \cup (IF attributeMap[a].known THEN {} ELSE {a}) = t,
         Connected, ~OldEnough(Looked(a), within), NEW r, r.attr = a,
         Excuses(r, Looked(a), t) = {}
  PROVE  Looked(a).value # NoValue /\ now - Looked(a).value.at < within
<1> DEFINE e == Looked(a)
<1>1. a \notin t /\ ~(now - e.stamp >= Minute)  BY DEF Excuses
<1>2. attributeMap[a].known /\ e = attributeMap[a] /\ a \notin touched  BY <1>1 DEF Looked
<1>3. e.value # NoValue /\ e.value.at = e.stamp
  BY <1>2 DEF CacheInv, StampedByValue
<1>4. now \in Int /\ e.stamp \in Int /\ e.stamp <= now /\ within \in Int
  BY LookedEntry, Seconds, TimeAssumption DEF CacheInv, TypeOK
<1>5. now - e.stamp \in Nat /\ now - e.stamp < Minute  BY <1>1, <1>4, TimeAssumption
<1>6. (now - e.stamp) % Minute = now - e.stamp  BY <1>5, WithinAMinute
<1>7. ~(now - e.stamp >= within)  BY <1>6 DEF OldEnough
<1> QED  BY <1>3, <1>4, <1>7

\* "Do not return cached value if outdated" (BLE_DRIVER.cpp:479) holds of every answer but for
\* the three excuses: a stamp without a value, an age of a minute or more, and a wait that
\* another message has ended.
THEOREM CacheFresh == Spec => []FreshOrExcused
<1> USE DEF FreshOrExcused
<1>1. Init => FreshOrExcused  BY DEF Init
<1>2. CacheInv /\ FreshOrExcused /\ [Next]_vars => FreshOrExcused'
  <2> SUFFICES ASSUME CacheInv, FreshOrExcused, [Next]_vars, answer' # answer
               PROVE  FreshOrExcused'
    OBVIOUS
  <2>1. CASE ProcedureCompleted
    BY <2>1 DEF ProcedureCompleted, Reply
  <2>2. ASSUME NEW a \in Attribute, AttributeValue(a) PROVE FreshOrExcused'
    <3>1. AtStep("value")
      BY <2>2 DEF AttributeValue
    <3>2. reading \in Reading  BY <3>1, AtAStep DEF CacheInv, Steps
    <3>3. Reply(attributeMap'[reading.attr], reading, IF reading.attr = a THEN {} ELSE {"released"})
      BY <2>2, <3>1 DEF AttributeValue
    <3>4. CASE reading.attr = a
      <4>1. attributeMap'[a].value.at = now
        BY <2>2 DEF AttributeValue, Received, CacheInv, TypeOK, MapOK
      <4>2. reading.begun <= now  BY <3>2, ReadingFacts DEF CacheInv, ClocksAgree
      <4>3. reading.begun \in Int /\ now \in Int  BY <3>2, Seconds DEF Reading, CacheInv, TypeOK
      <4>4. answer'.value.at >= answer'.begun  BY <3>3, <3>4, <4>1, <4>2, <4>3 DEF Reply
      <4> QED  BY <4>4
    <3>5. CASE reading.attr # a  BY <3>3, <3>5 DEF Reply
    <3> QED  BY <3>4, <3>5
  <2>3. ASSUME NEW a \in Attribute, NEW within \in MaxAges, ReadAttribute(a, within)
        PROVE  FreshOrExcused'
    <3> DEFINE r == [attr |-> a, within |-> within, begun |-> now, step |-> "find"]
               seen == touched \cup (IF attributeMap[a].known THEN {} ELSE {a})
    <3>1. CASE OldEnough(Looked(a), within)  BY <2>3, <3>1 DEF ReadAttribute
    <3>2. CASE ~OldEnough(Looked(a), within)
      <4>1. Connected /\ Reply(Looked(a), r, Excuses(r, Looked(a), seen))
        BY <2>3, <3>2 DEF ReadAttribute
      <4>2. r.attr = a  OBVIOUS
      <4>3. Excuses(r, Looked(a), seen) = {} =>
              Looked(a).value # NoValue /\ now - Looked(a).value.at < within
        <5> HIDE DEF r
        <5> QED  BY <3>2, <4>1, <4>2, YoungEnough
      <4>4. /\ answer'.excuse = Excuses(r, Looked(a), seen)
            /\ answer'.value = Looked(a).value /\ answer'.at = now /\ answer'.within = within
        BY <4>1 DEF Reply
      <4> QED  BY <4>3, <4>4
    <3> QED  BY <3>1, <3>2
  <2>4. ProcedureCompleted \/ (\E a \in Attribute : AttributeValue(a))
        \/ (\E a \in Attribute, within \in MaxAges : ReadAttribute(a, within))
    BY DEF Next, vars, Tick, CommandAccepted, ReadFails, ConnectionDisconnect,
           ConnectionGetStatus, Described
  <2> QED  BY <2>1, <2>2, <2>3, <2>4
<1> QED  BY <1>1, <1>2, CacheInvariant, PTL DEF Spec
=============================================================================
