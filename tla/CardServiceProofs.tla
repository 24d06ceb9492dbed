-------------------------- MODULE CardServiceProofs --------------------------
(***************************************************************************)
(* Theorems about CardService, for any number of readers, cards, items,    *)
(* pages and callers.                                                      *)
(***************************************************************************)
EXTENDS CardService, TLAPS

USE DEF Readers

(***************************************************************************)
(* What CacheHoldsTheCard needs to be inductive.  A user who waits for the *)
(* poll never changes the reader list twice between two polls, so the list *)
(* changed since the last poll exactly when the cache's size is wrong;     *)
(* readers in unseen are still empty; and an entry has data only while it  *)
(* has a card, because the one call that can break this sets raced.        *)
(***************************************************************************)
HistoryInv ==
    /\ ~rushed => (unseenList <=> size # nReaders)
    /\ ~rushed /\ ~unseenList => \A i \in unseen : slot[i] = None
    /\ ~raced => \A i \in Readers : \A t \in Items : data[i][t] # None => cardPresent[i]

-----------------------------------------------------------------------------
(* Every action keeps the types; the one that takes thought is that the    *)
(* poll's position stays within the cache it walks, also when the cache    *)
(* shrinks at the start of the poll.                                       *)
LEMMA TypeStep == TypeOK /\ [Next]_vars => TypeOK'
<1> SUFFICES ASSUME TypeOK, [Next]_vars PROVE TypeOK'
  OBVIOUS
<1> USE ConstantsAssumption DEF TypeOK
<1>1. ASSUME NEW i \in Readers, NEW c \in Cards, InsertCard(i, c) PROVE TypeOK'
  BY <1>1 DEF InsertCard, cache, views, calls, history
<1>2. ASSUME NEW i \in Readers, RemoveCard(i) PROVE TypeOK'
  BY <1>2 DEF RemoveCard, cache, views, calls
<1>3. CASE AttachReader
  BY <1>3 DEF AttachReader, cache, views, calls
<1>4. ASSUME NEW i \in Readers, DetachReader(i) PROVE TypeOK'
  BY <1>4 DEF DetachReader, cache, views, calls
<1>5. CASE StartOrStopDaemon
  BY <1>5 DEF StartOrStopDaemon, ManagerAfter, cache, views, calls, history
<1>6. CASE PollCount
  <2>1. nReaders' \in 0..MaxReaders /\ size' \in 0..MaxReaders /\ polling' \in 0..size'
    <3>1. nReaders' = nReaders /\ size' = nReaders
      BY <1>6 DEF PollCount, env, cache
    <3>2. polling' = IF nReaders = 0 THEN 0 ELSE 1
      BY <1>6 DEF PollCount
    <3> QED BY <3>1, <3>2
  <2>2. cardPresent' \in [Readers -> BOOLEAN]
    BY <1>6 DEF PollCount, Resized, cache
  <2>3. data' \in [Readers -> [Items -> Cards \union {None}]]
    <3>1. NoData \in [Items -> Cards \union {None}]
      BY DEF NoData
    <3>2. CASE size = nReaders
      BY <1>6, <3>2 DEF PollCount, cache
    <3>3. CASE size # nReaders
      BY <1>6, <3>1, <3>3 DEF PollCount, Resized
    <3> QED BY <3>2, <3>3
  <2>4. told' \in [Observers -> [Readers -> {"nothing", "inserted", "removed"}]]
    <3>1. told' = told \/ \E lost : told' = Told(m_observers, lost, "removed")
      BY <1>6 DEF PollCount
    <3>2. ASSUME NEW lost, told' = Told(m_observers, lost, "removed")
          PROVE  told' \in [Observers -> [Readers -> {"nothing", "inserted", "removed"}]]
      BY <3>2 DEF Told
    <3> QED BY <3>1, <3>2
  <2>5. toldReaders' \in [Observers -> {-1} \union (0..MaxReaders)]
    BY <1>6 DEF PollCount
  <2>6. /\ pcscd' \in BOOLEAN /\ slot' \in [Readers -> Cards \union {None}]
        /\ m_observers' \subseteq Observers /\ found' \in [Callers -> 0..MaxReaders]
        /\ result' \in [Callers -> Cards \union {None, Garbage}]
        /\ unseen' \subseteq Readers /\ unseenList' \in BOOLEAN /\ rushed' \in BOOLEAN /\ raced' \in BOOLEAN
    BY <1>6 DEF PollCount, env, calls
  <2>7. m_manager' = "live" /\ pcscd'
    BY <1>6 DEF PollCount, Answering, env
  <2> QED BY <2>7, <2>1, <2>2, <2>3, <2>4, <2>5, <2>6
<1>7. ASSUME NEW i \in Readers, PollReader(i) PROVE TypeOK'
  <2>1. i \in 1..size /\ size' = size /\ polling' \in 0..size
    BY <1>7 DEF PollReader, NextReader
  <2>2. cardPresent' \in [Readers -> BOOLEAN]
    BY <1>7 DEF PollReader, Check, readerHasCard
  <2>3. data' \in [Readers -> [Items -> Cards \union {None}]]
    <3>1. NoData \in [Items -> Cards \union {None}]
      BY DEF NoData
    <3> QED BY <1>7, <3>1 DEF PollReader, Check
  <2>4. told' \in [Observers -> [Readers -> {"nothing", "inserted", "removed"}]]
    <3>1. told' = told \/ \E news \in {"inserted", "removed"} : told' = Told(m_observers, {i}, news)
      BY <1>7 DEF PollReader
    <3>2. ASSUME NEW news \in {"inserted", "removed"}, told' = Told(m_observers, {i}, news)
          PROVE  told' \in [Observers -> [Readers -> {"nothing", "inserted", "removed"}]]
      BY <3>2 DEF Told
    <3> QED BY <3>1, <3>2
  <2> QED BY <1>7, <2>1, <2>2, <2>3, <2>4 DEF PollReader, env, calls
<1>8. ASSUME NEW o \in Observers, addObserver(o) PROVE TypeOK'
  BY <1>8 DEF addObserver, env, cache, calls, history
<1>9. ASSUME NEW o \in Observers, removeObserver(o) PROVE TypeOK'
  BY <1>9 DEF removeObserver, env, cache, calls, history
<1>10. ASSUME NEW c \in Callers, findFirstEstEid(c) PROVE TypeOK'
  <2>1. found' \in [Callers -> 0..MaxReaders]
    <3>1. found' = found \/ \E i \in Readers : found' = [found EXCEPT ![c] = i]
      BY <1>10 DEF findFirstEstEid
    <3> QED BY <3>1
  <2>2. result' \in [Callers -> Cards \union {None, Garbage}]
    BY <1>10 DEF findFirstEstEid
  <2>3. UNCHANGED <<env, cache, m_manager, polling, views, history>>
    BY <1>10 DEF findFirstEstEid
  <2> QED BY <2>1, <2>2, <2>3 DEF env, cache, views, history
<1>11. ASSUME NEW c \in Callers, UseCard(c) PROVE TypeOK'
  BY <1>11 DEF UseCard, CardIn, env, cache, views, history
<1>12. ASSUME NEW c \in Callers, NEW t \in Items, ReadItem(c, t) PROVE TypeOK'
  <2>1. found[c] \in Readers /\ CardIn(found[c]) \in Cards \union {None}
    BY <1>12 DEF ReadItem, CardIn
  <2> DEFINE answer == IF data[found[c]][t] = None THEN CardIn(found[c]) ELSE data[found[c]][t]
  <2>2. answer \in Cards \union {None}
    BY <2>1
  <2> HIDE DEF answer
  <2>3. \/ data' = data /\ raced' = raced /\ result' = [result EXCEPT ![c] = Garbage]
        \/ /\ data' = [data EXCEPT ![found[c]][t] = answer] /\ raced' \in BOOLEAN
           /\ result' = [result EXCEPT ![c] = answer]
    BY <1>12 DEF ReadItem, answer
  <2>4. data' \in [Readers -> [Items -> Cards \union {None}]] /\ raced' \in BOOLEAN
    <3>1. [data[found[c]] EXCEPT ![t] = answer] \in [Items -> Cards \union {None}]
      BY <2>1, <2>2
    <3>2. [data EXCEPT ![found[c]][t] = answer] \in [Readers -> [Items -> Cards \union {None}]]
      BY <2>1, <3>1
    <3> QED BY <2>3, <3>2
  <2>5. result' \in [Callers -> Cards \union {None, Garbage}]
    BY <2>2, <2>3
  <2> QED BY <1>12, <2>4, <2>5 DEF ReadItem, env, views
<1>13. CASE UNCHANGED vars
  BY <1>13 DEF vars, env, cache, views, calls, history
<1> QED
  BY <1>1, <1>2, <1>3, <1>4, <1>5, <1>6, <1>7, <1>8, <1>9, <1>10, <1>11, <1>12, <1>13
     DEF Next, Environment, Monitor, Call

(* Every variable has its type in every state CardService can reach.       *)
THEOREM TypeCorrect == Spec => []TypeOK
<1>1. Init => TypeOK
  <2> SUFFICES ASSUME Init PROVE TypeOK
    OBVIOUS
  <2> USE ConstantsAssumption DEF Init
  <2>1. data \in [Readers -> [Items -> Cards \union {None}]]
    BY DEF NoData
  <2>2. toldReaders \in [Observers -> {-1} \union (0..MaxReaders)]
    OBVIOUS
  <2>3. polling \in 0..size /\ size \in 0..MaxReaders /\ nReaders \in 0..MaxReaders
    OBVIOUS
  <2> QED BY <2>1, <2>2, <2>3 DEF TypeOK
<1> QED BY <1>1, TypeStep, PTL DEF Spec

-----------------------------------------------------------------------------
(* Only the poll and the comings and goings of pages touch what            *)
(* ObserverViews relates; each message goes with the change it reports.    *)
LEMMA ViewsStep == TypeOK /\ ObserverViews /\ [Next]_vars => ObserverViews'
<1> SUFFICES ASSUME TypeOK, ObserverViews, [Next]_vars PROVE ObserverViews'
  OBVIOUS
<1>1. CASE PollCount
  <2>1. CASE size = nReaders
    BY <1>1, <2>1 DEF PollCount, ObserverViews, cache
  <2>2. CASE size # nReaders
    <3> SUFFICES ASSUME NEW o \in m_observers
                 PROVE  /\ toldReaders'[o] = size'
                        /\ \A i \in Readers : told'[o][i] # "inserted" /\ ~cardPresent'[i]
      BY <1>1 DEF PollCount, ObserverViews
    <3>1. toldReaders'[o] = size'
      BY <1>1, <2>2 DEF PollCount, TypeOK
    <3>2. ASSUME NEW i \in Readers PROVE told'[o][i] # "inserted"
      <4>1. told'[o][i] = IF i \in ReadersToPurge(nReaders) THEN "removed" ELSE told[o][i]
        <5>1. told' = Told(m_observers, ReadersToPurge(nReaders), "removed")
          BY <1>1, <2>2 DEF PollCount
        <5>2. o \in Observers
          BY DEF TypeOK
        <5> QED BY <5>1, <5>2 DEF Told
      <4>2. told[o][i] = "inserted" => i \in ReadersToPurge(nReaders)
        BY DEF ObserverViews, ReadersToPurge, TypeOK
      <4> QED BY <4>1, <4>2
    <3>3. ASSUME NEW i \in Readers PROVE ~cardPresent'[i]
      <4>1. cardPresent' = Resized(nReaders,
                [j \in Readers |-> j \notin ReadersToPurge(nReaders) /\ cardPresent[j]], FALSE)
        BY <1>1, <2>2 DEF PollCount
      <4>2. cardPresent'[i] =>
                i <= size /\ i \notin ReadersToPurge(nReaders) /\ cardPresent[i]
        BY <4>1 DEF Resized
      <4> QED BY <4>2 DEF ReadersToPurge, TypeOK
    <3> QED BY <3>1, <3>2, <3>3
  <2> QED BY <2>1, <2>2
<1>2. ASSUME NEW r \in Readers, PollReader(r) PROVE ObserverViews'
  <2>1. /\ r \in 1..size /\ size' = size /\ m_observers' = m_observers
        /\ toldReaders' = toldReaders
    BY <1>2 DEF PollReader, TypeOK
  <2>2. CASE told' = told /\ cardPresent' = cardPresent
    BY <2>1, <2>2 DEF ObserverViews
  <2>3. CASE /\ cardPresent' = [cardPresent EXCEPT ![r] = readerHasCard(r)]
             /\ told' = Told(m_observers, {r}, IF readerHasCard(r) THEN "inserted" ELSE "removed")
    BY <2>1, <2>3, ConstantsAssumption DEF ObserverViews, Told, TypeOK
  <2>4. CASE /\ cardPresent' = [cardPresent EXCEPT ![r] = readerHasCard(r)]
             /\ readerHasCard(r) = cardPresent[r] /\ told' = told
    BY <2>1, <2>4 DEF ObserverViews, TypeOK
  <2> QED BY <1>2, <2>2, <2>3, <2>4 DEF PollReader, Check
<1>3. ASSUME NEW o \in Observers, addObserver(o) PROVE ObserverViews'
  BY <1>3 DEF addObserver, ObserverViews, TypeOK, cache
<1>4. ASSUME NEW o \in Observers, removeObserver(o) PROVE ObserverViews'
  BY <1>4 DEF removeObserver, ObserverViews, cache
<1>5. CASE UNCHANGED <<size, cardPresent, m_observers, told, toldReaders>>
  BY <1>5 DEF ObserverViews
<1>6. ASSUME Environment \/ (\E c \in Callers : Call(c)) \/ UNCHANGED vars
      PROVE  UNCHANGED <<size, cardPresent, m_observers, told, toldReaders>>
  BY <1>6 DEF Environment, InsertCard, RemoveCard, AttachReader, DetachReader,
              StartOrStopDaemon, Call, findFirstEstEid, ReadItem, UseCard,
              vars, cache, views
<1> QED BY <1>1, <1>2, <1>3, <1>4, <1>5, <1>6 DEF Next, Monitor

(* What the events told a registered page agrees with the cache, in every  *)
(* reachable state (poll(), postMessage()).                                *)
THEOREM ViewsCorrect == Spec => []ObserverViews
<1>1. Init => ObserverViews
  BY DEF Init, ObserverViews
<1> QED BY <1>1, TypeCorrect, ViewsStep, PTL DEF Spec

-----------------------------------------------------------------------------
(* Neither actions of the pages nor calls that do not fill the cache       *)
(* matter here; a change of a reader or a card is in unseen or unseenList  *)
(* until the poll has dealt with it.                                       *)
LEMMA HistoryStep ==
    TypeOK /\ HistoryInv /\ CacheHoldsTheCard /\ [Next]_vars
        => HistoryInv' /\ CacheHoldsTheCard'
<1> SUFFICES ASSUME TypeOK, HistoryInv, CacheHoldsTheCard, [Next]_vars
             PROVE  HistoryInv' /\ CacheHoldsTheCard'
  OBVIOUS
<1> USE ConstantsAssumption
<1>1. ASSUME NEW i \in Readers, NEW c \in Cards, InsertCard(i, c)
      PROVE  HistoryInv' /\ CacheHoldsTheCard'
  <2>1. HistoryInv'
    BY <1>1 DEF InsertCard, HistoryInv, TypeOK, cache, history
  <2>2. CacheHoldsTheCard'
    BY <1>1 DEF InsertCard, CacheHoldsTheCard, TypeOK, cache, history
  <2> QED BY <2>1, <2>2
<1>2. ASSUME NEW i \in Readers, RemoveCard(i)
      PROVE  HistoryInv' /\ CacheHoldsTheCard'
  <2>1. HistoryInv'
    BY <1>2 DEF RemoveCard, HistoryInv, TypeOK, cache
  <2>2. CacheHoldsTheCard'
    BY <1>2 DEF RemoveCard, CacheHoldsTheCard, TypeOK, cache
  <2> QED BY <2>1, <2>2
<1>3. CASE AttachReader
  BY <1>3 DEF AttachReader, HistoryInv, CacheHoldsTheCard, TypeOK, cache
<1>4. ASSUME NEW i \in Readers, DetachReader(i)
      PROVE  HistoryInv' /\ CacheHoldsTheCard'
  BY <1>4 DEF DetachReader, HistoryInv, CacheHoldsTheCard, TypeOK, cache
<1>5. CASE PollCount
  <2>1. CASE size = nReaders
    BY <1>5, <2>1 DEF PollCount, HistoryInv, CacheHoldsTheCard, TypeOK, env, cache
  <2>2. CASE size # nReaders
    <3>1. /\ size' = nReaders' /\ ~unseenList' /\ unseen' = {} /\ rushed' = rushed /\ raced' = raced
      BY <1>5, <2>2 DEF PollCount, env
    <3>2. ASSUME ~raced, NEW i \in Readers, NEW t \in Items PROVE data'[i][t] = None
      <4>1. i \notin ReadersToPurge(nReaders) /\ i <= size => data[i][t] = None
        BY <3>2 DEF ReadersToPurge, HistoryInv, TypeOK
      <4>2. data'[i] \in {NoData, data[i]} /\ (data'[i] # NoData => i \notin ReadersToPurge(nReaders) /\ i <= size)
        BY <1>5, <2>2 DEF PollCount, Resized, TypeOK
      <4> QED BY <4>1, <4>2 DEF NoData
    <3>3. HistoryInv'
      BY <3>1, <3>2 DEF HistoryInv
    <3>4. CacheHoldsTheCard'
      <4>1. size' \in 0..MaxReaders
        BY <1>5, <3>1 DEF PollCount, env, TypeOK
      <4>2. 1..size' \subseteq Readers
        BY <4>1
      <4> QED BY <3>1, <3>2, <4>2 DEF CacheHoldsTheCard
    <3> QED BY <3>3, <3>4
  <2> QED BY <2>1, <2>2
<1>6. ASSUME NEW i \in Readers, PollReader(i)
      PROVE  HistoryInv' /\ CacheHoldsTheCard'
  <2>1. /\ i \in 1..size /\ UNCHANGED <<nReaders, slot, size, unseenList, rushed, raced>>
    BY <1>6 DEF PollReader, TypeOK, env
  <2>2. CASE UNCHANGED <<cardPresent, data, unseen>>
    BY <2>1, <2>2 DEF HistoryInv, CacheHoldsTheCard
  <2>3. CASE Check(i) /\ unseen' = unseen \ {i}
    <3>1. ASSUME ~raced, NEW j \in Readers, NEW t \in Items
          PROVE  /\ data'[j][t] \in {None, data[j][t]}
                 /\ data'[j][t] # None => cardPresent'[j]
      <4>1. data'[j] = IF j = i /\ cardPresent[i] /\ ~readerHasCard(i) THEN NoData ELSE data[j]
        BY <2>3 DEF Check, TypeOK
      <4>2. cardPresent'[j] = IF j = i THEN readerHasCard(i) ELSE cardPresent[j]
        BY <2>3 DEF Check, TypeOK
      <4>3. data[j][t] # None => cardPresent[j]
        BY <3>1 DEF HistoryInv
      <4> QED BY <4>1, <4>2, <4>3 DEF NoData
    <3>2. HistoryInv'
      BY <2>1, <2>3, <3>1 DEF HistoryInv
    <3>3. ~rushed /\ ~raced /\ ~unseenList /\ i \in unseen => \A t \in Items : data'[i][t] = None
      BY <2>3, <3>1 DEF HistoryInv, Check, readerHasCard, TypeOK
    <3>4. CacheHoldsTheCard'
      <4> SUFFICES ASSUME ~rushed, ~raced, ~unseenList, NEW j \in 1..size, NEW t \in Items
                   PROVE  data'[j][t] \in {None, slot[j]} \/ (j \in unseen /\ j # i)
        BY <2>1, <2>3 DEF CacheHoldsTheCard
      <4>1. data'[j][t] \in {None, data[j][t]}
        BY <3>1 DEF TypeOK
      <4>2. data[j][t] \in {None, slot[j]} \/ j \in unseen
        BY DEF CacheHoldsTheCard
      <4> QED BY <3>3, <4>1, <4>2
    <3> QED BY <3>2, <3>4
  <2> QED BY <1>6, <2>2, <2>3 DEF PollReader
<1>7. ASSUME NEW c \in Callers, NEW t \in Items, ReadItem(c, t)
      PROVE  HistoryInv' /\ CacheHoldsTheCard'
  <2>1. UNCHANGED <<nReaders, slot, size, cardPresent, unseen, unseenList, rushed>>
    BY <1>7 DEF ReadItem, env
  <2>2. CASE UNCHANGED <<data, raced>>
    BY <2>1, <2>2 DEF HistoryInv, CacheHoldsTheCard
  <2>3. CASE found[c] <= size
    <3> DEFINE i == found[c]
               answer == IF data[i][t] = None THEN CardIn(i) ELSE data[i][t]
    <3>1. /\ i \in 1..size /\ i \in Readers
          /\ data' = [data EXCEPT ![i][t] = answer]
          /\ raced' = (raced \/ (data[i][t] # answer /\ ~cardPresent[i]))
      BY <1>7, <2>3 DEF ReadItem, TypeOK
    <3>2. answer \in {None, data[i][t], slot[i]}
      BY DEF CardIn
    <3> HIDE DEF i, answer
    <3>3. ASSUME NEW j \in Readers, NEW u \in Items
          PROVE  data'[j][u] = IF j = i /\ u = t THEN answer ELSE data[j][u]
      BY <3>1 DEF TypeOK
    <3>4. HistoryInv'
      <4>1. /\ ~rushed' => (unseenList' <=> size' # nReaders')
            /\ ~rushed' /\ ~unseenList' => \A j \in unseen' : slot'[j] = None
        BY <2>1 DEF HistoryInv
      <4>2. ASSUME ~raced', NEW j \in Readers, NEW u \in Items, data'[j][u] # None
            PROVE  cardPresent'[j]
        <5>1. ~raced /\ (data[i][t] = answer \/ cardPresent[i])
          BY <3>1, <4>2
        <5>2. CASE j = i /\ u = t
          BY <2>1, <3>1, <3>3, <4>2, <5>1, <5>2 DEF HistoryInv
        <5>3. CASE ~(j = i /\ u = t)
          BY <2>1, <3>3, <4>2, <5>1, <5>3 DEF HistoryInv
        <5> QED BY <5>2, <5>3
      <4> QED BY <4>1, <4>2 DEF HistoryInv
    <3>5. CacheHoldsTheCard'
      BY <2>1, <3>1, <3>2, <3>3 DEF CacheHoldsTheCard, TypeOK
    <3> QED BY <3>4, <3>5
  <2> QED BY <1>7, <2>2, <2>3 DEF ReadItem, TypeOK
<1>8. CASE UNCHANGED <<nReaders, slot, size, cardPresent, data, history>>
  BY <1>8 DEF HistoryInv, CacheHoldsTheCard, history
<1>9. ASSUME \/ StartOrStopDaemon \/ UNCHANGED vars
             \/ \E o \in Observers : addObserver(o) \/ removeObserver(o)
             \/ \E c \in Callers : findFirstEstEid(c) \/ UseCard(c)
      PROVE  UNCHANGED <<nReaders, slot, size, cardPresent, data, history>>
  BY <1>9 DEF StartOrStopDaemon, addObserver, removeObserver, findFirstEstEid, UseCard,
              vars, env, cache, history
<1> QED
  BY <1>1, <1>2, <1>3, <1>4, <1>5, <1>6, <1>7, <1>8, <1>9
     DEF Next, Environment, Monitor, Call

(* In every reachable state: if the user waits for the poll and no call    *)
(* has filled an entry that had lost its card, cached data is of the card  *)
(* in the reader (poll() against readPersonalData, getAuthCert and         *)
(* getSignCert).                                                           *)
THEOREM CacheCorrect == Spec => []CacheHoldsTheCard
<1>1. Init => HistoryInv /\ CacheHoldsTheCard
  <2> SUFFICES ASSUME Init PROVE HistoryInv /\ CacheHoldsTheCard
    OBVIOUS
  <2>1. unseenList <=> size # nReaders
    BY DEF Init
  <2>2. unseen = {} /\ size = 0 /\ \A i \in Readers : \A t \in Items : data[i][t] = None
    BY DEF Init, NoData
  <2> QED BY <2>1, <2>2 DEF HistoryInv, CacheHoldsTheCard
<1> QED BY <1>1, TypeCorrect, HistoryStep, PTL DEF Spec
=============================================================================
