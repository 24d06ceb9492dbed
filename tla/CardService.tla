----------------------------- MODULE CardService -----------------------------
(***************************************************************************)
(* CardService.cpp: the singleton that all plugin instances of a browser   *)
(* process share.  A monitor thread polls the smart card readers every     *)
(* half second and keeps one cache entry per reader; observers (one per    *)
(* plugin instance) are told what the poll found; callers read the cards   *)
(* through the cache.  Readers and cards are changed by the user between   *)
(* any two steps.                                                          *)
(*                                                                         *)
(* Granularity.  Whatever runs under m_cardMutex and calls the card at     *)
(* most once is one action; poll() gives one action to the reader count    *)
(* and one to each reader, because the user can change readers and cards   *)
(* while it runs.  m_cardMutex is taken by poll() from its first to its    *)
(* last action, so the mutex is free exactly when polling = 0.             *)
(***************************************************************************)
EXTENDS Integers, FiniteSets

CONSTANTS
    MaxReaders,   \* bound: readers attached at the same time
    Cards,        \* cards the user owns
    EstEID,       \* those of them that are Estonian ID cards
    Items,        \* what a cache entry keeps of a card: m_pData, m_authCert, m_signCert
    Observers,    \* plugin instances, each a MessageObserver
    Callers,      \* threads that call the service
    None          \* no card, no data, a failed call

Readers == 1..MaxReaders

(* IdCardCacheEntry's data after purge() or construction.                  *)
NoData == [t \in Items |-> None]

(* A result read through an index outside m_cache: whatever is there.      *)
Garbage == "garbage"

ASSUME ConstantsAssumption ==
    /\ MaxReaders \in Nat
    /\ EstEID \subseteq Cards
    /\ None \notin Cards
    /\ Garbage \notin Cards

VARIABLES
    pcscd,        \* is the pcsc daemon running
    nReaders,     \* readers attached to the machine
    slot,         \* the card in each reader
    size,         \* m_cache.size()
    cardPresent,  \* m_cache[i].cardPresent
    data,         \* m_cache[i].m_pData, m_authCert, m_signCert
    m_manager,    \* "none", "live", or "lost" when the daemon died under it
    polling,      \* the monitor: 0 sleeping, else the reader poll() looks at next
    m_observers,
    told,         \* what each observer last heard of each reader
    toldReaders,  \* the reader count each observer last heard, -1 for none
    found,        \* the ReaderID findFirstEstEid() gave a caller, 0 when it is not in a call
    result,       \* what the last call gave each caller
    unseen,       \* history: readers emptied since poll() looked at them
    unseenList,   \* history: the reader list changed since poll() counted it
    rushed,       \* history: the user changed a reader again before poll() had looked
    raced         \* history: a call stored data in an entry without a card

env     == <<pcscd, nReaders, slot>>
cache   == <<size, cardPresent, data>>
views   == <<m_observers, told, toldReaders>>
calls   == <<found, result>>
history == <<unseen, unseenList, rushed, raced>>
vars    == <<env, cache, m_manager, polling, views, calls, history>>

Init ==
    /\ pcscd \in BOOLEAN
    /\ nReaders \in 0..MaxReaders
    /\ slot = [i \in Readers |-> None]
    /\ size = 0
    /\ cardPresent = [i \in Readers |-> FALSE]
    /\ data = [i \in Readers |-> NoData]
    /\ m_manager = "none"
    /\ polling = 0
    /\ m_observers = {}
    /\ told = [o \in Observers |-> [i \in Readers |-> "nothing"]]
    /\ toldReaders = [o \in Observers |-> -1]
    /\ found = [c \in Callers |-> 0]
    /\ result = [c \in Callers |-> None]
    /\ unseen = {}
    /\ unseenList = (nReaders # 0)
    /\ rushed = FALSE
    /\ raced = FALSE

-----------------------------------------------------------------------------
(***************************************************************************)
(* The user and the PC/SC layer (outside src/).                            *)
(***************************************************************************)

InsertCard(i, c) ==
    /\ i <= nReaders /\ slot[i] = None
    /\ \A j \in Readers : slot[j] # c
    /\ slot' = [slot EXCEPT ![i] = c]
    /\ rushed' = (rushed \/ i \in unseen)
    /\ UNCHANGED <<pcscd, nReaders, cache, m_manager, polling, views, calls, unseen,
                   unseenList, raced>>

RemoveCard(i) ==
    /\ slot[i] # None
    /\ slot' = [slot EXCEPT ![i] = None]
    /\ unseen' = unseen \union {i}
    /\ UNCHANGED <<pcscd, nReaders, cache, m_manager, polling, views, calls, unseenList,
                   rushed, raced>>

(* A new reader comes last in the list; one that is unplugged moves the    *)
(* readers behind it down by one.                                          *)
AttachReader ==
    /\ nReaders < MaxReaders
    /\ nReaders' = nReaders + 1
    /\ unseenList' = TRUE
    /\ rushed' = (rushed \/ unseenList)
    /\ UNCHANGED <<pcscd, slot, cache, m_manager, polling, views, calls, unseen, raced>>

DetachReader(i) ==
    /\ i <= nReaders
    /\ nReaders' = nReaders - 1
    /\ slot' = [j \in Readers |-> IF j < i THEN slot[j]
                                  ELSE IF j < nReaders THEN slot[j + 1] ELSE None]
    /\ unseenList' = TRUE
    /\ rushed' = (rushed \/ unseenList)
    /\ UNCHANGED <<pcscd, cache, m_manager, polling, views, calls, unseen, raced>>

(* cardManager() keeps the manager it has created, for good.  One whose    *)
(* daemon has died answers no more; whether it does again when the daemon  *)
(* is restarted is up to PC/SC, so it may or may not.                      *)
ManagerAfter(running) ==
    IF m_manager = "none" THEN {"none"}
    ELSE IF running THEN {"lost", "live"} ELSE {"lost"}

StartOrStopDaemon ==
    /\ pcscd' = ~pcscd
    /\ m_manager' \in ManagerAfter(pcscd')
    /\ UNCHANGED <<nReaders, slot, cache, polling, views, calls, history>>

Environment ==
    \/ \E i \in Readers, c \in Cards : InsertCard(i, c)
    \/ \E i \in Readers : RemoveCard(i) \/ DetachReader(i)
    \/ AttachReader
    \/ StartOrStopDaemon

-----------------------------------------------------------------------------
(***************************************************************************)
(* The monitor thread.                                                     *)
(***************************************************************************)

(* postMessage() hands CARD_INSERTED or CARD_REMOVED for a set of readers  *)
(* to every registered observer.                                           *)
Told(observers, readers, news) ==
    [o \in Observers |-> [i \in Readers |->
        IF o \in observers /\ i \in readers THEN news ELSE told[o][i]]]

(* The readers whose entry a change of the reader count purges: only the   *)
(* ones that hold a card.  (Mutant: m_cache is resized first.)             *)
ReadersToPurge_AfterResize(n) == {i \in 1..size : cardPresent[i] /\ i <= n}

ReadersToPurge(n) == {i \in 1..size : cardPresent[i]}

(* m_cache.resize(n): entries past the end are lost, new ones are empty.   *)
Resized(n, entries, empty) ==
    [i \in Readers |-> IF i <= n /\ i <= size THEN entries[i] ELSE empty]

(* poll() counts the readers; when the count differs from the cache's it   *)
(* purges, tells the observers and resizes.  cardManager() creates the     *)
(* manager if there is none; without the daemon it throws, a lost manager  *)
(* throws too, and nothing happens until the next poll.  (Mutant: the      *)
(* manager is created with the service and never again.)                   *)
Answering_Eager == m_manager = "live"

Answering == pcscd /\ m_manager # "lost"

PollCount ==
    /\ polling = 0 /\ Answering
    /\ m_manager' = "live"
    /\ polling' = IF nReaders = 0 THEN 0 ELSE 1
    /\ IF size = nReaders
       THEN UNCHANGED <<cache, told, toldReaders>>
       ELSE LET lost == ReadersToPurge(nReaders) IN
            /\ size' = nReaders
            /\ cardPresent' = Resized(nReaders,
                   [i \in Readers |-> i \notin lost /\ cardPresent[i]], FALSE)
            /\ data' = Resized(nReaders,
                   [i \in Readers |-> IF i \in lost THEN NoData ELSE data[i]], NoData)
            /\ told' = Told(m_observers, lost, "removed")
            /\ toldReaders' = [o \in Observers |->
                   IF o \in m_observers THEN nReaders ELSE toldReaders[o]]
    /\ unseenList' = FALSE
    /\ unseen' = IF size = nReaders THEN unseen ELSE {}
    /\ UNCHANGED <<env, m_observers, calls, rushed, raced>>

(* readerHasCard(): a reader that is not empty and had a card at the last  *)
(* poll is not looked at again.                                            *)
readerHasCard(i) ==
    /\ slot[i] # None
    /\ cardPresent[i] \/ slot[i] \in EstEID

(* The loop over the readers.  (Mutant: one too many.)                     *)
NextReader_PastEnd(i) == IF i <= size THEN i + 1 ELSE 0

NextReader(i) == IF i < size THEN i + 1 ELSE 0

(* What the loop's body does to the entry.  (Mutant: a removed card's data *)
(* stays.)                                                                 *)
Check_KeepsData(i) ==
    /\ cardPresent' = [cardPresent EXCEPT ![i] = readerHasCard(i)]
    /\ UNCHANGED data

Check(i) ==
    /\ cardPresent' = [cardPresent EXCEPT ![i] = readerHasCard(i)]
    /\ data' = IF cardPresent[i] /\ ~readerHasCard(i)
               THEN [data EXCEPT ![i] = NoData] ELSE data

(* The loop's body for one reader.  A reader that is gone, or a lost       *)
(* manager, makes getReaderState() throw, which ends this poll.            *)
PollReader(i) ==
    /\ polling = i
    /\ IF m_manager = "lost" \/ i > nReaders
       THEN /\ polling' = 0
            /\ UNCHANGED <<cardPresent, data, told, unseen>>
       ELSE /\ polling' = NextReader(i)
            /\ Check(i)
            /\ told' = IF readerHasCard(i) = cardPresent[i] THEN told
                       ELSE Told(m_observers, {i},
                                 IF readerHasCard(i) THEN "inserted" ELSE "removed")
            /\ unseen' = unseen \ {i}
    /\ UNCHANGED <<env, size, m_manager, m_observers, toldReaders, calls, unseenList,
                   rushed, raced>>

Monitor == PollCount \/ \E i \in Readers : PollReader(i)

-----------------------------------------------------------------------------
(***************************************************************************)
(* Observers come and go with the pages; both calls take only              *)
(* m_messageMutex, which poll() holds inside postMessage() and nowhere     *)
(* else.                                                                   *)
(***************************************************************************)

addObserver(o) ==
    /\ o \notin m_observers
    /\ m_observers' = m_observers \union {o}
    /\ told' = [told EXCEPT ![o] = [i \in Readers |-> "nothing"]]
    /\ toldReaders' = [toldReaders EXCEPT ![o] = -1]
    /\ UNCHANGED <<env, cache, m_manager, polling, calls, history>>

removeObserver(o) ==
    /\ o \in m_observers
    /\ m_observers' = m_observers \ {o}
    /\ UNCHANGED <<env, cache, m_manager, polling, told, toldReaders, calls, history>>

-----------------------------------------------------------------------------
(***************************************************************************)
(* Calls on "the first card".  The mutex is released between the choice of *)
(* the reader and its use.                                                 *)
(***************************************************************************)

findFirstEstEid(c) ==
    /\ polling = 0 /\ found[c] = 0
    /\ LET withCard == {i \in 1..size : cardPresent[i]} IN
       IF withCard = {}
       THEN /\ result' = [result EXCEPT ![c] = None]
            /\ UNCHANGED found
       ELSE /\ \E i \in withCard :
                  /\ \A j \in withCard : i <= j
                  /\ found' = [found EXCEPT ![c] = i]
            /\ UNCHANGED result
    /\ UNCHANGED <<env, cache, m_manager, polling, views, history>>

(* What EstEidCard(cardManager(), reader) finds there; None when it throws.*)
CardIn(i) == IF Answering /\ i <= nReaders /\ slot[i] \in EstEID THEN slot[i] ELSE None

(* readPersonalData, getAuthCert and getSignCert: "populate cache if       *)
(* needed", then answer from the cache.  m_cache[reader] is not checked    *)
(* against m_cache.size().                                                 *)
ReadItem(c, t) ==
    LET i == found[c] IN
    /\ polling = 0 /\ i # 0
    /\ found' = [found EXCEPT ![c] = 0]
    /\ IF i > size
       THEN /\ result' = [result EXCEPT ![c] = Garbage]
            /\ UNCHANGED <<data, raced>>
       ELSE LET answer == IF data[i][t] = None THEN CardIn(i) ELSE data[i][t] IN
            /\ result' = [result EXCEPT ![c] = answer]
            /\ data' = [data EXCEPT ![i][t] = answer]
            /\ raced' = (raced \/ (data[i][t] # answer /\ ~cardPresent[i]))
    /\ UNCHANGED <<env, size, cardPresent, m_manager, polling, views, unseen, unseenList,
                   rushed>>

(* signSHA1, getRetryCounts and hasSecurePinEntry go to the card itself.   *)
UseCard(c) ==
    /\ polling = 0 /\ found[c] # 0
    /\ found' = [found EXCEPT ![c] = 0]
    /\ result' = [result EXCEPT ![c] = CardIn(found[c])]
    /\ UNCHANGED <<env, cache, m_manager, polling, views, history>>

Call(c) == findFirstEstEid(c) \/ UseCard(c) \/ \E t \in Items : ReadItem(c, t)

-----------------------------------------------------------------------------

Next ==
    \/ Environment
    \/ Monitor
    \/ \E o \in Observers : addObserver(o) \/ removeObserver(o)
    \/ \E c \in Callers : Call(c)

Spec == Init /\ [][Next]_vars

(* The monitor thread runs until the service is destroyed.                 *)
FairSpec == Spec /\ WF_vars(Monitor)

-----------------------------------------------------------------------------
(* Every variable has its type; entries, slots and the poll's position are *)
(* within the lists they index.                                            *)
TypeOK ==
    /\ pcscd \in BOOLEAN
    /\ nReaders \in 0..MaxReaders
    /\ slot \in [Readers -> Cards \union {None}]
    /\ size \in 0..MaxReaders
    /\ cardPresent \in [Readers -> BOOLEAN]
    /\ data \in [Readers -> [Items -> Cards \union {None}]]
    /\ m_manager \in {"none", "live", "lost"}
    /\ m_manager = "live" => pcscd
    /\ polling \in 0..size
    /\ m_manager = "none" => size = 0
    /\ m_observers \subseteq Observers
    /\ told \in [Observers -> [Readers -> {"nothing", "inserted", "removed"}]]
    /\ toldReaders \in [Observers -> {-1} \union (0..MaxReaders)]
    /\ found \in [Callers -> 0..MaxReaders]
    /\ result \in [Callers -> Cards \union {None, Garbage}]
    /\ unseen \subseteq Readers
    /\ unseenList \in BOOLEAN
    /\ rushed \in BOOLEAN
    /\ raced \in BOOLEAN

(* poll() and postMessage(): what the events told a registered page agrees *)
(* with the cache at every moment, whatever readers and cards did in       *)
(* between: a card it was told of is in an existing reader and still       *)
(* cached, one it was told is gone is not, and the reader count is right.  *)
(* Hence CARD_INSERTED and CARD_REMOVED of a reader alternate.             *)
ObserverViews ==
    \A o \in m_observers :
        /\ toldReaders[o] \in {-1, size}
        /\ \A i \in Readers :
              /\ told[o][i] = "inserted" => i <= size /\ cardPresent[i]
              /\ i <= size /\ cardPresent[i] => told[o][i] # "removed"

(* poll()'s purging against the calls' filling of the cache: if the user   *)
(* gave the poll time to see every change, and no call stored data in      *)
(* an entry that a poll had emptied since the call chose it, then every    *)
(* cached item of a reader is of the card that is in that reader, or the   *)
(* poll has not looked since the card left.                                *)
CacheHoldsTheCard ==
    ~rushed /\ ~raced /\ ~unseenList =>
        \A i \in 1..size : \A t \in Items :
            data[i][t] \in {None, slot[i]} \/ i \in unseen

(* monitor() and cardManager(): once the readers, the cards and the daemon *)
(* are left alone, the cache ends up with the readers there are, with a    *)
(* card wherever there is an EstEID card and with none in an empty reader; *)
(* also when the daemon was started after the service and after any number *)
(* of failed polls.  It does not if the daemon stays away, and need not if *)
(* it died after the first poll: the manager is never created again.       *)
Synced ==
    /\ size = nReaders
    /\ \A i \in 1..size :
          /\ slot[i] \in EstEID => cardPresent[i]
          /\ cardPresent[i] => slot[i] # None

CacheConverges ==
    []<><<Environment>>_vars \/ <>[](~pcscd \/ m_manager = "lost") \/ <>[]Synced
=============================================================================
