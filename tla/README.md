# A TLA+ model of the Estonian ID card browser plugin

The plugin gives web pages access to the user's Estonian ID card: it reads
certificates and personal data, tells pages when cards come and go, and signs
document hashes after asking for PIN2 in a dialog of its own or on the reader's
pinpad. It is a FireBreath plugin in C++ (one `EsteidAPI` object per page, one
`CardService` per browser process), with a GTK, a Windows and a Mac user
interface and small Mozilla and Safari extensions.

This directory models the parts of it in which steps can happen in an order
nobody tested, checks the models with TLC on small instances, and proves the
most important properties with TLAPS for all instances.

## The system

| Part | State | Operations | Talks to |
|---|---|---|---|
| `CardService` | reader cache `m_cache`, `m_observers`, callback slots, `m_cardMutex`, `m_messageMutex` | `poll` (monitor thread), `addObserver`, `removeObserver`, `findFirstEstEid`, cached reads, card calls, `signSHA1Async` | PC/SC and the card (external); observers by `onMessage`; the page that signs by two stored callbacks |
| `EsteidAPI` | `m_signCallback`, `m_hash`, `m_url`, `m_subject`, `m_pinpad`, `m_stoprequested`, `m_signedHash`, `m_signFailure`, the notification bar | `signAsync`, the blocking `sign` family, `onPinEntered`, `onPinCancelled`, pinpad answers, property reads | page scripts (calls, callbacks, events), `CardService`, `PluginUI`, `PluginSettings` |
| `GtkUI`, `WindowsUI`, `MacUI` | the dialogs: visible or not, what they show, the PIN entry | show, retry, close, blocked message, settings | `EsteidAPI` through `UICallbacks`; the platform's event loop |
| `WhitelistDialog` of each interface | the rows, the entry | add, edit, delete, OK, cancel | the settings through `EsteidAPI` |
| `PluginSettings`, `whitelist` | the user's and the systemwide list, `m_allowLocal`; two files | load, convert, save, edit | the settings dialog; other browsers through the file |
| Access gate: `IsLocal`, `IsSecure`, `IsWhiteListed`, `UrlParser` | none | parse, compare | every page-visible call |
| Notification bar | `m_barJSO`, the bar in the page, `document.EstEIDNotificationBar` | open, close, callbacks | the page's document |
| `CertificateAPI`, `PersonalDataAPI`, `X509Certificate`, `CompatAPIs` | copies of card data | getters | page scripts |
| `Converter`, `Base64` | none | hex, base64, charsets | all of the above |
| Mozilla extension's set-up | `esteidglobal`, icons, restart notification, the browser's module and certificate databases | `ConfigureEstEID` in each window: remove and load modules, import CA certificates, ask for a restart | the browser |
| Mozilla and Safari page converters | `esteidConvertLegacyRunning`, the page's DOM | convert old applets and ActiveX objects, block Java applets | the page and its scripts |

What is hard here:

* **Threads.** The monitor thread, detached signing threads and the browser's
  main thread meet in `CardService`; a signing thread calls back into the main
  thread synchronously.
* **Re-entrancy.** A page's callback, the blocking calls' own event loops and
  the modal message let a page call the plugin while an earlier call of it is
  still on the stack.
* **Objects that share.** Two plugin objects of one document share the bar's
  name in the document; the dialogs of all objects share one message hook and
  the browser's window; two browser windows share one module database.
* **The user.** Cards and readers change between any two steps, PIN tries run
  out, dialogs stay open.
* **Files.** The settings are written in place, converted once, and shared
  between browsers.

What makes each part correct:

* *CardService*: the events a page was sent agree with the cache; the cache
  catches up with the readers, as long as the daemon that the card manager was
  made for lives; what a read returns is the card's; one thread at a time uses
  the card.
* *Signing*: each request is answered once, with a failure or with the
  signature of its own document, and only after the user typed the PIN while
  that document was shown; nothing waits for ever; no PIN is
  offered for another document than the one it was typed for.
* *Settings*: the list the user confirmed last is the one the next start finds,
  and the one that every instance goes by that has read it.
* *Access gate and bar*: a page gets nothing of the card, and asks for no PIN,
  unless the user has seen its site in the list he confirmed; a refusal can be
  seen, and an open bar is true.
* *Windows dialogs*: every window that was disabled is enabled again, whichever
  dialogs own each other; a request has a dialog or a reason not to; no PIN stays
  behind; the hook lives as long as its dialog, and no timer outlives one that
  was shown.
* *Set-up of the extension*: once is enough; who is told nothing has a module
  that works; nobody else's modules are touched.
* *Page converter*: one plugin for one old element, passes do not nest, what is
  left is not old, and the blocker stops what the converter is about to replace.

`PROJECT.json` lists all components and, under `hazards`, the lines where each
of these could go wrong.

## The modules

| Module | Models | Needs |
|---|---|---|
| `CardService` | the reader cache, the poll, events, observers, cached and direct reads | |
| `MCCardService` | names for its small instances | `CardService` |
| `CardServiceProofs` | theorems about it | `CardService`, `TLAPS` |
| `SignRequest` | abstract: what the signing API promises a page | |
| `SignSession` | one page, the PIN dialog, nested loops and callbacks | `SignRequest` (refinement) |
| `SignSessionProofs` | theorems about it | `SignSession`, `TLAPS` |
| `PinpadSign` | several pages, signing threads, `m_cardMutex`, closing pages | `SignRequest` (refinement) |
| `MCPinpadSign` | its small instances | `PinpadSign` |
| `PinpadSignProofs` | theorems about it | `PinpadSign`, `TLAPS` |
| `PluginSettings` | the settings files, instances, crashes | |
| `MCPluginSettings` | its small instances | `PluginSettings` |
| `PluginSettingsProofs` | theorems about it | `PluginSettings`, `TLAPS` |
| `UrlParser` | protocol and host of a page's URL | |
| `WhitelistDialog` | operators on the rows of the settings dialog | |
| `AccessGate` | every call's gate, the bar, the dialog and the list it changes | `UrlParser`, `WhitelistDialog` |
| `MCAccessGate` | its small instances | `AccessGate` |
| `AccessGateProofs` | theorems about it | `AccessGate`, `TLAPS` |
| `WindowsUI` | the Windows dialogs of several objects, their windows, hook and message boxes | |
| `MCWindowsUI` | its small instances | `WindowsUI` |
| `WindowsUIProofs` | theorems about it | `WindowsUI`, `TLAPS` |
| `Pkcs11Config` | the Mozilla extension's set-up | |
| `MCPkcs11Config` | its small instances | `Pkcs11Config` |
| `Pkcs11ConfigProofs` | theorems about it | `Pkcs11Config`, `TLAPS` |
| `LegacyPages` | the page converters and the applet blocker | |
| `MCLegacyPages` | its small instances | `LegacyPages` |
| `LegacyPagesProofs` | theorems about it | `LegacyPages`, `TLAPS` |

Operators whose name ends in `_Something` next to a definition (for example
`Check_KeepsData`) are that definition with a plausible bug. They are part of no
specification: substituted for it, they show that a property can fail.

### CardService

`size`, `cardPresent` and `data` are `m_cache`; an item of `data` is the card it
was read from. `slot`, `nReaders` and `pcscd` are the world outside: the user
may insert, remove, attach and detach between any two steps, and the daemon may
die. `poll()` holds `m_cardMutex` throughout, but the world does not wait for
it, so it is one action for the count of readers (`PollCount`) and one for each
reader (`PollReader`); `polling` is its position, and the mutex is free when it
is 0. Every other locked section calls the card at most once and is one action.
`findFirstEstEid` and the use of the reader it found are two actions, because
the lock is released in between (`found` is the reader a caller has chosen).
Read access through an index that `m_cache` no longer has is undefined in C++
and gives `Garbage`.

`m_manager` is what `cardManager()` keeps: the code creates it at the first use that
finds the daemon, and never again. When the daemon dies, the manager is `lost`; a
daemon started later may or may not answer through it, which is up to the library
(`Answering`), and the model takes either. So the cache need not catch up after a
restart, and `CacheConverges` does not say that it does: it is claimed when the daemon
was there from the start, or came late, and has lived since.

`unseen`, `unseenList`, `rushed` and `raced` are history variables: what the user did
since the poll last looked, whether he changed a reader again before it had looked,
and whether a call filled an entry without a card. The small instance has two kinds
of behaviours, those in which pages register and those in which callers read
(`MCNext`), since the two touch different parts of the state.

### SignRequest, SignSession

`SignRequest` is a page's view: a request is idle, open, signed or failed, and is
signed only with the user's consent to that document.

`SignSession` runs on one thread; `stack` is what it has yet to return to:
the page's callback (`js`), a blocking call's loop (`sync`), the "PIN2 blocked"
message (`blocked`) and the dialog's response handler (`response`). An event is
handled when the innermost of these is an event loop. A request stands for its
document. `got` and `asked` are what the page sees; with `consent` they map to
`SignRequest` (`RequestsAnswered`).

`discipline`, chosen at the start from the constant `Disciplines` and never
changed, says what the page's code does: `sequential` (one request at a time,
from the event loop), `chained` (also the next one from the callback of the
last) or `any`. One run can so check what holds for every page, and under
`Sequential` what holds only for a page that waits.

### PinpadSign

All pages share the main thread; it waits for `m_cardMutex` in the frames
`prepare`, `askPin`, `start` and `use`. `jobs` are the signing threads in the order
of their start. A job that has its signature holds the mutex until the main
thread has run the page's callback (`completed`, `delivered`); one that failed
released it before (the `catch` clauses of `runSignSHA1`). `ClosePage` of the last
page destroys the service, which joins the last thread. A wrong PIN's retry
starts another thread from within the delivery of the first.

`habit`, chosen from `Habits` like `discipline` above, is `quiet` for pages that
leave the card alone, and do not close, while a request of any page is open.

### PluginSettings

The user's file is a set of sites, `Absent`, or `Torn` (written in part). The old file
is a sequence of lines, of which `loadLegacy()` reads those before the first empty one
(`Read`): sites and the two options. An instance's program counter goes through the
constructor (`Start`, `convertLegacy`, `loadLegacy`, `SaveLegacy`, `Write`,
`RemoveLegacy`) and the dialog (`DialogOk`, `Write`). `Crash` may come anywhere.
Failures of `save()` are swallowed, as in the code, when `IOFailures` allows any.
Editing the list by hand in the dialog is left to the user: any set of sites may come
out of it. Left out: the order of the list, which `save()` sorts, and old files that
cannot be read.

`wanted` is history: the list the user had at first (in an old file, the sites that
are read of it) or confirmed last. Three more say exactly where the code may not have
it. `unsaved`: the last save of the user's file failed, was cut short while no old
file stood behind it, is still to come, or was made by an instance that lacked the
list. `stuck`: the list was edited while the old file was still there (its removal had
failed, or another instance was converting), which the next start converts again.
`behind`: the instances that were up at an edit made in another, or read the files
when the list was in neither. None of them is for good: a save by an instance that has
the list makes `unsaved` false, and an instance that starts with a good file is not
behind. Each disjunct in their definitions is needed; without any one of them TLC
refutes `SitesKept` or `SitesInForce`.

### UrlParser, WhitelistDialog, AccessGate

`AccessGate` is one document with its plugin objects on the main thread, and the
monitor thread that tells them of cards. A URL is a sequence of tokens, which `parse`
takes apart as `UrlParser::parse()` does with characters; the URLs of the run have a
user name and password, a port, no path, no host; the page on `localhost` is the
insecure one, where local pages are not allowed. The properties do not go by what
`parse` returned: `Host` and `Protocol` read the URL by the format that
`urlparser.cpp` documents, where `username:password@` is part of what stands before
the first `/`. One URL of the run has an `@` behind that; `AtEndsUserInfo` leaves it
out of `NoDataWithoutConsent` and `EventsFollowTheList` (see below). `Script` is any
call of a page: `GatedCalls` lists them with what they want, and each is refused, with
the bar, or answered. What happens to a request for a PIN after that is
`SignSession`'s. The calls without a gate, and `signXML()`, which reads the card
before it comes to the gate, are `Ungated`.

The bar's buttons call `document.EstEIDNotificationBar`, which is the bar of the
object whose script ran last; so both act on `document` and not on the object
whose bar was clicked, and the settings dialog that opens is that object's. A bar
made before the document has a body is `broken` for good. `Ok` and `save` are two
steps, because the monitor thread reads the list in between without a lock; what
it then gets is undefined and so is either answer (`MayHear`).

The rows of a dialog are counted for each site. The GTK dialog shows the systemwide
sites in rows nobody can change. In the Windows dialog they are like all others,
but changing or removing one has no effect, since `save()` drops what is
systemwide and `inWhitelist` asks both lists (`ListIsInForce` says so).
`confirmed` (what the user saw at the last OK) and `meanwhile` (a call was refused
while the dialog was open) are history. Left out: the text in the dialog's entry,
and the time between `onMessage()` and the event's arrival in the page.

### WindowsUI

`win` is the state of the windows, changed by operators that follow `BaseDialog`: a
modeless dialog disables its parent by hand (`disableParent`), which is the foreground
window when it opens, so that a dialog of one object can own that of another;
`DestroyWindow` takes the owned windows along (`Family`). Message boxes (`Box`) are
windows too, with event loops of their own: they can be the foreground window, own a
dialog, and be destroyed with the window that owns them, in which case their call
returns when the loops inside it have. The user may close any that takes input. The
handle of the hook, `s_hWnd`, is one for the thread; a hook whose dialog is gone
without it stays in `hooks`. Each `EsteidAPI` object makes one request at a time, with
`signAsync`, also while the box about a settings file that could not be saved is open:
calls that overlap and the locks of the card are the two modules above. `made` and
`strays` are about the pinpad's timer: `resetProgressbar()` of a dialog that was never
opened sets it without a window, and such a timer of the thread is never killed.
`unprompted`, `unmade`, `overlapped` and `orphaned` are history and bound the claims:
a request whose dialog was refused or taken away, a `CreateDialog` that failed,
dialogs of two objects at once, an object destroyed with a dialog open. The last ends
the behaviour, because the dialog's procedure would then use an object that is gone. A
PIN of fewer than 5 characters counts as none. Left out: the progress bar's text, the
modal lock of Internet Explorer and `registry.cpp`.

### Pkcs11Config

`ConfigureEstEID()` of the windows: the names of the modules to remove are
collected, then removed one at a time, then a module is added, then certificates
(`LoadEstEID`, `RemoveModule`, `AddModule`, `FinishConfigure`). With the browser's old
interface the user is asked before each removal or addition, and while that
dialog is open another window can load; `stack` holds the windows that are
configuring. `version` is the kind of browser: whether it has shared modules
(`esteidglobal`), the "sane interface", tabs to show a notification in, and a
platform the code knows. Any step can fail. A crash, a quit, an edit of the
modules or of a certificate's trust, and a new library can come between any two
configurations; a crash also within one.
Left out: registering the page converter, the preferences window, logging.

### LegacyPages

The page's elements are a sequence, and `stack` is what the one thread has to return
to: a pass over the page (with its index into the live list), a script of the page
that a conversion injected, or the insertion event that follows it. The live list
`els(i)` is given as a set, where its elements are in the page; `Item(i, j)` is where
its element j is, `Rank` the number of one. `running` is `esteidConvertLegacyRunning`.
Elements come from the parser, from a script of the page or, in Safari, are converted
when they are about to load (`blockResource`). An element's shape says which
attributes name a Java class or an ActiveX class, and whether it is loaded as a Java
object, which is what `OldJavaBlocker.js` is asked about (`shouldLoad`); `started` are
the applets that Mozilla has started. An injected script runs when it is inserted, and
the event of its insertion follows. `missed` is history, element by element: what the
last pass could not see because it had passed the place (`HasPassed`) where an element
was inserted, or moved to when another was taken away; the next pass starts with none.
Left out: pages that take elements out again, nested frames, elements with other
parents than the body, the delayed loading hacks and `sebHack.js`.

## What is checked

| Run | Bounds | Shows |
|---|---|---|
| `card` | 2 readers, 2 EstEID and 1 foreign card, 2 cached items, 1 page, 1 caller | `ObserverViews`: events agree with the cache, for a page that comes and goes in the middle of a poll; `CacheHoldsTheCard` under its conditions; `CacheConverges` (liveness): the cache catches up, unless the daemon is away or has died under its manager |
| `sign` | 3 requests, 2 tries, both APIs, sequential and any pages | `RequestsAnswered` (`SignSession` implements `SignRequest`, liveness included) and `PromptIsFresh` for a page that waits for its answers; `TriesShownAreTrue` for any page |
| `sign_overlap`, `sign_chained` | 2 requests, 2 tries | refute `PromptShowsDocument`, `AnsweredThroughCallback` |
| `pinpad` | 2 pages, 2 requests, 2 tries, quiet and any pages | `RequestsAnswered` (`PinpadSign` implements `SignRequest`), `QuietPagesDoNotBlock` and `NothingOutlivesItsOwner` for quiet pages; `CardUsedByOne` for any |
| `pinpad_deadlock` | 2 pages, 1 request, 1 try | refutes `NoLockCycle` |
| `settings` | 3 sites, 1 of them a default, 3 old files, 2 instances, disk failures | `SitesKept` and `SitesInForce` |
| `gate` | 2 objects, 5 URLs, 2 sites, 1 of them a default, both interfaces | `NoDataWithoutConsent`, `EventsFollowTheList`, `ListIsInForce`; `RefusalIsShown` and `BarTellsTheTruth`, also when two objects share the bar |
| `windows` | 2 objects, 2 windows of other programs, 2 tries, 2 message boxes, 1 failed creation, a time-out of 1 | `NoWindowLeftDisabled`, `ParentWaits`, `HookFollowsDialog`, `StraysAreUnprompted`; `RequestIsPrompted`, `PromptHasRequest`, `PinNotKept` |
| `pkcs11` | 2 windows, 2 modules, 2 libraries, 1 certificate, 4 kinds of browser | `Settled`, `QuietMeansLoaded`, `OthersLeftAlone` |
| `legacy` | 4 elements of 8 shapes, both browsers | `OneForOne`, `FlagMeansPass`, `OldOnesAreConverted`, `BlockerInSync` |
| `legacy_blocker` | 1 element, the applet of a Java runtime's class, Mozilla | refutes `BlockerInSync` |

The runs of `SignSession`, `PinpadSign`, `WindowsUI` and `LegacyPages` do not check for
deadlock, because there the system may really stop (a page that has made its
calls or inserted its elements, objects that are all gone); the others do.

*Why the bounds are enough.* Two readers are the least for which a reader's number can
change under a call and a poll can be interrupted between two readers; two cards the
least for a swap. A third request in `SignSession` is made after a first that left
something behind and a second that was affected by it. Two tries separate "wrong PIN",
"wrong again" and "blocked". Two pages and two requests are the least for the wrong
page to be called. Two sites that are not defaults let an edit add one and keep one;
two instances let one write what the other has read; three have been checked once and
show the same. The old files have both options, an empty line in the middle, and
nothing. Two objects are the least for a button to act on another object's bar
(`gate`) and for a dialog to own one of another object (`windows`), where two message
boxes let one open over the other. A site has at most one row in a dialog of `gate`
(`MaxCopies`); the theorems hold for any number. A time-out of 1 separates a timer
that runs from one that has run out. One failed creation of a window leaves the trace
that matters, a parent kept by a dialog that is not there; a second leaves the same. A
creation fails while no box is open, and none opens after it (`MaxLate`): most of what
is claimed of the windows is claimed until then. Two windows let one configure inside
the dialog of the other, two libraries let a preference name one the platform does not
know. Three elements are the least for a removal to shift the next one out of a pass's
sight and leave one that it sees; a fourth can be inserted meanwhile, before or behind
the point the pass has reached. The theorems below need none of these bounds.

*Fairness.* `CardService`: `WF(Monitor)`, because the monitor thread loops until the
service is destroyed. The user and the callers are free. `SignSession`: `WF(Unwind)`,
because code that has been called returns, and `WF(User)`, because every window the
model counts can be answered or closed; a page need not do anything. `PinpadSign`:
`SF(Main)` and `SF(SigningThread)`, strong because both wait for a mutex that the
monitor takes again and again but sleeps half a second in between, and `WF(PollEnd)`.
The other modules state safety only: nothing in them is obliged to happen but what the
user, the page or the browser starts. In the refuted liveness properties the
counterexample is a state in which nobody who is obliged to go on can do so.

### What the refuted properties show

Each of the runs that find a violation quotes, in `PROJECT.json` under `findings`,
the comment the code contradicts. In short:

1. `sign_overlap`: a second `signAsync` while the dialog is open replaces the hash
   that will be signed, not the one that is shown.
2. `sign_chained`: `signAsync` from inside a callback is never answered, because
   the new request's callback is dropped when the old one's returns.
3. `pinpad_deadlock`: the signing thread waits for the main thread with
   `m_cardMutex` held, and the main thread for `m_cardMutex`.
4. `legacy_blocker`: of a Java applet whose classid is not that of a Java class,
   `OldJavaBlocker.js` throws, so that Mozilla starts it; `convertLegacy.js`, whose copy
   of the same search looks whether the classid matched, then converts it.

The models contain more of the kind, which no run singles out.

* *Cards.* A read through a reader number that `m_cache` no longer has (`Garbage` in
  `ReadItem`). A call that chose a reader before a poll saw it emptied fills the purged
  entry from a card put in since; `poll()` does not purge entries without
  `cardPresent`, so a second card's owner can be shown the first card's certificate
  (`raced`); such entries also survive a change of the reader list
  (`ReadersToPurge`). The card manager is created once: if the daemon dies and is started
  again, the service may see no reader any more until the browser is restarted
  (`ManagerAfter`).
* *Signing.* The PIN stays in the GTK dialog's entry while the page's callback runs
  (`ResponseReturn`). A blocking call within another returns the other's answer, and
  one made while `signAsync` waits runs its loop for ever, because the answer goes to
  the callback (`SyncReturn`). All pages share one callback slot, so of two that sign
  with a pinpad at once one is answered with the other's signature (`BoundTo`).
* *Settings.* Two browsers that convert at once can save an empty list, when one finds
  the old file gone between `exists()` and `loadLegacy()`; and since `save()` swallows
  failures, `convertLegacy()` removes the old file although the new one could not be
  written (both make `unsaved` true). An edit made while the old file could not be
  removed is undone at the next start (`stuck`). A crash while an edit is written
  loses the list. What stands behind an empty line of the old file is not converted
  and goes with the file. `@NOLOCAL` is not saved by the conversion and is lost at the
  next start (`m_allowLocal`). Of two instances that edit the list the last one wins,
  and the other goes by its older copy (`behind`).
* *The gate.* `parse()` takes the first `@` anywhere in the URL for the end of
  `username:password@` (`urlparser.cpp:69`), also where it stands in the path; the
  gate then goes by another name than the page's host, which is not the format the
  function's comment describes (`urlparser.cpp:50`) nor what README:8 says of pages in
  the list. With two objects in a document, Allow and x of the first one's bar act on
  the second one's, so that the first bar stays open. A page that calls while its
  settings dialog is open gets a bar that is still there when the site is allowed
  (`meanwhile`). A bar made before the document has a body is never seen (`broken`).
* *Windows dialogs.* When dialogs of two objects overlap, the hook of the first stays
  set and its keyboard handling is lost (`overlapped`). After a `CreateDialog` that
  fails, `m_hParent` stays, and the next `close()` enables a window that another
  dialog or a message box has disabled (`unmade`). A page left with a dialog open
  leaves the dialog without its object and the browser disabled (`orphaned`). A
  request made while the settings dialog is open, or whose dialog was destroyed with
  the dialog that owned it, is never prompted (`unprompted`). If such a request reads a
  wrong PIN from the pinpad, `resetProgressbar()` sets a timer without a window, which
  runs until the thread ends (`strays`). The pinpad dialog's WM_CLOSE has no listener.
* *The extension's set-up.* In Firefox 3.0 the old interface's dialog lets a second
  window configure inside the first; the first then removes by name the module the
  second has added, and adds the same library again without asking for a
  restart. That is why `QuietMeansLoaded` is stated for browsers with the sane
  interface; without that condition TLC refutes it. `isConfigured` is set also when
  the configuration failed, and only the window that ran it shows the error.
  An exception in the certificate part skips the request to restart. A mail reader has
  no `gBrowser` to ask in. Where no library is found, the modules are removed and none
  is added. A CA certificate the user deleted comes back at the next start.
* *The converter.* Of consecutive old elements with the same tag a pass skips every
  second one, since the list is live and the index goes on (`missed`); the next
  insertion starts another pass. An element that the page's script inserts before the
  place a pass has reached waits for the next insertion too.

## What is proved

TLAPS checks these for every value of the constants, from the assumptions named in the
modules. They say of what kind the constants are (`ConstantsAssumption`,
`SitesAssumption`, `GateAssumption`, `WindowsAssumption`, `ConfigAssumption`), and two
say something of the world: a page has finitely many elements (`LegacyAssumption`),
and a browser with the sane interface for modules has shared JavaScript modules
(`SaneIsShared`), since `esteid.js` falls back to a window's own variables only in
browsers that are older than both. Every module of the plugin with actions has such
theorems, and every invariant and every action property of a run is stated by one.

**`CardServiceProofs`.** `TypeCorrect`, by one step per action. `ViewsCorrect`
(`ObserverViews`): the property is inductive together with the types, because
each of the two places that changes `cardPresent` posts the matching message to
all observers in the same locked section; the delicate cases are the resize, where
the entries that are lost must have been announced as removed before, and a
page that registers half-way. `CacheCorrect` (`CacheHoldsTheCard`) needs a
strengthening, `HistoryInv`: the poll has a reader list to look at exactly when
the cache's size is not the machine's; a reader it has not looked at since its
card left is empty, unless the user rushed; and an entry that holds data has
`cardPresent`, unless a call raced, so that the purges, which go by
`cardPresent`, reach all data. Without `rushed` the second part fails: a card
exchanged between two polls is not noticed by `readerHasCard()`.

**`PluginSettingsProofs`.** `TypeCorrect`, and `SitesCorrect` (`SitesKept` and
`SitesInForce`), for any number of instances with crashes and disk failures, and
without assumptions beyond the lines of an old file and the names of the markers.
`SitesKept` is not inductive: it does not say what the new file holds while the old
one is still there, and so not what remains when that is removed. The invariant
`SitesInv` adds it: when any instance is at `remove`, the new file has the list or is
`unsaved` (`NewHasIt`), which is why a truncation at that moment by a second
converting instance has to count as one; and an instance that is not `behind` has the
list at every step of its start, whichever of the two files it read (`HasIt`). Nothing
in it says that instances take turns.

**`AccessGateProofs`.** `TypeCorrect`; the URL stays what it was. `ListCorrect`
(`ListIsInForce`) is inductive with the types: `Ok` takes the rows the user saw, and
`save` drops only sites that are systemwide and so in force anyway. `ConsentCorrect`
(`NoDataWithoutConsent`) and `EventsCorrect` (`EventsFollowTheList`) follow from it,
because every step that answers the page has gone through `Refusal` or `MayHear` with
the list of that moment, and every other step resets `last`. `RefusalCorrect`
(`RefusalIsShown`) needs no list. `BarCorrect` (`BarTellsTheTruth`) needs the
strengthening `BarsTrue`: the object the document knows is alive; only living objects
have bars; a bar about the site is only on a page that is secure and not local; and a
refusal while the dialog is open came after it was opened. Without the last, OK would
allow the site under a bar that the Allow button had not closed. It holds for any
number of objects, URLs, sites and rows. `ConsentCorrect` and `EventsCorrect` speak of
the document's own host; `ParseFindsHost`, a lemma about `parse` for every sequence of
tokens with a "://", says that `parse` returns it when `AtEndsUserInfo` holds; a URL
without one gets no host, which no check lets pass.

**`SignSessionProofs`.** `TypeCorrect` and `TriesCorrect` (`TriesShownAreTrue`) are
inductive together, for pages of any discipline: the count of tries is a natural
number after a wrong PIN because the dialog that took it was shown with tries left.
`PromptCorrect` (`PromptIsFresh`) is about pages that wait for their answers, and
needs `SequentialInv`, which says how far the plugin is: nothing open and nothing
on the stack but returning code (`Idle`); or one request open, by `signAsync` with
its callback kept and its dialog shown, or by a blocking call whose loop is
on the stack, asking (`SyncAsks`) or told the answer (`SyncTold`). From the same
invariant follows `AnsweredAsPromised`, the safety part of `RequestsAnswered`: every
step of such a page is a step of `SignRequest` or changes nothing of it.

**`PinpadSignProofs`.** `TypeCorrect` counts the threads, because the bound on `jobs` is
no guard: each thread is started for a request or for a wrong PIN that left a
try, so threads, requests to come and tries to come are bounded together
(`ThreadsBounded`); and a page for which a thread is started has a document
(`DocumentsSet`). `CardSafe` (`CardUsedByOne`) holds for all pages. The rest
is about quiet ones. `Calm` says that each request has no answer or one, and that
main thread, threads and mutex are together in one of five modes: nothing to do
(`Resting`), using the card or closing (`Using`), in a callback (`Telling`), preparing
one request (`Working`), or waiting for one thread (`Signing`), where `n` says whether
this happens on top of the delivery of an earlier thread, whose mutex a failed thread
has given back. `NoDeadlock` (`QuietPagesDoNotBlock`), `OwnersOutlive`
(`NothingOutlivesItsOwner`) and `AnsweredAsPromised` (each step is one of every
page's `SignRequest`) follow from it.

**`Pkcs11ConfigProofs`.** `TypeCorrect`: a window is on the stack once at most, and a
call that will load has something to load. `OneStartIsEnough` (`Settled`) needs, of
each call on the stack, that it removes nothing but recognised modules and is for the
library of now (`UpToDate`), that without an error it leaves nothing to do
(`WillSettle`), and that a call inside another's dialog does not remove the module the
outer one counts on. `OthersUntouched` (`OthersLeftAlone`) is a property of steps and
needs the types and `CallsInv`. `ToldOrLoaded` (`QuietMeansLoaded`) needs `OneCall`,
which holds where the browser asks nothing: one call at a time, by the first window
after a start, which remembers to ask for a restart from the removal of a library it
will load again.

**`WindowsUIProofs`.** All properties are parts of one invariant or follow from it.
`Good` holds always: a window takes no input only because of an open dialog or message
box over it (`NoWindowLeftDisabled`), an object has one dialog open at most, an open
pinpad dialog has a handle (`made`), a PIN is in an open PIN dialog's entry only.
`Neat` holds while every dialog could be made: what a dialog or box was opened over is
disabled, and no two are over the same, so that closing one does not enable what the
other needs. `Hooked` holds while dialogs of two objects have not overlapped.
`RequestsInv` relates dialogs and requests, with the fact that a thread that reads the
pinpad belongs to an open request without a PIN dialog. `Keeps` says of an operation
on the windows that all this is kept; the lemmas prove it for opening, closing,
showing a box and `DestroyWindow` of a whole family, and the actions compose them.

**`LegacyPagesProofs`.** `ReplacedOneForOne` (`OneForOne`) from what a removal and an
insertion do to a sequence; with it, the bound on a pass's index in `TypeCorrect`,
since a list is no longer than there are elements. `PassesDoNotNest` (`FlagMeansPass`)
from what `Inserted` pushes. `OnlyMissedOnesAreLeft` (`OldOnesAreConverted`) needs
`Swept`: all that is old and not missed is ahead of the running pass, in a list it has
not begun or at a later index of the present one, and nothing such is left when none
runs. The lemmas about `Rank` show what each change of the page does to it: a
conversion moves an element behind the removed one one place ahead, which matters only
to the next in the list, and that is the one in `missed`; an insertion moves none
ahead, and the new element is ahead unless the pass has passed its place
(`InsertLeaves`); a load in Safari moves one out of the pass's sight at most
(`BlockLeaves`). `BlockerAgrees` (`BlockerInSync`) follows through the history of each
element: what was converted was old when it was, what was started passed the blocker,
and the two searches agree on every shape that is not of the class of a Java runtime
(`RuntimeClass`); `legacy_blocker` has a shape that is, on which they differ.

Model-checked only: liveness (`CacheConverges`, and the fairness part of
`RequestsAnswered`), which the prover does not cover. The refuted properties are false,
`BlockerInSync` where the assumption of its theorem fails, and stay with TLC. That models and code agree is not proved: that is
what `map` in `PROJECT.json` is for.

## What is not modelled, and the plan

* *Getters of certificates and personal data*: copies of what `CardService` returned,
  decoded by OpenSSL. Their reads are `CardService`'s and their gate is `AccessGate`'s.
* *Conversions* (hex, base64, code pages): pure functions on characters; no property
  here tells one document's text from another.
* *The Mac interface*: `MacUI` does not override several of the abstract methods of
  `PluginUI` (`retryPinDialog`, the pinpad dialogs, `iteration`; its `pinDialog` has
  another signature), so at this commit it cannot be instantiated and has no behaviour
  to model.
* *The plugin factory, message catalogues, test pages and packaging.*

Left out of the modules above: `getRetryCounts()` returning false, blocking calls on
a reader with a pinpad, two pages that share a PIN-dialog card, the GTK pinpad
dialog's progress bar, the extension's preferences window.

Next, in this order:

1. `getRetryCounts()` returning false, in `SignSession`; its number of tries is then
   undefined.
2. The GTK pinpad dialog, next to the Windows one.
