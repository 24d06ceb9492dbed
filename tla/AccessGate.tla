----------------------------- MODULE AccessGate ------------------------------
(***************************************************************************)
(* Which pages may use the card: the gate before every call of the plugin, *)
(* the bar a refused page shows (EstEIDNotificationBar.js), the settings   *)
(* dialog it leads to and the whitelist that the dialog changes.           *)
(*                                                                         *)
(* The plugin objects of one document run on the browser's main thread;    *)
(* the monitor thread tells them of cards (onMessage) and reads their      *)
(* whitelists without a lock.  Every object has its own settings and       *)
(* dialogs, but the bar's buttons go by document.EstEIDNotificationBar,    *)
(* which is that of the object whose script ran last.                      *)
(***************************************************************************)
EXTENDS WhitelistDialog, UrlParser

CONSTANTS
    Objects,   \* plugin objects a document may have
    Urls,      \* the document's possible URLs
    UIs,       \* user interfaces: "gtk", "windows"
    None

ASSUME GateAssumption ==
    /\ None \notin Objects
    /\ UIs \subseteq {"gtk", "windows"}
    /\ "" \notin Sites

VARIABLES
    ui,             \* the user interface
    url,            \* the document's URL
    m_pageURL,      \* what every object has parsed of it
    body,           \* does the document have its body element yet
    alive,          \* the plugin objects there are
    userFile,       \* the user's sites on disk
    m_whitelist,    \* of each object
    m_allowLocal,   \* of each object: FALSE after converting an old file with @NOLOCAL
    bar,            \* of each object: "none", "broken", "hidden" or the message it shows
    document,       \* whose bar is document.EstEIDNotificationBar, or None
    dialog,         \* the settings dialog of each object
    saving,         \* the object in the middle of setWhitelist() and save(), or None
    last,           \* what the page got last: the answer to a call, or an event
    confirmed,      \* history: the sites listed at the last OK, of each object
    meanwhile       \* history: was a call refused since the dialog was opened

fixed    == <<ui, url, m_pageURL>>
settings == <<userFile, m_whitelist, m_allowLocal, confirmed>>
bars     == <<bar, document>>
vars     == <<fixed, body, alive, settings, bars, dialog, saving, last,
              meanwhile>>

NoCall == [object |-> None, refused |-> "", answer |-> "none"]

Init ==
    /\ ui \in UIs
    /\ url \in Urls /\ m_pageURL = parse(url)
    /\ body = FALSE
    /\ alive = {}
    /\ userFile \in SUBSET Sites
    /\ m_whitelist = [o \in Objects |-> {}]
    /\ m_allowLocal = [o \in Objects |-> TRUE]
    /\ bar = [o \in Objects |-> "none"]
    /\ document = None
    /\ dialog = [o \in Objects |-> Closed]
    /\ saving = None
    /\ last = NoCall
    /\ confirmed = [o \in Objects |-> {}]
    /\ meanwhile = [o \in Objects |-> FALSE]

(* The main thread is in the event loop.                                   *)
MainFree == saving = None

-----------------------------------------------------------------------------
(***************************************************************************)
(* The gate.                                                               *)
(***************************************************************************)

inWhitelist(o, site) == site \in Defaults \union m_whitelist[o]

IsLocal(o) ==
    m_allowLocal[o] /\ (m_pageURL.protocol = "file" \/ m_pageURL.hostname = "localhost")

IsSecure(o) == IsLocal(o) \/ m_pageURL.protocol = "https"

IsWhiteListed(o) == IsLocal(o) \/ inWhitelist(o, m_pageURL.hostname)

(* whitelistRequired(): why it refuses, "" if it does not.                 *)
Refusal(o) ==
    IF ~IsSecure(o) THEN "insecure" ELSE IF ~IsWhiteListed(o) THEN "siteaccess" ELSE ""

(* DisplayNotification(): the bar is made when it is needed first, which   *)
(* breaks it for good if the document has no body, and shown.  (Mutant:    *)
(* a bar that is there is taken to be visible.)                            *)
CreateNotificationBar(o, msg) ==
    /\ bar' = [bar EXCEPT ![o] = IF body THEN msg ELSE "broken"]
    /\ document' = o

DisplayNotification_Once(o, msg) ==
    IF bar[o] = "none" THEN CreateNotificationBar(o, msg) ELSE UNCHANGED bars

DisplayNotification(o, msg) ==
    IF bar[o] = "none" THEN CreateNotificationBar(o, msg)
    ELSE /\ bar' = [bar EXCEPT ![o] = IF @ = "broken" THEN @ ELSE msg]
         /\ UNCHANGED document

(* close() of any bar hides the one the document knows.                    *)
close == [bar EXCEPT ![document] = IF @ = "broken" THEN @ ELSE "hidden"]

-----------------------------------------------------------------------------
(***************************************************************************)
(* The calls: what each one wants, the card's "data", a "pin" to sign with *)
(* (from then on the request is SignSession's) or just "info", and whether *)
(* it reads the card first and can fail at that.  How a page learns of a   *)
(* refusal or a failure (an exception, a code, nothing at all, a callback) *)
(* is left out: errorCode and errorMessage do not tell them from success.  *)
(***************************************************************************)

Call(wants, reads) == [wants |-> wants, reads |-> reads]

property              == Call("data", TRUE)
errorCode             == Call("info", FALSE)
errorMessage          == Call("info", FALSE)
signAsync             == Call("pin", TRUE)
getCertificatesMoz    == Call("data", TRUE)
sign                  == Call("pin", TRUE)
getCertificates       == Call("data", TRUE)
getCertificate        == Call("data", TRUE)
signSK                == Call("pin", TRUE)
signXML               == Call("pin", TRUE)
getSigningCertificate == Call("data", TRUE)
getSignedHash         == Call("pin", TRUE)
selectedCertNumber    == Call("info", FALSE)
prepare               == Call("data", TRUE)
finalize              == Call("pin", TRUE)

GatedCalls ==
    {property, errorCode, errorMessage, signAsync, getCertificatesMoz, sign, getCertificates,
     getCertificate, signSK, signXML, getSigningCertificate, getSignedHash,
     selectedCertNumber, prepare, finalize}

(* (Mutant: a call without the gate.)                                      *)
Refusal_Ungated(o, call) == IF call.wants = "data" THEN "" ELSE Refusal(o)

RefusalOf(o, call) == Refusal(o)

Answered(o, msg, answer) == [object |-> o, refused |-> msg, answer |-> answer]

Gated(o, call) ==
    LET msg == RefusalOf(o, call) IN
    \/ /\ msg # ""
       /\ DisplayNotification(o, msg)
       /\ meanwhile' = [meanwhile EXCEPT ![o] = @ \/ dialog[o].visible]
       /\ last' = Answered(o, msg, "failure")
    \/ /\ msg = ""
       /\ \E answer \in {call.wants} \union (IF call.reads THEN {"failure"} ELSE {}) :
             last' = Answered(o, msg, answer)
       /\ UNCHANGED <<bars, meanwhile>>

(* getVersion(), version, getInfo() and isActive() ask nobody; signXML()   *)
(* reads the card before it comes to the gate and can fail there.          *)
Ungated(o, answer) ==
    /\ last' = Answered(o, "", answer)
    /\ UNCHANGED <<bars, meanwhile>>

Script(o) ==
    /\ o \in alive /\ MainFree
    /\ \/ \E call \in GatedCalls : Gated(o, call)
       \/ \E answer \in {"info", "failure"} : Ungated(o, answer)
    /\ UNCHANGED <<fixed, body, alive, settings, dialog, saving>>

(* m_UI->settingsDialog(); showSettings() is for file: and chrome: only.   *)
Show(o) ==
    /\ dialog' = [dialog EXCEPT ![o] = Opened(ui, @, m_whitelist[o])]
    /\ meanwhile' = IF dialog[o].visible THEN meanwhile ELSE [meanwhile EXCEPT ![o] = FALSE]
    /\ last' = NoCall

showSettings(o) ==
    /\ o \in alive /\ MainFree
    /\ m_pageURL.protocol \in {"file", "chrome"}
    /\ Show(o)
    /\ UNCHANGED <<fixed, body, alive, settings, bars, saving>>

-----------------------------------------------------------------------------
(***************************************************************************)
(* The user: the bar's buttons and the settings dialog.                    *)
(***************************************************************************)

Visible(o) == o \in alive /\ bar[o] \in {"insecure", "siteaccess"}

(* The x of o's bar.                                                       *)
CloseButton(o) ==
    /\ Visible(o) /\ MainFree
    /\ bar' = close
    /\ last' = NoCall
    /\ UNCHANGED <<fixed, body, alive, settings, document, dialog, saving,
                   meanwhile>>

(* The Allow of o's bar: settingsDialog() of the object whose bar the      *)
(* document knows.  (Mutant: the bar is left open.)                        *)
settingsDialog_KeepsBar(c) == Show(c) /\ UNCHANGED bar

settingsDialog(c) == Show(c) /\ bar' = close

AllowButton(o) ==
    /\ Visible(o) /\ MainFree
    /\ settingsDialog(document)
    /\ UNCHANGED <<fixed, body, alive, settings, document, saving>>

Edit(o) ==
    /\ dialog[o].visible /\ MainFree
    /\ \E d \in Added(dialog[o]) \union Deleted(dialog[o]) \union Edited(dialog[o]) :
          dialog' = [dialog EXCEPT ![o] = d]
    /\ last' = NoCall
    /\ UNCHANGED <<fixed, body, alive, settings, bars, saving, meanwhile>>

Cancel(o) ==
    /\ dialog[o].visible /\ MainFree
    /\ dialog' = [dialog EXCEPT ![o] = Closed]
    /\ last' = NoCall
    /\ UNCHANGED <<fixed, body, alive, settings, bars, saving, meanwhile>>

(* OK: setWhitelist(), which the Windows dialog is closed before ...       *)
Ok(o) ==
    /\ dialog[o].visible /\ MainFree
    /\ saving' = o
    /\ m_whitelist' = [m_whitelist EXCEPT ![o] = getWhitelist(dialog[o])]
    /\ confirmed' = [confirmed EXCEPT ![o] = Shown(ui, dialog[o])]
    /\ dialog' = IF ui = "windows" THEN [dialog EXCEPT ![o] = Closed] ELSE dialog
    /\ last' = NoCall
    /\ UNCHANGED <<fixed, body, alive, userFile, m_allowLocal, bars, meanwhile>>

(* ... then save(), which drops what is systemwide.  The GTK dialog closes *)
(* now.                                                                    *)
save ==
    /\ saving # None
    /\ LET sites == m_whitelist[saving] \ Defaults IN
          /\ m_whitelist' = [m_whitelist EXCEPT ![saving] = sites]
          /\ userFile' = sites
    /\ dialog' = [dialog EXCEPT ![saving] = Closed]
    /\ saving' = None
    /\ last' = NoCall
    /\ UNCHANGED <<fixed, body, alive, m_allowLocal, confirmed, bars, meanwhile>>

-----------------------------------------------------------------------------
(***************************************************************************)
(* The document, and the monitor thread.                                   *)
(***************************************************************************)

BodyReady ==
    /\ ~body /\ MainFree
    /\ body' = TRUE
    /\ UNCHANGED <<fixed, alive, settings, bars, dialog, saving, last, meanwhile>>

(* The constructor loads the settings; the first after an update may have  *)
(* converted an old file that says @NOLOCAL.                               *)
Create(o) ==
    /\ o \notin alive /\ MainFree
    /\ alive' = alive \union {o}
    /\ m_whitelist' = [m_whitelist EXCEPT ![o] = userFile]
    /\ \E local \in BOOLEAN : m_allowLocal' = [m_allowLocal EXCEPT ![o] = local]
    /\ confirmed' = [confirmed EXCEPT ![o] = userFile \union Defaults]
    /\ last' = NoCall
    /\ UNCHANGED <<fixed, body, userFile, bars, dialog, saving, meanwhile>>

(* The page is left or loaded again.                                       *)
Leave ==
    /\ MainFree /\ alive # {}
    /\ body' = FALSE
    /\ alive' = {}
    /\ m_whitelist' = [o \in Objects |-> {}]
    /\ m_allowLocal' = [o \in Objects |-> TRUE]
    /\ bar' = [o \in Objects |-> "none"]
    /\ document' = None
    /\ dialog' = [o \in Objects |-> Closed]
    /\ last' = NoCall
    /\ confirmed' = [o \in Objects |-> {}]
    /\ meanwhile' = [o \in Objects |-> FALSE]
    /\ UNCHANGED <<fixed, userFile, saving>>

(* onMessage(): what IsWhiteListed() sees of a list that the main thread   *)
(* is changing is undefined.  (Mutant: every object is told.)              *)
MayHear_All(o) == {TRUE}

MayHear(o) == IF saving = o THEN BOOLEAN ELSE {IsWhiteListed(o)}

onMessage(o) ==
    /\ o \in alive
    /\ TRUE \in MayHear(o)
    /\ last' = Answered(o, "", "event")
    /\ UNCHANGED <<fixed, body, alive, settings, bars, dialog, saving, meanwhile>>

-----------------------------------------------------------------------------

Next ==
    \/ \E o \in Objects :
          \/ Create(o) \/ Script(o) \/ showSettings(o)
          \/ CloseButton(o) \/ AllowButton(o) \/ Edit(o) \/ Cancel(o) \/ Ok(o)
          \/ onMessage(o)
    \/ save \/ BodyReady \/ Leave

Spec == Init /\ [][Next]_vars

-----------------------------------------------------------------------------
(* Every variable has its type.                                            *)
TypeOK ==
    /\ ui \in UIs /\ url \in Urls /\ m_pageURL = parse(url)
    /\ body \in BOOLEAN
    /\ alive \subseteq Objects
    /\ userFile \subseteq Sites
    /\ m_whitelist \in [Objects -> SUBSET Sites]
    /\ m_allowLocal \in [Objects -> BOOLEAN]
    /\ bar \in [Objects -> {"none", "broken", "hidden", "insecure", "siteaccess"}]
    /\ document \in Objects \union {None}
    /\ dialog \in [Objects -> Dialogs]
    /\ saving \in Objects \union {None}
    /\ last \in [object : Objects \union {None},
                 refused : {"", "insecure", "siteaccess"},
                 answer : {"none", "failure", "info", "data", "pin", "event"}]
    /\ confirmed \in [Objects -> SUBSET Sites]
    /\ meanwhile \in [Objects -> BOOLEAN]

(* What the user agreed to is a matter of the document's own host, however *)
(* the code reads the URL.                                                 *)
Local(o) == m_allowLocal[o] /\ (Protocol(url) = "file" \/ Host(url) = "localhost")

Confirmed(o) == Host(url) \in confirmed[o] \union Defaults

(* README:8 "only web pages in whitelist can use the card": whatever the   *)
(* call, a page gets data of the card, or the user asked for a PIN, only   *)
(* over a secure connection and if the user has seen the page's host in    *)
(* the list at the last OK, or it is systemwide, or the page is local.  A  *)
(* URL with an "@" further back is left out: parse() takes what follows it *)
(* for the host, so that the gate judges by another name than the page's.  *)
NoDataWithoutConsent ==
    last.answer \in {"data", "pin"} /\ AtEndsUserInfo(url) =>
        LET o == last.object IN Local(o) \/ (Protocol(url) = "https" /\ Confirmed(o))

(* whitelistRequired(): after a refused call the object's bar is open and  *)
(* says why, unless the document had no body when it was made.             *)
RefusalIsShown == last.refused # "" => bar[last.object] \in {"broken", last.refused}

(* settingsDialog() closes the bar: an open bar says what is true now, not *)
(* what was true before the user changed the list, unless the page called  *)
(* again while the user was at it.                                         *)
BarTellsTheTruth ==
    \A o \in Objects :
        /\ bar[o] = "insecure" => ~IsSecure(o)
        /\ bar[o] = "siteaccess" => IsSecure(o) /\ (~IsWhiteListed(o) \/ meanwhile[o])

(* setWhitelist() and save(): the list in force is the one that the user   *)
(* saw when he pressed OK; what he took from the systemwide list, which    *)
(* only the Windows dialog lets him do, stays in force.                    *)
ListIsInForce ==
    \A o \in alive :
        {s \in Sites : inWhitelist(o, s)}
            = confirmed[o] \union (IF ui = "windows" THEN Defaults ELSE {})

(* onMessage(): a page is told of cards only if its user allowed it to     *)
(* use them, except by a read of the list while OK is changing it; the     *)
(* same URLs are left out.                                                 *)
EventsFollowTheList ==
    last.answer = "event" /\ AtEndsUserInfo(url) =>
        LET o == last.object IN saving = o \/ Local(o) \/ Confirmed(o)
=============================================================================
