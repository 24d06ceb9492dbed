-------------------------- MODULE AccessGateProofs ---------------------------
(***************************************************************************)
(* What is proved about AccessGate, for any page, sites, systemwide list   *)
(* and number of plugin objects: the types, and that the card's data and   *)
(* events go to confirmed sites only.                                      *)
(***************************************************************************)
EXTENDS AccessGate, TLAPS

LEMMA ClosedType == Closed \in Dialogs
BY SitesAssumption DEF Closed, Dialogs

(* What the dialog's operators return.                                     *)
LEMMA DialogTypes ==
    ASSUME NEW u, NEW d \in Dialogs, NEW list \in SUBSET Sites
    PROVE  /\ Closed \in Dialogs
           /\ Opened(u, d, list) \in Dialogs
           /\ Added(d) \subseteq Dialogs /\ Deleted(d) \subseteq Dialogs
           /\ Edited(d) \subseteq Dialogs
           /\ Shown(u, d) \in SUBSET Sites /\ getWhitelist(d) \in SUBSET Sites
<1> USE SitesAssumption
<1>1. Closed \in Dialogs
  BY ClosedType
<1>2. Opened(u, d, list) \in Dialogs
  <2>1. addSites(u, list) \in [Sites -> 0..MaxCopies]
    BY DEF addSites, Least, Count
  <2> QED BY <2>1 DEF Opened, Dialogs
<1>3. ASSUME NEW e \in Dialogs PROVE Added(e) \subseteq Dialogs
  <2> SUFFICES ASSUME NEW s \in Sites, e.rows[s] < MaxCopies
               PROVE  [e EXCEPT !.rows[s] = @ + 1] \in Dialogs
    BY DEF Added
  <2> QED BY DEF Dialogs
<1>4. Deleted(d) \subseteq Dialogs
  <2> SUFFICES ASSUME NEW s \in Sites, d.rows[s] > 0
               PROVE  [d EXCEPT !.rows[s] = @ - 1] \in Dialogs
    BY DEF Deleted, Selectable
  <2> QED BY DEF Dialogs
<1>5. Edited(d) \subseteq Dialogs
  BY <1>3, <1>4 DEF Edited
<1>6. Shown(u, d) \in SUBSET Sites /\ getWhitelist(d) \in SUBSET Sites
  BY DEF Shown, getWhitelist, Selectable
<1> QED BY <1>1, <1>2, <1>3, <1>4, <1>5, <1>6

(* The parts of the state that most actions do not touch.                  *)
SettingsType ==
    /\ userFile \subseteq Sites
    /\ m_whitelist \in [Objects -> SUBSET Sites]
    /\ m_allowLocal \in [Objects -> BOOLEAN]
    /\ confirmed \in [Objects -> SUBSET Sites]
BarsType ==
    /\ bar \in [Objects -> {"none", "broken", "hidden", "insecure", "siteaccess"}]
    /\ document \in Objects \union {None}
DialogType == dialog \in [Objects -> Dialogs] /\ meanwhile \in [Objects -> BOOLEAN]
PlaceType ==
    /\ ui \in UIs /\ url \in Urls /\ m_pageURL = parse(url)
    /\ body \in BOOLEAN /\ alive \subseteq Objects
    /\ saving \in Objects \union {None}
LastType ==
    last \in [object : Objects \union {None},
              refused : {"", "insecure", "siteaccess"},
              answer : {"none", "failure", "info", "data", "pin", "event"}]

LEMMA TypeParts == TypeOK <=> SettingsType /\ BarsType /\ DialogType /\ PlaceType /\ LastType
BY DEF TypeOK, SettingsType, BarsType, DialogType, PlaceType, LastType

LEMMA NoCallType == NoCall \in [object : Objects \union {None},
                                refused : {"", "insecure", "siteaccess"},
                                answer : {"none", "failure", "info", "data", "pin", "event"}]
BY DEF NoCall

(* Every call wants one of three things.                                   *)
LEMMA CallsWant ==
    ASSUME NEW call \in GatedCalls
    PROVE  call.wants \in {"info", "data", "pin"}
BY DEF GatedCalls, Call, property, errorCode, errorMessage, signAsync, getCertificatesMoz,
       sign, getCertificates, getCertificate, signSK, signXML, getSigningCertificate,
       getSignedHash, selectedCertNumber, prepare, finalize

(* whitelistRequired(): a call gets its data only if the gate lets it pass. *)
LEMMA ScriptLast ==
    ASSUME NEW o \in Objects, Script(o)
    PROVE  /\ LastType'
           /\ last'.object = o
           /\ last'.answer # "event"
           /\ last'.answer \in {"data", "pin"} => IsSecure(o) /\ IsWhiteListed(o)
<1>1. CASE \E answer \in {"info", "failure"} : Ungated(o, answer)
  <2> PICK answer \in {"info", "failure"} : Ungated(o, answer)
    BY <1>1
  <2>1. last' = [object |-> o, refused |-> "", answer |-> answer]
    BY DEF Ungated, Answered
  <2> QED BY <2>1 DEF LastType
<1>2. CASE \E call \in GatedCalls : Gated(o, call)
  <2> PICK call \in GatedCalls : Gated(o, call)
    BY <1>2
  <2>1. CASE Refusal(o) # "" /\ last' = Answered(o, Refusal(o), "failure")
    BY <2>1 DEF Answered, LastType, Refusal
  <2>2. CASE /\ Refusal(o) = ""
             /\ \E answer \in {call.wants} \union (IF call.reads THEN {"failure"} ELSE {}) :
                   last' = Answered(o, "", answer)
    <3>1. IsSecure(o) /\ IsWhiteListed(o)
      BY <2>2 DEF Refusal
    <3>2. PICK answer \in {call.wants, "failure"} : last' = Answered(o, "", answer)
      BY <2>2
    <3>3. answer \in {"info", "data", "pin", "failure"}
      BY <3>2, CallsWant
    <3>4. last' = [object |-> o, refused |-> "", answer |-> answer]
      BY <3>2 DEF Answered
    <3> QED BY <3>1, <3>3, <3>4 DEF LastType
  <2> QED BY <2>1, <2>2 DEF Gated, RefusalOf
<1> QED BY <1>1, <1>2 DEF fixed, Script

LEMMA TypeInit == Init => TypeOK
<1> SUFFICES ASSUME Init PROVE TypeOK
  OBVIOUS
<1>1. dialog \in [Objects -> Dialogs]
  BY ClosedType DEF Init
<1>2. /\ m_whitelist \in [Objects -> SUBSET Sites]
      /\ confirmed \in [Objects -> SUBSET Sites]
  BY DEF Init
<1> QED BY <1>1, <1>2, NoCallType DEF Init, TypeOK

(* The moves of the bar and of the dialog that several actions share.      *)
LEMMA DisplayNotificationType ==
    ASSUME BarsType, NEW o \in Objects, NEW msg \in {"insecure", "siteaccess"},
           DisplayNotification(o, msg)
    PROVE  BarsType'
<1>1. CASE bar[o] = "none"
  BY <1>1 DEF BarsType, DisplayNotification, CreateNotificationBar
<1>2. CASE bar[o] # "none"
  BY <1>2 DEF BarsType, DisplayNotification
<1> QED BY <1>1, <1>2

LEMMA closeType ==
    ASSUME BarsType
    PROVE  close \in [Objects -> {"none", "broken", "hidden", "insecure", "siteaccess"}]
BY DEF BarsType, close

LEMMA ShowType ==
    ASSUME DialogType, SettingsType, NEW c, Show(c)
    PROVE  DialogType' /\ last' = NoCall
<1>1. dialog' \in [Objects -> Dialogs]
  <2>1. CASE c \in Objects
    <3>1. Opened(ui, dialog[c], m_whitelist[c]) \in Dialogs
      BY <2>1, DialogTypes DEF DialogType, SettingsType
    <3> QED BY <2>1, <3>1 DEF Show, DialogType
  <2>2. CASE c \notin Objects
    BY <2>2 DEF Show, DialogType
  <2> QED BY <2>1, <2>2
<1>2. meanwhile' \in [Objects -> BOOLEAN]
  BY DEF Show, DialogType
<1> QED BY <1>1, <1>2 DEF Show, DialogType

LEMMA TypeStep == TypeOK /\ [Next]_vars => TypeOK'
<1> SUFFICES ASSUME SettingsType, BarsType, DialogType, PlaceType, LastType, [Next]_vars
             PROVE  /\ SettingsType' /\ BarsType' /\ DialogType'
                    /\ PlaceType' /\ LastType'
  BY TypeParts DEF TypeOK, SettingsType, BarsType, DialogType, PlaceType, LastType
<1>a. last' = NoCall => LastType'
  BY NoCallType DEF LastType
<1>1. ASSUME NEW o \in Objects, Create(o)
      PROVE  SettingsType' /\ BarsType' /\ DialogType' /\ PlaceType' /\ LastType'
  <2>1. SettingsType'
    <3>1. userFile \in SUBSET Sites /\ userFile \union Defaults \in SUBSET Sites
      BY SitesAssumption DEF SettingsType
    <3>2. PICK local \in BOOLEAN : m_allowLocal' = [m_allowLocal EXCEPT ![o] = local]
      BY <1>1 DEF Create
    <3>3. m_allowLocal' \in [Objects -> BOOLEAN]
      BY <3>2 DEF SettingsType
    <3> QED BY <1>1, <3>1, <3>3 DEF Create, SettingsType
  <2> QED BY <1>1, <1>a, <2>1 DEF fixed, Create, bars, BarsType, DialogType, PlaceType
<1>2. ASSUME NEW o \in Objects, Script(o)
      PROVE  SettingsType' /\ BarsType' /\ DialogType' /\ PlaceType' /\ LastType'
  <2>1. SettingsType' /\ PlaceType' /\ LastType' /\ dialog' = dialog
    BY <1>2, ScriptLast DEF fixed, Script, settings, SettingsType, PlaceType
  <2>2. BarsType' /\ meanwhile' \in [Objects -> BOOLEAN]
    <3>1. CASE \E answer \in {"info", "failure"} : Ungated(o, answer)
      BY <3>1 DEF Ungated, bars, BarsType, DialogType
    <3>2. CASE \E call \in GatedCalls : Gated(o, call)
      <4> PICK call \in GatedCalls : Gated(o, call)
        BY <3>2
      <4>1. Refusal(o) \in {"", "insecure", "siteaccess"}
        BY DEF Refusal
      <4>2. CASE bars' = bars /\ meanwhile' = meanwhile
        BY <4>2 DEF bars, BarsType, DialogType
      <4>3. CASE /\ Refusal(o) # "" /\ DisplayNotification(o, Refusal(o))
                 /\ meanwhile' = [meanwhile EXCEPT ![o] = @ \/ dialog[o].visible]
        <5>1. BarsType'
          BY <4>1, <4>3, DisplayNotificationType
        <5>2. dialog[o].visible \in BOOLEAN
          BY DEF DialogType, Dialogs
        <5> QED BY <4>3, <5>1, <5>2, Zenon DEF DialogType
      <4> QED BY <4>2, <4>3 DEF Gated, RefusalOf, bars
    <3> QED BY <1>2, <3>1, <3>2 DEF fixed, Script
  <2> QED BY <2>1, <2>2 DEF DialogType
<1>3. ASSUME NEW o \in Objects, showSettings(o)
      PROVE  SettingsType' /\ BarsType' /\ DialogType' /\ PlaceType' /\ LastType'
  BY <1>3, <1>a, ShowType
  DEF fixed, showSettings, settings, bars, SettingsType, BarsType, PlaceType
<1>4. ASSUME NEW o \in Objects, CloseButton(o)
      PROVE  SettingsType' /\ BarsType' /\ DialogType' /\ PlaceType' /\ LastType'
  BY <1>4, <1>a, closeType
  DEF fixed, CloseButton, settings, SettingsType, BarsType, DialogType, PlaceType
<1>5. ASSUME NEW o \in Objects, AllowButton(o)
      PROVE  SettingsType' /\ BarsType' /\ DialogType' /\ PlaceType' /\ LastType'
  <2>1. DialogType' /\ LastType'
    BY <1>5, <1>a, ShowType DEF AllowButton, settingsDialog
  <2>2. BarsType'
    BY <1>5, closeType DEF AllowButton, settingsDialog, BarsType
  <2> QED BY <1>5, <2>1, <2>2 DEF fixed, AllowButton, settings, SettingsType, PlaceType
<1>6. ASSUME NEW o \in Objects, Edit(o)
      PROVE  SettingsType' /\ BarsType' /\ DialogType' /\ PlaceType' /\ LastType'
  <2>1. PICK d \in Added(dialog[o]) \union Deleted(dialog[o]) \union Edited(dialog[o]) :
               dialog' = [dialog EXCEPT ![o] = d]
    BY <1>6 DEF Edit
  <2>2. d \in Dialogs
    BY DialogTypes, SitesAssumption DEF DialogType
  <2>3. DialogType'
    BY <1>6, <2>1, <2>2 DEF Edit, DialogType
  <2> QED BY <1>6, <1>a, <2>3
          DEF fixed, Edit, settings, bars, SettingsType, BarsType, PlaceType
<1>7. ASSUME NEW o \in Objects, Cancel(o)
      PROVE  SettingsType' /\ BarsType' /\ DialogType' /\ PlaceType' /\ LastType'
  <2>1. Closed \in Dialogs
    BY ClosedType
  <2> QED BY <1>7, <1>a, <2>1
          DEF fixed, Cancel, settings, bars, SettingsType, BarsType, DialogType, PlaceType
<1>8. ASSUME NEW o \in Objects, Ok(o)
      PROVE  SettingsType' /\ BarsType' /\ DialogType' /\ PlaceType' /\ LastType'
  <2>1. /\ Closed \in Dialogs
        /\ getWhitelist(dialog[o]) \in SUBSET Sites
        /\ Shown(ui, dialog[o]) \in SUBSET Sites
    BY DialogTypes, SitesAssumption DEF DialogType
  <2>2. SettingsType'
    BY <1>8, <2>1 DEF Ok, SettingsType
  <2>3. DialogType'
    BY <1>8, <2>1 DEF Ok, DialogType
  <2> QED BY <1>8, <1>a, <2>2, <2>3 DEF fixed, Ok, bars, BarsType, PlaceType
<1>9. CASE save
  <2>1. Closed \in Dialogs
    BY ClosedType
  <2>2. SettingsType'
    <3>1. m_whitelist[saving] \ Defaults \in SUBSET Sites
      BY <1>9 DEF save, SettingsType, PlaceType
    <3> QED BY <1>9, <3>1 DEF save, SettingsType
  <2>3. DialogType'
    BY <1>9, <2>1 DEF save, DialogType
  <2> QED BY <1>9, <1>a, <2>2, <2>3 DEF fixed, save, bars, BarsType, PlaceType
<1>10. CASE BodyReady
  BY <1>10
  DEF fixed, BodyReady, settings, bars, SettingsType, BarsType, DialogType, PlaceType, LastType
<1>11. CASE Leave
  <2>1. Closed \in Dialogs
    BY ClosedType
  <2> QED BY <1>11, <1>a, <2>1
          DEF fixed, Leave, SettingsType, BarsType, DialogType, PlaceType
<1>12. ASSUME NEW o \in Objects, onMessage(o)
      PROVE  SettingsType' /\ BarsType' /\ DialogType' /\ PlaceType' /\ LastType'
  <2>1. LastType'
    BY <1>12 DEF fixed, onMessage, Answered, LastType
  <2> QED BY <1>12, <2>1
          DEF fixed, onMessage, settings, bars, SettingsType, BarsType, DialogType, PlaceType
<1>13. CASE UNCHANGED vars
  BY <1>13
  DEF fixed, vars, settings, bars, SettingsType, BarsType, DialogType, PlaceType, LastType
<1> QED
  BY <1>1, <1>2, <1>3, <1>4, <1>5, <1>6, <1>7, <1>8, <1>9, <1>10, <1>11, <1>12, <1>13
  DEF Next

(* The variables keep their types, however many objects and sites there    *)
(* are.                                                                    *)
THEOREM TypeCorrect == Spec => []TypeOK
BY TypeInit, TypeStep, PTL DEF Spec

-----------------------------------------------------------------------------
(***************************************************************************)
(* The list in force, and what goes to the page by it.                     *)
(***************************************************************************)

(* An action that leaves the lists of the living objects alone.            *)
LEMMA ListStays ==
    ASSUME ListIsInForce, alive' = alive, ui' = ui, m_whitelist' = m_whitelist,
           confirmed' = confirmed
    PROVE  ListIsInForce'
BY DEF ListIsInForce, inWhitelist

(* An action that changes the list of one object, which it may create.     *)
LEMMA ListOfOne ==
    ASSUME ListIsInForce, SettingsType, NEW o \in Objects, alive \subseteq Objects,
           alive' \subseteq alive \union {o}, ui' = ui,
           NEW list, m_whitelist' = [m_whitelist EXCEPT ![o] = list],
           NEW seen, confirmed' = [confirmed EXCEPT ![o] = seen],
           {s \in Sites : s \in Defaults \union list}
               = seen \union (IF ui = "windows" THEN Defaults ELSE {})
    PROVE  ListIsInForce'
<1> SUFFICES ASSUME NEW p \in alive'
             PROVE  {s \in Sites : s \in Defaults \union m_whitelist'[p]}
                        = confirmed'[p] \union (IF ui = "windows" THEN Defaults ELSE {})
  BY DEF ListIsInForce, inWhitelist
<1>1. CASE p = o
  BY <1>1 DEF SettingsType
<1>2. CASE p # o
  <2>1. p \in alive /\ m_whitelist'[p] = m_whitelist[p] /\ confirmed'[p] = confirmed[p]
    BY <1>2 DEF SettingsType
  <2> QED BY <2>1 DEF ListIsInForce, inWhitelist
<1> QED BY <1>1, <1>2

LEMMA ListStep == TypeOK /\ ListIsInForce /\ [Next]_vars => ListIsInForce'
<1> SUFFICES ASSUME TypeOK, ListIsInForce, [Next]_vars PROVE ListIsInForce'
  OBVIOUS
<1> USE TypeParts
<1>1. ASSUME NEW o \in Objects, Create(o) PROVE ListIsInForce'
  <2>1. {s \in Sites : s \in Defaults \union userFile}
            = (userFile \union Defaults) \union (IF ui = "windows" THEN Defaults ELSE {})
    BY SitesAssumption DEF SettingsType
  <2> QED BY <1>1, <2>1, ListOfOne DEF fixed, Create, PlaceType
<1>2. ASSUME NEW o \in Objects, Ok(o) PROVE ListIsInForce'
  <2>1. {s \in Sites : s \in Defaults \union getWhitelist(dialog[o])}
            = Shown(ui, dialog[o]) \union (IF ui = "windows" THEN Defaults ELSE {})
    <3>1. ui \in {"gtk", "windows"}
      BY GateAssumption DEF PlaceType
    <3>2. Selectable(dialog[o]) \subseteq Sites
      BY DEF Selectable
    <3> QED BY <3>1, <3>2, SitesAssumption DEF getWhitelist, Shown
  <2> QED BY <1>2, <2>1, ListOfOne DEF fixed, Ok, PlaceType
<1>3. CASE save
  <2> SUFFICES ASSUME NEW p \in alive
               PROVE  {s \in Sites : s \in Defaults \union m_whitelist'[p]}
                          = confirmed[p] \union (IF ui = "windows" THEN Defaults ELSE {})
    BY <1>3 DEF fixed, save, ListIsInForce, inWhitelist
  <2>1. {s \in Sites : s \in Defaults \union m_whitelist[p]}
            = confirmed[p] \union (IF ui = "windows" THEN Defaults ELSE {})
    BY DEF ListIsInForce, inWhitelist
  <2>2. Defaults \union m_whitelist'[p] = Defaults \union m_whitelist[p]
    BY <1>3 DEF save, SettingsType, PlaceType
  <2> QED BY <2>1, <2>2
<1>4. CASE Leave
  BY <1>4 DEF Leave, ListIsInForce
<1>5. CASE BodyReady \/ UNCHANGED vars
  BY <1>5, ListStays DEF fixed, BodyReady, vars, settings
<1>6. ASSUME NEW o \in Objects,
             \/ Script(o) \/ showSettings(o) \/ CloseButton(o) \/ AllowButton(o)
             \/ Edit(o) \/ Cancel(o) \/ onMessage(o)
      PROVE  ListIsInForce'
  BY <1>6, ListStays
  DEF fixed, Script, showSettings, CloseButton, AllowButton, Edit, Cancel, onMessage, settings
<1> QED BY <1>1, <1>2, <1>3, <1>4, <1>5, <1>6 DEF Next

(* Ok and save(): for every object the list in force is the one that the   *)
(* user saw when he pressed OK, whoever's dialog saves what.               *)
THEOREM ListCorrect == Spec => []ListIsInForce
<1>1. Init => ListIsInForce
  BY DEF Init, ListIsInForce
<1> QED BY <1>1, TypeCorrect, ListStep, PTL DEF Spec

(* UrlParser::parse() finds the URL's own protocol, and its own host unless *)
(* an "@" comes behind the host.                                           *)
LEMMA ParseFindsHost ==
    ASSUME NEW address, Found(address, sep_beg(address)), AtEndsUserInfo(address)
    PROVE  parse(address) = [protocol |-> Protocol(address), hostname |-> Host(address)]
<1>1. host_beg(address) = IF Found(address, at(address)) /\ at(address) < authority_end(address)
                          THEN at(address) + 1 ELSE sep_beg(address) + 1
  BY DEF AtEndsUserInfo, host_beg, at
<1>2. parse(address) = [protocol |-> Name(address, 1, sep_beg(address)),
                        hostname |-> Name(address, host_beg(address), host_end(address))]
  BY DEF parse
<1>3. Host(address) = Name(address, host_beg(address), host_end(address))
  BY <1>1 DEF Host, host_end
<1>4. Protocol(address) = Name(address, 1, sep_beg(address))
  BY DEF Protocol
<1> QED BY <1>2, <1>3, <1>4

(* A page that passes a check of the gate has a URL that parse() could     *)
(* take apart, and the gate goes by the names in it.                       *)
LEMMA CheckedByItsNames ==
    ASSUME TypeOK, NEW o \in alive, IsWhiteListed(o) \/ IsSecure(o), AtEndsUserInfo(url)
    PROVE  m_pageURL.protocol = Protocol(url) /\ m_pageURL.hostname = Host(url)
<1>1. m_pageURL = parse(url)
  BY DEF TypeOK
<1>2. Found(url, sep_beg(url))
  <2> SUFFICES ASSUME ~Found(url, sep_beg(url)) PROVE FALSE
    OBVIOUS
  <2>1. parse(url) = [protocol |-> "", hostname |-> ""]
    BY DEF parse
  <2>2. m_pageURL = [protocol |-> "", hostname |-> ""]
    BY <1>1, <2>1
  <2>3. m_pageURL.protocol = "" /\ m_pageURL.hostname = ""
    BY <2>2
  <2>4. ~IsLocal(o) /\ ~IsSecure(o)
    BY <2>3 DEF IsLocal, IsSecure
  <2>5. inWhitelist(o, "")
    BY <2>3, <2>4 DEF IsWhiteListed
  <2>6. "" \in Sites
    BY <2>5, SitesAssumption DEF TypeOK, inWhitelist
  <2> QED BY <2>6, GateAssumption DEF GateAssumption
<1>3. parse(url) = [protocol |-> Protocol(url), hostname |-> Host(url)]
  BY <1>2, ParseFindsHost
<1>4. m_pageURL = [protocol |-> Protocol(url), hostname |-> Host(url)]
  BY <1>1, <1>3
<1> QED BY <1>4

(* A host that the gate lets pass is one that the user has confirmed.      *)
LEMMA PassedMeansConfirmed ==
    ASSUME TypeOK, ListIsInForce, NEW o \in alive, IsWhiteListed(o), AtEndsUserInfo(url)
    PROVE  Local(o) \/ Confirmed(o)
<1>1. m_pageURL.protocol = Protocol(url) /\ m_pageURL.hostname = Host(url)
  BY CheckedByItsNames
<1> SUFFICES ASSUME inWhitelist(o, Host(url)) PROVE Host(url) \in confirmed[o] \union Defaults
  BY <1>1 DEF IsWhiteListed, IsLocal, Local, Confirmed
<1>2. Host(url) \in Sites
  BY SitesAssumption DEF TypeOK, inWhitelist
<1> QED BY <1>2 DEF ListIsInForce

LEMMA NothingYet == Init => last.answer = "none"
<1>1. Init => last = NoCall
  BY DEF Init
<1>2. NoCall.answer = "none"
  BY DEF NoCall
<1> QED BY <1>1, <1>2

(* Every step but a call of the page and an event clears or keeps what it  *)
(* got last; one that keeps it keeps all it is about.                      *)
LEMMA LastStep ==
    ASSUME [Next]_vars
    PROVE  \/ \E o \in Objects : Script(o) \/ onMessage(o)
           \/ last' = NoCall
           \/ UNCHANGED <<url, m_pageURL, alive, settings, bar, saving, last>>
BY DEF fixed, Next, vars, bars, Create, showSettings, Show, CloseButton, AllowButton, settingsDialog,
       Edit, Cancel, Ok, save, BodyReady, Leave

LEMMA ConsentStep ==
    TypeOK /\ ListIsInForce /\ NoDataWithoutConsent /\ [Next]_vars => NoDataWithoutConsent'
<1> SUFFICES ASSUME TypeOK, ListIsInForce, NoDataWithoutConsent, [Next]_vars
             PROVE  NoDataWithoutConsent'
  OBVIOUS
<1>1. ASSUME NEW o \in Objects, Script(o) PROVE NoDataWithoutConsent'
  <2> SUFFICES ASSUME last'.answer \in {"data", "pin"}, AtEndsUserInfo(url)
               PROVE  Local(o)' \/ (Protocol(url)' = "https" /\ Confirmed(o)')
    BY <1>1, ScriptLast DEF Script, fixed, NoDataWithoutConsent
  <2>1. o \in alive /\ IsSecure(o) /\ IsWhiteListed(o)
    BY <1>1, ScriptLast DEF Script
  <2>2. Local(o) \/ Confirmed(o)
    BY <2>1, PassedMeansConfirmed
  <2>3. Local(o) \/ Protocol(url) = "https"
    <3>1. m_pageURL.protocol = Protocol(url) /\ m_pageURL.hostname = Host(url)
      BY <2>1, CheckedByItsNames
    <3> QED BY <2>1, <3>1 DEF IsSecure, IsLocal, Local
  <2> QED BY <1>1, <2>2, <2>3 DEF Script, fixed, settings, Local, Confirmed
<1>2. ASSUME NEW o \in Objects, onMessage(o) PROVE NoDataWithoutConsent'
  BY <1>2 DEF fixed, onMessage, Answered, NoDataWithoutConsent
<1>3. CASE last' = NoCall
  BY <1>3 DEF NoCall, NoDataWithoutConsent
<1>4. CASE UNCHANGED <<url, m_pageURL, alive, settings, bar, saving, last>>
  BY <1>4 DEF NoDataWithoutConsent, Local, Confirmed, settings
<1> QED BY <1>1, <1>2, <1>3, <1>4, LastStep

(* README:8: data of the card and requests for a PIN go only to secure     *)
(* pages of hosts the user has confirmed, and to local pages, whatever the *)
(* URLs, as long as an "@" only closes the username:password@ part.        *)
THEOREM ConsentCorrect == Spec => []NoDataWithoutConsent
<1>1. Init => NoDataWithoutConsent
  BY NothingYet DEF NoDataWithoutConsent
<1> QED BY <1>1, TypeCorrect, ListCorrect, ConsentStep, PTL DEF Spec

LEMMA EventsStep ==
    TypeOK /\ ListIsInForce /\ EventsFollowTheList /\ [Next]_vars => EventsFollowTheList'
<1> SUFFICES ASSUME TypeOK, ListIsInForce, EventsFollowTheList, [Next]_vars
             PROVE  EventsFollowTheList'
  OBVIOUS
<1>1. ASSUME NEW o \in Objects, Script(o) PROVE EventsFollowTheList'
  BY <1>1, ScriptLast DEF EventsFollowTheList
<1>2. ASSUME NEW o \in Objects, onMessage(o) PROVE EventsFollowTheList'
  <2>1. AtEndsUserInfo(url) => saving = o \/ Local(o) \/ Confirmed(o)
    <3>1. saving = o \/ IsWhiteListed(o)
      BY <1>2 DEF fixed, onMessage, MayHear
    <3> QED BY <1>2, <3>1, PassedMeansConfirmed DEF fixed, onMessage
  <2> QED BY <1>2, <2>1 DEF fixed, onMessage, Answered, EventsFollowTheList, Local, Confirmed, settings
<1>3. CASE last' = NoCall
  BY <1>3 DEF NoCall, EventsFollowTheList
<1>4. CASE UNCHANGED <<url, m_pageURL, alive, settings, bar, saving, last>>
  BY <1>4 DEF EventsFollowTheList, Local, Confirmed, settings
<1> QED BY <1>1, <1>2, <1>3, <1>4, LastStep

(* onMessage(): a page is told of cards only if its host is confirmed,     *)
(* outside the read that races with OK.                                    *)
THEOREM EventsCorrect == Spec => []EventsFollowTheList
<1>1. Init => EventsFollowTheList
  BY NothingYet DEF EventsFollowTheList
<1> QED BY <1>1, TypeCorrect, ListCorrect, EventsStep, PTL DEF Spec

-----------------------------------------------------------------------------
(***************************************************************************)
(* The bars.                                                               *)
(***************************************************************************)

(* DisplayNotification(): the bar says why, or is broken.                  *)
LEMMA DisplayNotificationShows ==
    ASSUME BarsType, NEW o \in Objects, NEW msg, DisplayNotification(o, msg)
    PROVE  bar'[o] \in {"broken", msg} /\ \A p \in Objects \ {o} : bar'[p] = bar[p]
<1>1. CASE bar[o] = "none"
  BY <1>1 DEF BarsType, DisplayNotification, CreateNotificationBar
<1>2. CASE bar[o] # "none"
  BY <1>2 DEF BarsType, DisplayNotification
<1> QED BY <1>1, <1>2

LEMMA RefusalStep == TypeOK /\ RefusalIsShown /\ [Next]_vars => RefusalIsShown'
<1> SUFFICES ASSUME TypeOK, RefusalIsShown, [Next]_vars PROVE RefusalIsShown'
  OBVIOUS
<1> USE TypeParts
<1>1. ASSUME NEW o \in Objects, Script(o) PROVE RefusalIsShown'
  <2>1. CASE last'.refused = ""
    BY <2>1 DEF RefusalIsShown
  <2>2. ASSUME NEW call \in GatedCalls, Gated(o, call), Refusal(o) # ""
        PROVE  RefusalIsShown'
    <3>1. last' = [object |-> o, refused |-> Refusal(o), answer |-> "failure"]
      BY <2>2 DEF Gated, RefusalOf, Answered
    <3>2. bar'[o] \in {"broken", Refusal(o)}
      BY <2>2, DisplayNotificationShows DEF Gated, RefusalOf
    <3> QED BY <3>1, <3>2 DEF RefusalIsShown
  <2>3. ASSUME NEW call \in GatedCalls, Gated(o, call), Refusal(o) = ""
        PROVE  RefusalIsShown'
    <3>1. PICK answer : last' = [object |-> o, refused |-> "", answer |-> answer]
      BY <2>3 DEF Gated, RefusalOf, Answered
    <3> QED BY <3>1, <2>1
  <2>4. ASSUME NEW answer, Ungated(o, answer) PROVE RefusalIsShown'
    <3>1. last' = [object |-> o, refused |-> "", answer |-> answer]
      BY <2>4 DEF Ungated, Answered
    <3> QED BY <3>1, <2>1
  <2> QED BY <1>1, <2>2, <2>3, <2>4 DEF fixed, Script
<1>2. ASSUME NEW o \in Objects, onMessage(o) PROVE RefusalIsShown'
  BY <1>2 DEF fixed, onMessage, Answered, RefusalIsShown
<1>3. CASE last' = NoCall
  BY <1>3 DEF NoCall, RefusalIsShown
<1>4. CASE UNCHANGED <<url, m_pageURL, alive, settings, bar, saving, last>>
  BY <1>4 DEF RefusalIsShown
<1> QED BY <1>1, <1>2, <1>3, <1>4, LastStep

(* whitelistRequired(): a refused page sees why, unless its document had   *)
(* no body when the bar was made.                                          *)
THEOREM RefusalCorrect == Spec => []RefusalIsShown
<1>1. Init => RefusalIsShown
  <2>1. Init => last = NoCall
    BY DEF Init
  <2>2. NoCall.refused = ""
    BY DEF NoCall
  <2> QED BY <2>1, <2>2 DEF RefusalIsShown
<1> QED BY <1>1, TypeCorrect, RefusalStep, PTL DEF Spec

(* What makes BarTellsTheTruth inductive: a bar exists for living objects  *)
(* only, a page that can be allowed is not local, and a refusal shown      *)
(* while the object's dialog is open came after the dialog was opened.     *)
BarTrue(o) ==
    /\ o \notin alive => bar[o] = "none"
    /\ bar[o] = "insecure" => ~IsSecure(o)
    /\ bar[o] = "siteaccess" =>
          /\ IsSecure(o) /\ ~IsLocal(o)
          /\ ~IsWhiteListed(o) \/ meanwhile[o]
          /\ dialog[o].visible => meanwhile[o]

BarsTrue == document \in alive \union {None} /\ \A o \in Objects : BarTrue(o)

(* A bar that a step hides or leaves as it is says nothing new.            *)
LEMMA BarStays ==
    ASSUME NEW o \in Objects, BarTrue(o), alive \subseteq alive', m_pageURL' = m_pageURL,
           \/ bar'[o] = bar[o]
           \/ o \in alive' /\ bar'[o] \in {"hidden", "broken"},
           m_allowLocal'[o] = m_allowLocal[o],
           m_whitelist'[o] = m_whitelist[o] \/ meanwhile[o] \/ bar'[o] # "siteaccess",
           meanwhile'[o] = meanwhile[o] \/ bar'[o] # "siteaccess",
           (dialog'[o].visible => dialog[o].visible) \/ bar'[o] # "siteaccess"
    PROVE  BarTrue(o)'
BY DEF BarTrue, IsSecure, IsLocal, IsWhiteListed, inWhitelist

(* close() hides the bar the document knows and leaves the others.         *)
LEMMA closeHides ==
    ASSUME BarsType, BarsTrue, bar' = close, NEW p \in Objects
    PROVE  \/ bar'[p] = bar[p] /\ p # document
           \/ p \in alive /\ bar'[p] \in {"hidden", "broken"}
BY GateAssumption DEF BarsType, BarsTrue, close

LEMMA BarsStep == TypeOK /\ BarsTrue /\ [Next]_vars => BarsTrue'
<1> SUFFICES ASSUME TypeOK, BarsTrue, [Next]_vars PROVE BarsTrue'
  OBVIOUS
<1> USE TypeParts
<1>1. ASSUME NEW o \in Objects, Create(o) PROVE BarsTrue'
  <2>1. ASSUME NEW p \in Objects PROVE BarTrue(p)'
    <3>1. CASE p = o
      BY <1>1, <3>1 DEF Create, bars, BarsTrue, BarTrue
    <3>2. CASE p # o
      BY <1>1, <3>2, BarStays DEF fixed, Create, bars, BarsTrue, SettingsType
    <3> QED BY <3>1, <3>2
  <2> QED BY <1>1, <2>1 DEF Create, bars, BarsTrue
<1>2. ASSUME NEW o \in Objects, Script(o) PROVE BarsTrue'
  <2>1. ASSUME NEW call \in GatedCalls, Gated(o, call), Refusal(o) # "" PROVE BarsTrue'
    <3>1. /\ bar'[o] \in {"broken", Refusal(o)}
          /\ \A p \in Objects \ {o} : bar'[p] = bar[p]
      BY <2>1, DisplayNotificationShows DEF Gated, RefusalOf
    <3>2. document' \in {document, o}
      BY <2>1 DEF Gated, RefusalOf, DisplayNotification, CreateNotificationBar
    <3>3. meanwhile' = [meanwhile EXCEPT ![o] = @ \/ dialog[o].visible]
      BY <2>1 DEF Gated, RefusalOf
    <3>4. BarTrue(o)'
      <4>1. meanwhile'[o] <=> meanwhile[o] \/ dialog[o].visible
        BY <3>3 DEF DialogType
      <4>2. /\ IsSecure(o)' <=> IsSecure(o)
            /\ IsLocal(o)' <=> IsLocal(o)
            /\ IsWhiteListed(o)' <=> IsWhiteListed(o)
        BY <1>2 DEF fixed, Script, settings, IsSecure, IsLocal, IsWhiteListed, inWhitelist
      <4>3. /\ bar'[o] = "insecure" => ~IsSecure(o)
            /\ bar'[o] = "siteaccess" => IsSecure(o) /\ ~IsWhiteListed(o)
        BY <3>1 DEF Refusal
      <4>4. bar'[o] = "siteaccess" => ~IsLocal(o)
        BY <4>3 DEF IsWhiteListed
      <4> QED BY <1>2, <4>1, <4>2, <4>3, <4>4 DEF Script, BarTrue
    <3>5. ASSUME NEW p \in Objects \ {o} PROVE BarTrue(p)'
      BY <1>2, <3>1, <3>3, <3>5, BarStays DEF fixed, Script, settings, BarsTrue, DialogType
    <3> QED BY <1>2, <3>2, <3>4, <3>5 DEF Script, BarsTrue
  <2>2. CASE UNCHANGED <<bars, meanwhile>>
    BY <1>2, <2>2 DEF fixed, Script, settings, bars, BarsTrue, BarTrue, IsSecure, IsLocal,
                      IsWhiteListed, inWhitelist
  <2> QED BY <1>2, <2>1, <2>2 DEF fixed, Script, Gated, RefusalOf, Ungated
<1>3. ASSUME NEW o \in Objects, showSettings(o) PROVE BarsTrue'
  <2>1. ASSUME NEW p \in Objects PROVE BarTrue(p)'
    <3>1. CASE p = o
      <4>1. bar[o] # "siteaccess"
        BY <1>3 DEF showSettings, BarsTrue, BarTrue, IsSecure
      <4> QED BY <1>3, <3>1, <4>1, BarStays DEF fixed, showSettings, settings, bars, BarsTrue
    <3>2. CASE p # o
      <4>1. dialog'[p] = dialog[p] /\ meanwhile'[p] = meanwhile[p]
        BY <1>3, <3>2 DEF showSettings, Show, DialogType
      <4> QED BY <1>3, <4>1, BarStays DEF fixed, showSettings, settings, bars, BarsTrue
    <3> QED BY <3>1, <3>2
  <2> QED BY <1>3, <2>1 DEF showSettings, bars, BarsTrue
<1>4. ASSUME NEW o \in Objects, CloseButton(o) PROVE BarsTrue'
  <2>1. ASSUME NEW p \in Objects PROVE BarTrue(p)'
    BY <1>4, closeHides, BarStays DEF fixed, CloseButton, settings, BarsTrue
  <2> QED BY <1>4, <2>1 DEF CloseButton, BarsTrue
<1>5. ASSUME NEW o \in Objects, AllowButton(o) PROVE BarsTrue'
  <2>1. ASSUME NEW p \in Objects PROVE BarTrue(p)'
    <3>1. \/ bar'[p] = bar[p] /\ p # document
          \/ p \in alive /\ bar'[p] \in {"hidden", "broken"}
      BY <1>5, closeHides DEF AllowButton, settingsDialog
    <3>2. CASE bar'[p] = bar[p] /\ p # document
      <4>1. dialog'[p] = dialog[p] /\ meanwhile'[p] = meanwhile[p]
        BY <1>5, <3>2 DEF AllowButton, settingsDialog, Show, DialogType
      <4> QED BY <1>5, <3>2, <4>1, BarStays DEF fixed, AllowButton, settings, BarsTrue
    <3>3. CASE p \in alive /\ bar'[p] \in {"hidden", "broken"}
      BY <1>5, <3>3, BarStays DEF fixed, AllowButton, settings, BarsTrue
    <3> QED BY <3>1, <3>2, <3>3
  <2> QED BY <1>5, <2>1 DEF AllowButton, BarsTrue
<1>6. ASSUME NEW o \in Objects, Edit(o) PROVE BarsTrue'
  <2>1. ASSUME NEW p \in Objects PROVE BarTrue(p)'
    <3>1. dialog'[p].visible => dialog[p].visible
      BY <1>6 DEF Edit, DialogType
    <3> QED BY <1>6, <3>1, BarStays DEF fixed, Edit, settings, bars, BarsTrue
  <2> QED BY <1>6, <2>1 DEF Edit, bars, BarsTrue
<1>7. ASSUME NEW o \in Objects, Cancel(o) PROVE BarsTrue'
  <2>1. ASSUME NEW p \in Objects PROVE BarTrue(p)'
    <3>1. dialog'[p].visible => dialog[p].visible
      BY <1>7 DEF Cancel, DialogType, Closed
    <3> QED BY <1>7, <3>1, BarStays DEF fixed, Cancel, settings, bars, BarsTrue
  <2> QED BY <1>7, <2>1 DEF Cancel, bars, BarsTrue
<1>8. ASSUME NEW o \in Objects, Ok(o) PROVE BarsTrue'
  <2>1. ASSUME NEW p \in Objects PROVE BarTrue(p)'
    <3>1. dialog'[p].visible => dialog[p].visible
      BY <1>8 DEF Ok, DialogType, Closed
    <3>2. m_whitelist'[p] = m_whitelist[p] \/ meanwhile[p] \/ bar'[p] # "siteaccess"
      <4>1. CASE p = o
        BY <1>8, <4>1 DEF Ok, bars, BarsTrue, BarTrue
      <4>2. CASE p # o
        BY <1>8, <4>2 DEF Ok, SettingsType
      <4> QED BY <4>1, <4>2
    <3> QED BY <1>8, <3>1, <3>2, BarStays DEF fixed, Ok, bars, BarsTrue
  <2> QED BY <1>8, <2>1 DEF Ok, bars, BarsTrue
<1>9. CASE save
  <2>1. ASSUME NEW p \in Objects PROVE BarTrue(p)'
    <3>1. dialog'[p].visible => dialog[p].visible
      BY <1>9 DEF save, DialogType, Closed
    <3>2. Defaults \union m_whitelist'[p] = Defaults \union m_whitelist[p]
      BY <1>9 DEF save, SettingsType, PlaceType
    <3>3. IsWhiteListed(p)' <=> IsWhiteListed(p)
      BY <1>9, <3>2 DEF fixed, save, IsWhiteListed, inWhitelist, IsLocal
    <3> QED BY <1>9, <3>1, <3>3 DEF fixed, save, bars, BarsTrue, BarTrue, IsSecure, IsLocal
  <2> QED BY <1>9, <2>1 DEF save, bars, BarsTrue
<1>10. CASE BodyReady \/ UNCHANGED vars
  <2>1. ASSUME NEW p \in Objects PROVE BarTrue(p)'
    BY <1>10, BarStays DEF fixed, BodyReady, vars, settings, bars, BarsTrue
  <2> QED BY <1>10, <2>1 DEF BodyReady, vars, bars, BarsTrue
<1>11. CASE Leave
  BY <1>11 DEF Leave, BarsTrue, BarTrue
<1>12. ASSUME NEW o \in Objects, onMessage(o) PROVE BarsTrue'
  <2>1. ASSUME NEW p \in Objects PROVE BarTrue(p)'
    BY <1>12, BarStays DEF fixed, onMessage, settings, bars, BarsTrue
  <2> QED BY <1>12, <2>1 DEF fixed, onMessage, bars, BarsTrue
<1> QED
  BY <1>1, <1>2, <1>3, <1>4, <1>5, <1>6, <1>7, <1>8, <1>9, <1>10, <1>11, <1>12 DEF Next

(* settingsDialog() closes the bar: an open bar is true of the list in     *)
(* force, unless the page called while the user was changing it.           *)
THEOREM BarCorrect == Spec => []BarTellsTheTruth
<1>1. Init => BarsTrue
  BY DEF Init, BarsTrue, BarTrue
<1>2. BarsTrue => BarTellsTheTruth
  BY DEF BarsTrue, BarTrue, BarTellsTheTruth
<1> QED BY <1>1, <1>2, TypeCorrect, BarsStep, PTL DEF Spec
=============================================================================
