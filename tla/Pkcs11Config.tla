---------------------------- MODULE Pkcs11Config ----------------------------
(***************************************************************************)
(* How the Mozilla extension sets up the ID card when a window is loaded   *)
(* (Mozilla/chrome/content/config.js, esteid.js and modules/global.jsm):   *)
(* it picks a PKCS#11 library, replaces the security modules it recognises *)
(* by one of its own, imports the CA certificates, and asks for a restart. *)
(*                                                                         *)
(* JavaScript is on one thread, but the old interface to the modules asks  *)
(* the user, and another window can be loaded while that dialog is open.   *)
(* The library, the preference and the database of modules do not change   *)
(* by other hands while a configuration runs.                              *)
(***************************************************************************)
EXTENDS Naturals, Sequences, SequencesExt

CONSTANTS
    Windows, Names, Libs, CaCerts,
    EstEidModName,   \* the name of the extension's own module
    Recognized,      \* the libraries that the pattern for module.libName matches
    ModuleDlls,      \* the platform's libraries, in order of preference
    CertDirs,        \* what certDir can be
    Versions,        \* of the browser and of the platform, see Version
    NULL

Version == [shared   : BOOLEAN,   \* has it JavaScript modules: one esteidglobal
            sane     : BOOLEAN,   \* has it the "sane interface (Firefox 3.5 and later)"
            gBrowser : BOOLEAN,   \* a browser, not a mail reader
            known    : BOOLEAN]   \* is it a platform with libraries

ASSUME ConfigAssumption ==
    /\ EstEidModName \in Names /\ Recognized \subseteq Libs
    /\ ModuleDlls \in Seq(Libs) /\ Versions \subseteq Version
    /\ CertDirs \subseteq {NULL} \cup SUBSET (CaCerts \cup {"bad"})
    /\ NULL \notin Libs \cup [libName : Libs, friendly : BOOLEAN]

(* A browser without JavaScript modules is the older: esteid.js falls back *)
(* to one esteidglobal per window where it is "too old".                   *)
ASSUME SaneIsShared == \A v \in Versions : v.sane => v.shared

VARIABLES
    version,     \* never changed
    readable,    \* the libraries on the disk
    prefModule,  \* esteid.pkcs11module, or NULL
    certDir,     \* the certificates in the directory, "bad" a file that is none; or NULL
    secmoddb,    \* the database of security modules: name -> [libName, friendly]
    certdb,      \* the trust of a CA certificate: "absent", "C,C,P" or "edited"
    configured,  \* esteidglobal.isConfigured, where it is shared
    window,      \* of a window: is it open, its icon, its restart notification
    stack,       \* the windows that run ConfigureEstEID, the one that runs last
    unloaded,    \* the libraries of modules removed in this run of the browser
    untold,      \* history: those of them that it was told to load again and
                 \*   about which no window has said anything
    ended        \* history: what the last configuration said ("fine", "restart",
                 \*   "error"), or "stale" when its inputs have changed since

vars == <<version, readable, prefModule, certDir, secmoddb, certdb, configured, window,
          stack, unloaded, untold, ended>>
inputs == <<readable, prefModule, certDir>>

ClosedWindow == [open |-> FALSE, icon |-> "none", bar |-> FALSE]

Init ==
    /\ version \in Versions
    /\ readable \in SUBSET Libs
    /\ prefModule \in {NULL} \cup Libs
    /\ certDir \in CertDirs
    /\ secmoddb \in [Names -> {NULL} \cup [libName : Libs, friendly : BOOLEAN]]
    /\ certdb \in [CaCerts -> {"absent", "edited"}]
    /\ configured = FALSE
    /\ window = [w \in Windows |-> ClosedWindow]
    /\ stack = <<>>
    /\ unloaded = {}
    /\ untold = {}
    /\ ended = "stale"

-----------------------------------------------------------------------------
(***************************************************************************)
(* What ConfigureEstEID() finds when it starts.                            *)
(***************************************************************************)

(* The first library of the list that exists; the preference replaces the  *)
(* list.                                                                   *)
moduleDlls == IF prefModule # NULL THEN <<prefModule>> ELSE ModuleDlls
Picked(i) == moduleDlls[i] \in readable /\ \A j \in 1..(i - 1) : moduleDlls[j] \notin readable
EstEidDll ==
    IF \E i \in DOMAIN moduleDlls : Picked(i)
    THEN moduleDlls[CHOOSE i \in DOMAIN moduleDlls : Picked(i)]
    ELSE NULL

(* The module the extension wants, as it is in the database.               *)
Ours(n) == n = EstEidModName /\ secmoddb[n].libName = EstEidDll
allSlotsFriendly(n) == secmoddb[n].friendly

Listed == {n \in Names : secmoddb[n] # NULL}
modulesToRemove_Unrecognized ==   \* mutant: every other module than ours
    {n \in Listed : IF Ours(n) THEN ~ allSlotsFriendly(n) ELSE secmoddb[n].libName # EstEidDll}
modulesToRemove ==
    {n \in Listed : IF Ours(n) THEN ~ allSlotsFriendly(n)
                    ELSE n = EstEidModName \/ secmoddb[n].libName \in Recognized}
needtoload_NoDll ==   \* mutant: without looking whether a library was found
    ~ \E n \in Listed : Ours(n) /\ allSlotsFriendly(n)
needtoload == EstEidDll # NULL /\ ~ \E n \in Listed : Ours(n) /\ allSlotsFriendly(n)

(* A library can not be loaded a second time.                              *)
restartNeeded_Unfriendly ==   \* mutant: not for a module under another name
    \E n \in modulesToRemove : Ours(n)
restartNeeded == \E n \in modulesToRemove : secmoddb[n].libName = EstEidDll

Missing == IF certDir = NULL THEN {} ELSE {c \in certDir \cap CaCerts : certdb[c] = "absent"}

(* The call of a window; err is errflag so far.                            *)
Call(w, err) ==
    [w |-> w, remove |-> modulesToRemove, load |-> needtoload, dll |-> EstEidDll,
     restart |-> restartNeeded, err |-> err \/ EstEidDll = NULL]

(* The user is asked before a module is removed or added.                  *)
InDialog(call) == ~ version.sane /\ (call.remove # {} \/ call.load)

-----------------------------------------------------------------------------
(* LoadEstEID() of a new window w.  plugin: is the plugin installed.       *)
LoadEstEID(w) ==
    /\ ~ window[w].open
    /\ stack # <<>> => InDialog(Last(stack))
    /\ \E plugin \in BOOLEAN :
         LET err == version.gBrowser /\ ~ plugin
             Icon(e) == [open |-> TRUE, bar |-> FALSE,
                         icon |-> IF e THEN "error" ELSE "normal"]
             isConfigured == version.shared /\ configured
         IN  \/ /\ isConfigured
                /\ window' = [window EXCEPT ![w] = Icon(err)]
                /\ UNCHANGED <<configured, stack, ended>>
             \/ /\ ~ isConfigured /\ ~ version.known
                /\ window' = [window EXCEPT ![w] = Icon(TRUE)]
                /\ configured' = TRUE /\ ended' = "error"
                /\ UNCHANGED stack
             \/ /\ ~ isConfigured /\ version.known
                /\ window' = [window EXCEPT ![w].open = TRUE]
                /\ stack' = Append(stack, Call(w, err))
                /\ UNCHANGED <<configured, ended>>
    /\ UNCHANGED <<version, inputs, secmoddb, certdb, unloaded, untold>>

Top == Last(stack)
Update(call) == Append(Front(stack), call)

(* deleteModule() or deletemodule(), by name: one of the modules that were *)
(* marked.  That it failed is only an error in the log.                    *)
RemoveModule ==
    /\ stack # <<>> /\ Top.remove # {}
    /\ \E n \in Top.remove :
         \/ /\ secmoddb[n] # NULL
            /\ secmoddb' = [secmoddb EXCEPT ![n] = NULL]
            /\ unloaded' = unloaded \cup {secmoddb[n].libName}
            /\ stack' = Update([Top EXCEPT !.remove = @ \ {n}])
         \/ /\ stack' = Update([Top EXCEPT !.remove = @ \ {n}, !.err = TRUE])
            /\ UNCHANGED <<secmoddb, unloaded>>
    /\ UNCHANGED <<version, inputs, certdb, configured, window, untold, ended>>

(* addModule() or addmodule(), with the flag that makes the slots friendly. *)
NewModule_Unfriendly(dll) == [libName |-> dll, friendly |-> FALSE]   \* mutant: no flag
NewModule(dll) == [libName |-> dll, friendly |-> TRUE]

AddModule ==
    /\ stack # <<>> /\ Top.remove = {} /\ Top.load
    /\ \/ /\ secmoddb[EstEidModName] = NULL
          /\ secmoddb' = [secmoddb EXCEPT ![EstEidModName] = NewModule(Top.dll)]
          /\ untold' = untold \cup ({Top.dll} \cap unloaded)
          /\ stack' = Update([Top EXCEPT !.load = FALSE])
       \/ /\ stack' = Update([Top EXCEPT !.load = FALSE, !.err = TRUE])
          /\ UNCHANGED <<secmoddb, untold>>
    /\ UNCHANGED <<version, inputs, certdb, configured, window, unloaded, ended>>

(* The certificates, requestRestart() and the end of LoadEstEID().  threw: *)
(* reading the certificate database or a file threw, which ends            *)
(* ConfigureEstEID(); a certificate that is not added is only an error.    *)
FinishConfigure ==
    /\ stack # <<>> /\ Top.remove = {} /\ ~ Top.load
    /\ \E threw \in BOOLEAN, added \in SUBSET Missing :
         LET asked == Top.restart /\ ~ threw
             err == \/ Top.err \/ threw \/ certDir = NULL \/ added # Missing
                    \/ "bad" \in certDir
                    \/ asked /\ ~ version.gBrowser
         IN  /\ certdb' = [c \in CaCerts |-> IF c \in added THEN "C,C,P" ELSE certdb[c]]
             /\ window' = [window EXCEPT ![Top.w] =
                               [open |-> TRUE, bar |-> asked /\ version.gBrowser,
                                icon |-> IF err THEN "error" ELSE "normal"]]
             /\ untold' = IF err \/ asked THEN {} ELSE untold
             /\ ended' = IF err THEN "error" ELSE IF asked THEN "restart" ELSE "fine"
    /\ configured' = TRUE
    /\ stack' = Front(stack)
    /\ UNCHANGED <<version, inputs, secmoddb, unloaded>>

-----------------------------------------------------------------------------
(***************************************************************************)
(* The user and the system.                                                *)
(***************************************************************************)

Quit ==
    /\ configured' = FALSE
    /\ window' = [w \in Windows |-> ClosedWindow]
    /\ stack' = <<>>
    /\ unloaded' = {} /\ untold' = {}
    /\ UNCHANGED <<version, inputs, secmoddb, certdb>>

(* The button of the notification; something can abort the quit.           *)
doRestart ==
    /\ stack = <<>> /\ \E w \in Windows : window[w].bar
    /\ Quit /\ UNCHANGED ended

(* The browser crashes, at any point; after a complete configuration that  *)
(* is the same as quitting it.                                             *)
Crash ==
    /\ \E w \in Windows : window[w].open
    /\ Quit /\ ended' = IF stack = <<>> THEN ended ELSE "stale"

CloseWindow(w) ==
    /\ window[w].open /\ \A i \in DOMAIN stack : stack[i].w # w
    /\ \E v \in Windows \ {w} : window[v].open
    /\ window' = [window EXCEPT ![w] = ClosedWindow]
    /\ UNCHANGED <<version, inputs, secmoddb, certdb, configured, stack, unloaded, untold,
                   ended>>

(* Software is installed or removed, or the preference is set.             *)
ChangeInputs ==
    /\ stack = <<>>
    /\ \/ \E l \in Libs : readable' = (readable \ {l}) \cup ({l} \ readable)
          /\ UNCHANGED <<prefModule, certDir>>
       \/ /\ prefModule' \in {NULL} \cup Libs
          /\ UNCHANGED <<readable, certDir>>
       \/ /\ certDir' \in CertDirs
          /\ UNCHANGED <<readable, prefModule>>
    /\ ended' = "stale"
    /\ UNCHANGED <<version, secmoddb, certdb, configured, window, stack, unloaded, untold>>

(* The user edits the modules in the browser's device manager, or the      *)
(* trust of a certificate in its certificate manager.                      *)
EditModules ==
    /\ stack = <<>> /\ \E w \in Windows : window[w].open
    /\ \E n \in Names :
         \/ /\ secmoddb[n] # NULL
            /\ secmoddb' = [secmoddb EXCEPT ![n] = NULL]
            /\ unloaded' = unloaded \cup {secmoddb[n].libName}
         \/ /\ secmoddb[n] = NULL
            /\ \E l \in Libs :
                 secmoddb' = [secmoddb EXCEPT ![n] = [libName |-> l, friendly |-> FALSE]]
            /\ UNCHANGED unloaded
    /\ ended' = "stale"
    /\ UNCHANGED <<version, inputs, certdb, configured, window, stack, untold>>

EditTrust ==
    /\ stack = <<>> /\ \E w \in Windows : window[w].open
    /\ \E c \in CaCerts, t \in {"absent", "edited"} :
         certdb[c] # "absent" /\ certdb' = [certdb EXCEPT ![c] = t]
    /\ ended' = "stale"
    /\ UNCHANGED <<version, inputs, secmoddb, configured, window, stack, unloaded, untold>>

Next ==
    \/ \E w \in Windows : LoadEstEID(w) \/ CloseWindow(w)
    \/ RemoveModule \/ AddModule \/ FinishConfigure
    \/ doRestart \/ Crash \/ ChangeInputs \/ EditModules \/ EditTrust

Spec == Init /\ [][Next]_vars

-----------------------------------------------------------------------------
(* The database, the windows and the running calls have their types; a     *)
(* call that loads has a library to load, and a window configures once.    *)
TypeOK ==
    /\ secmoddb \in [Names -> {NULL} \cup [libName : Libs, friendly : BOOLEAN]]
    /\ certdb \in [CaCerts -> {"absent", "C,C,P", "edited"}]
    /\ window \in [Windows -> [open : BOOLEAN, icon : {"none", "normal", "error"},
                               bar : BOOLEAN]]
    /\ unloaded \subseteq Libs /\ untold \subseteq unloaded
    /\ \A i \in DOMAIN stack :
         /\ stack[i].remove \subseteq Names
         /\ stack[i].load => stack[i].dll \in Libs
    /\ \A i, j \in DOMAIN stack : stack[i].w = stack[j].w => i = j

(* One start is enough: after a configuration that reported no error and   *)
(* that nobody's change has overtaken, the next one removes, loads and     *)
(* imports nothing, and so does not ask for another restart; even where    *)
(* two windows configured at once and the browser crashed since.           *)
Settled ==
    stack = <<>> /\ ended \in {"fine", "restart"} =>
        modulesToRemove = {} /\ ~ needtoload /\ Missing = {}

(* A user who is told nothing has a module that works: in a browser with   *)
(* the "sane interface", no library that can not be loaded again has been  *)
(* without an error or a notification, whatever failed on the way.         *)
QuietMeansLoaded == version.sane /\ stack = <<>> => untold = {}

(* Modules that the extension does not recognise are not touched, not even *)
(* by a window that goes on with names it read before another window       *)
(* changed the modules.                                                    *)
OthersLeftAlone ==
    [][\A n \in Names :
         (stack # <<>> /\ secmoddb[n] # secmoddb'[n] /\ secmoddb[n] # NULL)
           => n = EstEidModName \/ secmoddb[n].libName \in Recognized]_vars
=============================================================================
