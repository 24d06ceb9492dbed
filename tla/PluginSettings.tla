---------------------------- MODULE PluginSettings ----------------------------
(***************************************************************************)
(* The user's whitelist (PluginSettings.cpp, whitelist.cpp) and the        *)
(* settings dialog that edits it (GtkUI.cpp).  Every plugin instance reads *)
(* the user's file when it is created and keeps its own copy; instances of *)
(* two browsers, or of one that crashed and was started again, share the   *)
(* file.  An older version's file is converted once and then removed.      *)
(*                                                                         *)
(* A list of sites is a set: save() sorts it and removes duplicates.       *)
(***************************************************************************)
EXTENDS Integers, Sequences

CONSTANTS
    Sites,        \* hosts the user may allow
    Defaults,     \* the systemwide whitelist, m_defaultWhitelist
    LegacyFiles,  \* files of an older version, line by line
    Instances,    \* plugin instances, in one browser or several
    IOFailures    \* TRUE: writing and removing files can fail

Absent == {"absent"}    \* no such file
Torn   == {"torn"}      \* a file that read_xml cannot parse

(* The lines of an old file: sites, two options and the empty line.        *)
Options == {"@NODEFAULTS", "@NOLOCAL"}
Lines == Sites \union Options \union {""}

ASSUME ConstantsAssumption ==
    /\ Defaults \subseteq Sites
    /\ LegacyFiles \subseteq Seq(Lines)
    /\ IOFailures \in BOOLEAN
    /\ "absent" \notin Sites /\ "torn" \notin Sites

NoLegacy == [there |-> FALSE, lines |-> << >>]
OldFiles == {NoLegacy} \union [there : {TRUE}, lines : LegacyFiles]

VARIABLES
    userFile,       \* esteid-browser-plugin.conf: its sites, Absent or Torn
    legacyFile,     \* esteidplugin.conf: whether it is there, and its lines
    pc,             \* what each instance is about to do
    m_whitelist,    \* of each instance
    m_allowLocal,   \* of each instance
    wanted,         \* history: the list the user had at first or confirmed last
    unsaved,        \* history: the last save() of the user's file failed, was
                    \* interrupted with nothing to fall back to, is still to
                    \* come, or saved a list that lacked the last edit
    stuck,          \* history: the user edited the list while the old file was there
    behind          \* history: instances whose list may lack the last edit, or that
                    \* read the file when it was not there to be read

vars == <<userFile, legacyFile, pc, m_whitelist, m_allowLocal, wanted, unsaved, stuck,
          behind>>

(* What load() makes of a file; errors are ignored.  (Mutant: they are     *)
(* not.)                                                                   *)
Content_Raw(file) == file

Content(file) == IF file \in {Absent, Torn} THEN {} ELSE file

(* The lines loadLegacy() reads: those before the first empty one.         *)
Read(file) ==
    {file.lines[i] : i \in {j \in DOMAIN file.lines : \A k \in 1..j : file.lines[k] # ""}}

SitesIn(file) == Read(file) \ Options

(* The user has an old file, a new one or neither.                         *)
Init ==
    /\ userFile \in (SUBSET Sites) \union {Absent}
    /\ legacyFile \in OldFiles
    /\ legacyFile.there => userFile = Absent
    /\ pc = [p \in Instances |-> "off"]
    /\ m_whitelist = [p \in Instances |-> {}]
    /\ m_allowLocal = [p \in Instances |-> TRUE]
    /\ wanted = IF legacyFile.there THEN SitesIn(legacyFile) ELSE Content(userFile)
    /\ unsaved = FALSE
    /\ stuck = FALSE
    /\ behind = {}

Goto(p, next) == pc' = [pc EXCEPT ![p] = next]

(* p's list has the last edit now, or may lack it.                         *)
Behind(p, isBehind) == behind' = IF isBehind THEN behind \union {p} ELSE behind \ {p}

(* The constructor: load() of the user's file.                             *)
Start(p) ==
    /\ pc[p] = "off"
    /\ Goto(p, "convertLegacy")
    /\ m_whitelist' = [m_whitelist EXCEPT ![p] = Content(userFile)]
    /\ m_allowLocal' = [m_allowLocal EXCEPT ![p] = TRUE]
    /\ Behind(p, unsaved \/ legacyFile.there)
    /\ UNCHANGED <<userFile, legacyFile, wanted, unsaved, stuck>>

(* convertLegacy(): exists(legacySettings) ...                             *)
convertLegacy(p) ==
    /\ pc[p] = "convertLegacy"
    /\ Goto(p, IF legacyFile.there THEN "loadLegacy" ELSE "ready")
    /\ UNCHANGED <<userFile, legacyFile, m_whitelist, m_allowLocal, wanted, unsaved, stuck,
                   behind>>

(* ... then loadLegacy(), which replaces the list, and save()'s clean-up,  *)
(* which drops what the systemwide list has.  A file that another instance *)
(* has removed in between has no lines.                                    *)
loadLegacy(p) ==
    /\ pc[p] = "loadLegacy"
    /\ Goto(p, "saveLegacy")
    /\ m_whitelist' = [m_whitelist EXCEPT ![p] = SitesIn(legacyFile) \ Defaults]
    /\ m_allowLocal' = IF "@NOLOCAL" \in Read(legacyFile)
                       THEN [m_allowLocal EXCEPT ![p] = FALSE] ELSE m_allowLocal
    /\ Behind(p, stuck \/ ~legacyFile.there)
    /\ UNCHANGED <<userFile, legacyFile, wanted, unsaved, stuck>>

(* save() opens the file, which empties it, or fails to.  Failures of      *)
(* save() are swallowed: the caller goes on as if it had saved.            *)
Open(p, writing, failed) ==
    \/ userFile' = Torn /\ Goto(p, writing)
    \/ IOFailures /\ UNCHANGED userFile /\ Goto(p, failed)

(* save() in a conversion.  While the old file is there it holds the list, *)
(* unless another instance is about to remove it.                          *)
SaveLegacy(p) ==
    /\ pc[p] = "saveLegacy"
    /\ Open(p, "writeLegacy", "remove")
    /\ unsaved' = \/ unsaved
                  \/ pc'[p] = "remove"
                  \/ ~legacyFile.there
                  \/ \E q \in Instances : pc[q] = "remove"
    /\ UNCHANGED <<legacyFile, m_whitelist, m_allowLocal, wanted, stuck, behind>>

(* write_xml() ends well, or not; then convertLegacy() or the dialog goes  *)
(* on.                                                                     *)
Write(p) ==
    /\ pc[p] \in {"writeLegacy", "write"}
    /\ \/ userFile' = m_whitelist[p] /\ unsaved' = (p \in behind)
       \/ IOFailures /\ unsaved' = TRUE /\ UNCHANGED userFile
    /\ Goto(p, IF pc[p] = "writeLegacy" THEN "remove" ELSE "ready")
    /\ UNCHANGED <<legacyFile, m_whitelist, m_allowLocal, wanted, stuck, behind>>

(* remove(legacySettings).  (Mutant: it comes before save().)              *)
RemoveLegacy_BeforeSave(p) ==
    /\ pc[p] \in {"saveLegacy", "remove"}
    /\ legacyFile' = NoLegacy
    /\ Goto(p, IF pc[p] = "remove" THEN "ready" ELSE "saveLegacy")
    /\ UNCHANGED <<userFile, m_whitelist, m_allowLocal, wanted, unsaved, stuck, behind>>

RemoveLegacy(p) ==
    /\ pc[p] = "remove"
    /\ legacyFile' = NoLegacy \/ (IOFailures /\ UNCHANGED legacyFile)
    /\ Goto(p, "ready")
    /\ UNCHANGED <<userFile, m_whitelist, m_allowLocal, wanted, unsaved, stuck, behind>>

(* setWhitelist() and save()'s clean-up.  (Mutant: the sites are added.)   *)
Listed_Added(p, sites) == (m_whitelist[p] \union sites) \ Defaults

Listed(p, sites) == sites \ Defaults

(* The dialog shows the instance's list; on OK, on_whitelistdialog_        *)
(* response() replaces the list by what the user made of it and saves it.  *)
DialogOk(p, sites) ==
    /\ pc[p] = "ready"
    /\ m_whitelist' = [m_whitelist EXCEPT ![p] = Listed(p, sites)]
    /\ Open(p, "write", "ready")
    /\ wanted' = sites
    /\ unsaved' = TRUE
    /\ stuck' = legacyFile.there
    /\ behind' = Instances \ {p}
    /\ UNCHANGED <<legacyFile, m_allowLocal>>

(* The page is closed, or the browser dies in the middle of anything.      *)
Crash(p) ==
    /\ pc[p] # "off"
    /\ Goto(p, "off")
    /\ UNCHANGED <<userFile, legacyFile, m_whitelist, m_allowLocal, wanted, unsaved, stuck,
                   behind>>

Next ==
    \E p \in Instances :
        \/ Start(p) \/ convertLegacy(p) \/ loadLegacy(p)
        \/ SaveLegacy(p) \/ Write(p) \/ RemoveLegacy(p)
        \/ \E sites \in SUBSET Sites : DialogOk(p, sites)
        \/ Crash(p)

Spec == Init /\ [][Next]_vars

-----------------------------------------------------------------------------
(* Every variable has its type.                                            *)
TypeOK ==
    /\ userFile \in (SUBSET Sites) \union {Absent, Torn}
    /\ legacyFile \in OldFiles
    /\ pc \in [Instances -> {"off", "convertLegacy", "loadLegacy", "saveLegacy",
                             "writeLegacy", "remove", "ready", "write"}]
    /\ m_whitelist \in [Instances -> SUBSET Sites]
    /\ m_allowLocal \in [Instances -> BOOLEAN]
    /\ wanted \subseteq Sites
    /\ unsaved \in BOOLEAN
    /\ stuck \in BOOLEAN
    /\ behind \subseteq Instances

(* Two lists allow the same sites.                                         *)
SameSites(a, b) == a \union Defaults = b \union Defaults

(* PluginSettings(), convertLegacy() and save() with the dialog: a         *)
(* whitelist outlives conversion, edits, restarts and crashes: at every    *)
(* moment the next start finds the user's last list: in the old file while *)
(* that is there, unless the list was edited since; and then in the new    *)
(* one, unless its last save was cut short, failed or wrote an older list. *)
(* A save by an instance that has the list makes up for these.             *)
SitesKept ==
    IF legacyFile.there THEN stuck \/ SameSites(SitesIn(legacyFile), wanted)
    ELSE unsaved \/ SameSites(Content(userFile), wanted)

(* The same for the list an instance that is ready for use goes by, unless *)
(* the user's last edit was in another instance since this one read the    *)
(* files, or it read them when the list was not there.                     *)
SitesInForce ==
    \A p \in Instances :
        pc[p] = "ready" /\ p \notin behind => SameSites(m_whitelist[p], wanted)
=============================================================================
