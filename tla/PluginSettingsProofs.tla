------------------------ MODULE PluginSettingsProofs -------------------------
(* Proofs about PluginSettings, for any sites, any systemwide list, any    *)
(* old files and any number of instances.                                  *)
EXTENDS PluginSettings, TLAPS

Files == (SUBSET Sites) \union {Absent, Torn}

(* load() makes a list of sites of any file.                               *)
LEMMA ContentIsSites ==
    ASSUME NEW file \in Files
    PROVE  Content(file) \in SUBSET Sites
BY DEF Files, Content

(* What is read of a sequence of lines is among them.                      *)
LEMMA LinesOf ==
    ASSUME NEW S, NEW f \in Seq(S), NEW i \in DOMAIN f
    PROVE  f[i] \in S /\ i \in 1..i
OBVIOUS

(* An old file is there or not, and is a sequence of lines.                *)
LEMMA OldFileIs ==
    ASSUME NEW file \in OldFiles
    PROVE  file.there \in BOOLEAN /\ file.lines \in Seq(Lines)
<1>1. CASE file = NoLegacy
  <2>1. << >> \in Seq(Lines)
    OBVIOUS
  <2>2. file.there = FALSE /\ file.lines = << >>
    BY <1>1 DEF NoLegacy
  <2> QED BY <2>1, <2>2
<1>2. CASE file \in [there : {TRUE}, lines : LegacyFiles]
  <2>1. file.there = TRUE /\ file.lines \in LegacyFiles
    BY <1>2
  <2> QED BY <2>1, ConstantsAssumption DEF ConstantsAssumption
<1> QED BY <1>1, <1>2 DEF OldFiles

(* loadLegacy() makes a list of sites of any old file.                     *)
LEMMA LegacyIsSites ==
    ASSUME NEW file \in OldFiles
    PROVE  SitesIn(file) \in SUBSET Sites
<1>1. file.lines \in Seq(Lines)
  BY OldFileIs
<1>2. ASSUME NEW s \in SitesIn(file) PROVE s \in Sites
  <2>1. PICK f : f = file.lines
    OBVIOUS
  <2>2. PICK i \in {j \in DOMAIN f : \A k \in 1..j : f[k] # ""} : s = f[i]
    BY <2>1 DEF SitesIn, Read
  <2>3. i \in DOMAIN f /\ \A k \in 1..i : f[k] # ""
    BY <2>2
  <2>4. f[i] \in Lines /\ i \in 1..i
    BY <1>1, <2>1, <2>3, LinesOf
  <2>5. s \in Lines /\ s # ""
    BY <2>2, <2>3, <2>4
  <2>6. s \notin Options
    BY DEF SitesIn
  <2> QED BY <2>5, <2>6 DEF Lines
<1> QED BY <1>2

(* A list of sites is neither of the two markers.                          *)
LEMMA SitesAreAFile ==
    ASSUME NEW sites \in SUBSET Sites
    PROVE  sites # Absent /\ sites # Torn /\ Content(sites) = sites
BY ConstantsAssumption DEF ConstantsAssumption, Absent, Torn, Content

(* Every variable keeps its type, with any number of instances and with    *)
(* disk failures.                                                          *)
LEMMA TypeStep == TypeOK /\ [Next]_vars => TypeOK'
<1> SUFFICES ASSUME TypeOK, [Next]_vars PROVE TypeOK'
  OBVIOUS
<1>1. ASSUME NEW p \in Instances, Start(p) PROVE TypeOK'
  <2>1. Content(userFile) \in SUBSET Sites
    BY ContentIsSites DEF TypeOK, Files
  <2> QED BY <1>1, <2>1 DEF TypeOK, Start, Goto, Behind
<1>2. ASSUME NEW p \in Instances, convertLegacy(p) PROVE TypeOK'
  BY <1>2 DEF TypeOK, convertLegacy, Goto
<1>3. ASSUME NEW p \in Instances, loadLegacy(p) PROVE TypeOK'
  <2>1. SitesIn(legacyFile) \in SUBSET Sites
    BY LegacyIsSites DEF TypeOK
  <2> QED BY <1>3, <2>1 DEF TypeOK, loadLegacy, Goto, Behind
<1>4. ASSUME NEW p \in Instances, SaveLegacy(p) PROVE TypeOK'
  BY <1>4 DEF TypeOK, SaveLegacy, Open, Goto
<1>5. ASSUME NEW p \in Instances, Write(p) PROVE TypeOK'
  <2>1. (unsaved \in BOOLEAN)'
    <3>1. CASE unsaved' = (p \in behind)
      <4>1. PICK b \in BOOLEAN : b <=> p \in behind
        OBVIOUS
      <4> QED BY <3>1, <4>1
    <3>2. CASE unsaved' = TRUE
      BY <3>2
    <3> QED BY <1>5, <3>1, <3>2 DEF Write
  <2>2. (userFile \in (SUBSET Sites) \union {Absent, Torn})'
    BY <1>5 DEF TypeOK, Write
  <2> QED BY <1>5, <2>1, <2>2 DEF TypeOK, Write, Goto
<1>6. ASSUME NEW p \in Instances, RemoveLegacy(p) PROVE TypeOK'
  BY <1>6 DEF TypeOK, RemoveLegacy, Goto, OldFiles
<1>7. ASSUME NEW p \in Instances, NEW sites \in SUBSET Sites, DialogOk(p, sites)
      PROVE  TypeOK'
  <2>1. legacyFile.there \in BOOLEAN
    BY OldFileIs DEF TypeOK
  <2> QED BY <1>7, <2>1 DEF TypeOK, DialogOk, Listed, Open, Goto
<1>8. ASSUME NEW p \in Instances, Crash(p) PROVE TypeOK'
  BY <1>8 DEF TypeOK, Crash, Goto
<1>9. CASE UNCHANGED vars
  BY <1>9 DEF TypeOK, vars
<1> QED BY <1>1, <1>2, <1>3, <1>4, <1>5, <1>6, <1>7, <1>8, <1>9 DEF Next

(* PluginSettings: every variable has its type in every reachable state.   *)
THEOREM TypeCorrect == Spec => []TypeOK
<1>1. Init => TypeOK
  BY ContentIsSites, LegacyIsSites DEF Init, TypeOK, Files
<1> QED BY <1>1, TypeStep, PTL DEF Spec

(***************************************************************************)
(* What both properties rest on.  The user's last list is in the old file  *)
(* while that is there, and it is in the new one already when an instance  *)
(* is about to remove the old one; and an instance that is not behind has  *)
(* it at every step of its start, whichever of the two it read.            *)
(***************************************************************************)
Removing == \E p \in Instances : pc[p] = "remove"

OldHasIt == legacyFile.there => stuck \/ SameSites(SitesIn(legacyFile), wanted)

NewHasIt ==
    ~legacyFile.there \/ Removing => unsaved \/ SameSites(Content(userFile), wanted)

HasIt(p) == pc[p] # "off" /\ p \notin behind => SameSites(m_whitelist[p], wanted)

SitesInv ==
    /\ OldHasIt
    /\ NewHasIt
    /\ \A p \in Instances : HasIt(p)

(* A step that changes no list and no file keeps it.                       *)
LEMMA QuietStep ==
    ASSUME SitesInv,
           UNCHANGED <<userFile, legacyFile, m_whitelist, wanted, unsaved, stuck, behind>>,
           \A q \in Instances : pc'[q] = "remove" => pc[q] = "remove",
           \A q \in Instances : pc'[q] # "off" => pc[q] # "off"
    PROVE  SitesInv'
<1>1. OldHasIt'
  BY DEF SitesInv, OldHasIt, SameSites
<1>2. NewHasIt'
  BY DEF SitesInv, NewHasIt, Removing, SameSites
<1>3. ASSUME NEW q \in Instances PROVE HasIt(q)'
  BY DEF SitesInv, HasIt, SameSites
<1> QED BY <1>1, <1>2, <1>3 DEF SitesInv

(* Every step keeps it, crashes included.                                  *)
LEMMA SitesStep == TypeOK /\ SitesInv /\ [Next]_vars => SitesInv'
<1> SUFFICES ASSUME TypeOK, SitesInv, [Next]_vars PROVE SitesInv'
  OBVIOUS
<1> USE DEF Goto, TypeOK
<1>1. ASSUME NEW p \in Instances, Start(p) PROVE SitesInv'
  <2>1. OldHasIt' /\ NewHasIt'
    BY <1>1 DEF Start, SitesInv, OldHasIt, NewHasIt, Removing, SameSites
  <2>2. ASSUME NEW q \in Instances PROVE HasIt(q)'
    <3>1. CASE q = p
      BY <1>1, <3>1 DEF Start, Behind, SitesInv, NewHasIt, HasIt, SameSites
    <3>2. CASE q # p
      BY <1>1, <3>2 DEF Start, Behind, SitesInv, HasIt, SameSites
    <3> QED BY <3>1, <3>2
  <2> QED BY <2>1, <2>2 DEF SitesInv
<1>2. ASSUME NEW p \in Instances, convertLegacy(p) PROVE SitesInv'
  BY <1>2, QuietStep DEF convertLegacy
<1>3. ASSUME NEW p \in Instances, loadLegacy(p) PROVE SitesInv'
  <2>1. OldHasIt' /\ NewHasIt'
    BY <1>3 DEF loadLegacy, SitesInv, OldHasIt, NewHasIt, Removing, SameSites
  <2>2. ASSUME NEW q \in Instances PROVE HasIt(q)'
    <3>1. CASE q = p
      BY <1>3, <3>1 DEF loadLegacy, Behind, SitesInv, OldHasIt, HasIt, SameSites
    <3>2. CASE q # p
      BY <1>3, <3>2 DEF loadLegacy, Behind, SitesInv, HasIt, SameSites
    <3> QED BY <3>1, <3>2
  <2> QED BY <2>1, <2>2 DEF SitesInv
<1>4. ASSUME NEW p \in Instances, SaveLegacy(p) PROVE SitesInv'
  <2>1. OldHasIt'
    BY <1>4 DEF SaveLegacy, SitesInv, OldHasIt, SameSites
  <2>2. NewHasIt'
    BY <1>4 DEF SaveLegacy, Open, SitesInv, NewHasIt, Removing, SameSites
  <2>3. ASSUME NEW q \in Instances PROVE HasIt(q)'
    BY <1>4 DEF SaveLegacy, Open, SitesInv, HasIt, SameSites
  <2> QED BY <2>1, <2>2, <2>3 DEF SitesInv
<1>5. ASSUME NEW p \in Instances, Write(p) PROVE SitesInv'
  <2>1. OldHasIt'
    BY <1>5 DEF Write, SitesInv, OldHasIt, SameSites
  <2>2. NewHasIt'
    <3>1. CASE unsaved'
      BY <3>1 DEF NewHasIt
    <3>2. CASE ~unsaved'
      <4>1. userFile' = m_whitelist[p] /\ p \notin behind /\ pc[p] # "off"
        BY <1>5, <3>2 DEF Write
      <4>2. Content(m_whitelist[p]) = m_whitelist[p]
        BY SitesAreAFile
      <4>3. SameSites(Content(userFile), wanted)'
        BY <1>5, <4>1, <4>2 DEF Write, SitesInv, HasIt, SameSites
      <4> QED BY <4>3 DEF NewHasIt
    <3> QED BY <3>1, <3>2
  <2>3. ASSUME NEW q \in Instances PROVE HasIt(q)'
    BY <1>5 DEF Write, SitesInv, HasIt, SameSites
  <2> QED BY <2>1, <2>2, <2>3 DEF SitesInv
<1>6. ASSUME NEW p \in Instances, RemoveLegacy(p) PROVE SitesInv'
  <2>1. OldHasIt'
    BY <1>6 DEF RemoveLegacy, NoLegacy, SitesInv, OldHasIt, SameSites
  <2>2. NewHasIt'
    BY <1>6 DEF RemoveLegacy, SitesInv, NewHasIt, Removing, SameSites
  <2>3. ASSUME NEW q \in Instances PROVE HasIt(q)'
    BY <1>6 DEF RemoveLegacy, SitesInv, HasIt, SameSites
  <2> QED BY <2>1, <2>2, <2>3 DEF SitesInv
<1>7. ASSUME NEW p \in Instances, NEW sites \in SUBSET Sites, DialogOk(p, sites)
      PROVE  SitesInv'
  <2>1. OldHasIt' /\ NewHasIt'
    BY <1>7 DEF DialogOk, OldHasIt, NewHasIt
  <2>2. ASSUME NEW q \in Instances PROVE HasIt(q)'
    BY <1>7 DEF DialogOk, Listed, HasIt, SameSites
  <2> QED BY <2>1, <2>2 DEF SitesInv
<1>8. ASSUME NEW p \in Instances, Crash(p) PROVE SitesInv'
  BY <1>8, QuietStep DEF Crash
<1>9. CASE UNCHANGED vars
  BY <1>9, QuietStep DEF vars
<1> QED BY <1>1, <1>2, <1>3, <1>4, <1>5, <1>6, <1>7, <1>8, <1>9 DEF Next

(* PluginSettings(), convertLegacy(), save() and the dialog: the user's    *)
(* last list is in the file the next start goes by, and in force in every  *)
(* instance that has read it, through conversions, edits, restarts and     *)
(* crashes and with any number of instances, but for the cases the two     *)
(* properties name.                                                        *)
THEOREM SitesCorrect == Spec => [](SitesKept /\ SitesInForce)
<1>1. Init => SitesInv
  <2> SUFFICES ASSUME Init PROVE SitesInv
    OBVIOUS
  <2>1. OldHasIt
    BY DEF Init, OldHasIt, SameSites
  <2>2. NewHasIt
    BY DEF Init, NewHasIt, Removing, SameSites
  <2>3. ASSUME NEW p \in Instances PROVE HasIt(p)
    BY DEF Init, HasIt
  <2> QED BY <2>1, <2>2, <2>3 DEF SitesInv
<1>2. TypeOK /\ SitesInv /\ [Next]_vars => SitesInv'
  BY SitesStep
<1>3. SitesInv => SitesKept /\ SitesInForce
  BY DEF SitesInv, OldHasIt, NewHasIt, HasIt, SitesKept, SitesInForce
<1> QED BY <1>1, <1>2, <1>3, TypeCorrect, PTL DEF Spec
=============================================================================
