--------------------------- MODULE WhitelistDialog ---------------------------
(***************************************************************************)
(* The list of sites that the user edits, as X11/whitelistdialog.cpp and   *)
(* Win/whitelistdialog.cpp keep it: operators on the state of a dialog.    *)
(* rows counts the rows of each site that the user can edit (the same site *)
(* can be added twice).  The GTK dialog shows the systemwide sites in rows *)
(* that nobody can edit; those of the Windows dialog are like all others.  *)
(* The entry is left out: the user can type a site whatever it holds.      *)
(***************************************************************************)
EXTENDS Naturals

CONSTANTS
    Sites,     \* host names
    Defaults,  \* the systemwide whitelist
    MaxCopies  \* bound: rows of the same site

ASSUME SitesAssumption ==
    /\ Defaults \subseteq Sites
    /\ MaxCopies \in Nat \ {0}

Dialogs == [visible : BOOLEAN, rows : [Sites -> 0..MaxCopies]]

Closed == [visible |-> FALSE, rows |-> [s \in Sites |-> 0]]

Least(a, b) == IF a < b THEN a ELSE b

Count(set, site) == IF site \in set THEN 1 ELSE 0

(* settingsDialog() of GtkUI and of WindowsUI leaves a dialog that is open *)
(* as it is, and fills another with the lists in force.                    *)
addSites(ui, whitelist) ==
    [s \in Sites |-> IF ui = "gtk" THEN Count(whitelist, s)
                     ELSE Least(Count(whitelist, s) + Count(Defaults, s), MaxCopies)]

Opened(ui, d, whitelist) ==
    IF d.visible THEN d ELSE [visible |-> TRUE, rows |-> addSites(ui, whitelist)]

(* What the user can make of an open dialog with each of its buttons.      *)
Added(d) == {[d EXCEPT !.rows[s] = @ + 1] : s \in {t \in Sites : d.rows[t] < MaxCopies}}

(* (Mutant: whether a row is selected is not looked at.)                   *)
Selectable_Any(d) == Sites

Selectable(d) == {s \in Sites : d.rows[s] > 0}

Deleted(d) == {[d EXCEPT !.rows[s] = @ - 1] : s \in Selectable(d)}

Edited(d) == UNION {Added(e) : e \in Deleted(d)}

(* The sites that the user sees.                                           *)
Shown(ui, d) == Selectable(d) \union (IF ui = "gtk" THEN Defaults ELSE {})

(* getWhitelist(): the sites of the rows that can be edited.  (Mutant: the *)
(* last row is not read.)                                                  *)
getWhitelist_ButOne(d) ==
    Selectable(d) \ {CHOOSE s \in Sites : Selectable(d) # {} => s \in Selectable(d)}

getWhitelist(d) == Selectable(d)
=============================================================================
