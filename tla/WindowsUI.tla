------------------------------ MODULE WindowsUI ------------------------------
(***************************************************************************)
(* The dialogs of WindowsUI (Win/): the plugin objects of one browser      *)
(* thread, each with a PIN dialog, a pinpad dialog and a settings dialog,  *)
(* all modeless windows that disable their parent by hand and share one    *)
(* message hook, and the message boxes, which run event loops of their     *)
(* own.  The signing behind them is signAsync()'s, one request of an       *)
(* object at a time: calls that overlap, blocking calls and the locks of   *)
(* the card are SignSession's and PinpadSign's.                            *)
(***************************************************************************)
EXTENDS Integers, Sequences, FiniteSets

CONSTANTS
    Objects,    \* plugin objects on the thread
    Browsers,   \* top-level windows of browsers and of other programs
    NULL,
    MaxTries,   \* PIN2 tries of the card
    Timeout,    \* m_timeTotal, 30 in the code
    MaxBoxes,   \* bound: message boxes open at once
    MaxLate     \* bound: the same, when and after a window could not be made

Dialogs == Objects \X {"pin", "pinpad", "list"}

(* The window of a message box, named by the depth of its event loop.      *)
Box(i) == <<i, "box">>
Windows == Browsers \union Dialogs \union {Box(i) : i \in 1..MaxBoxes}

ASSUME WindowsAssumption ==
    /\ NULL \notin Windows
    /\ Browsers \intersect {Box(i) : i \in 1..MaxBoxes} = {}
    /\ MaxTries \in Nat \ {0} /\ Timeout \in Nat \ {0}
    /\ MaxBoxes \in Nat \ {0} /\ MaxLate \in 0..MaxBoxes

Prompts(o) == {<<o, "pin">>, <<o, "pinpad">>}

VARIABLES
    win,          \* the windows, see Init
    alive,        \* the objects there are
    tries,        \* PIN2 tries the card has left
    pending,      \* has the object a request that is not answered
    reading,      \* is the object's signing thread waiting for the pinpad
    unprompted,   \* history: the request's dialog was not shown or was taken away
    unmade,       \* history: a dialog's window could not be made
    overlapped,   \* history: dialogs of two objects were open together
    orphaned      \* history: an object was destroyed with a dialog open

vars == <<win, alive, tries, pending, reading, unprompted, unmade, overlapped, orphaned>>

Init ==
    /\ win = [open      |-> {},      \* the dialogs whose window exists
              m_hParent |-> [d \in Dialogs |-> NULL],
              disabled  |-> {},      \* windows that take no input
              s_hWnd    |-> NULL,    \* the last dialog opened, and s_hHook its hook
              hooks     |-> {},      \* the hooks that are set, by their dialogs
              edit      |-> [o \in Objects |-> FALSE],  \* is a PIN in the entry
              made      |-> {},      \* the objects whose pinpad dialog has an m_hWnd, stale or not
              time      |-> [o \in Objects |-> Timeout],
              strays    |-> FALSE,   \* has the thread timers without a window
              boxes     |-> <<>>]    \* MessageBox() calls, innermost last
    /\ alive = Objects
    /\ tries \in 0..MaxTries
    /\ pending = [o \in Objects |-> FALSE]
    /\ reading = [o \in Objects |-> FALSE]
    /\ unprompted = [o \in Objects |-> FALSE]
    /\ unmade = FALSE /\ overlapped = FALSE /\ orphaned = FALSE

-----------------------------------------------------------------------------
(***************************************************************************)
(* Windows: operators from a state of win to another.                      *)
(***************************************************************************)

visible(w, d) == d \in w.open

dialogVisible(w, o) == \E k \in {"pin", "pinpad", "list"} : visible(w, <<o, k>>)

(* The windows of the plugin that there are.                               *)
Shown(w) == w.open \union {Box(i) : i \in {j \in DOMAIN w.boxes : w.boxes[j].shown}}

(* GetForegroundWindow(): a window that takes input, if there is one; a    *)
(* message box may be it.                                                  *)
Foreground(w) ==
    LET enabled == (Browsers \union Shown(w)) \ w.disabled IN
    IF enabled = {} THEN {NULL} ELSE enabled

(* (Mutant: disableParent() does nothing.)                                 *)
disableParent_Not(w, d) == w

disableParent(w, d) == [w EXCEPT !.disabled = @ \union ({w.m_hParent[d]} \ {NULL})]

enableParent(w, d) == [w EXCEPT !.disabled = @ \ {w.m_hParent[d]}, !.m_hParent[d] = NULL]

(* DestroyWindow() takes the windows along that a window owns, and those   *)
(* that they own, dialogs and message boxes.                               *)
owner(w, x) == IF x \in Dialogs THEN w.m_hParent[x] ELSE w.boxes[x[1]].parent

Owning(w, S) == \A x \in Shown(w) : owner(w, x) \in S => x \in S

Family(w, x) ==
    {y \in Shown(w) : \A S \in SUBSET Shown(w) : x \in S /\ Owning(w, S) => y \in S}

(* WM_DESTROY of these: UnhookWindowsHookEx(s_hHook), which does nothing   *)
(* when the hook set last has been removed, enableParent(), KillTimer().   *)
(* The hooks that closed dialogs have left behind count as one.  The       *)
(* MessageBox() of a box that is gone returns when the loops in it have.   *)
(* The progress is set when the pinpad dialog is opened.                   *)
Destroyed(w, gone) ==
    [w EXCEPT !.open      = @ \ gone,
              !.s_hWnd    = IF @ \in gone THEN NULL ELSE @,
              !.hooks     = LET unhooked == IF gone \intersect w.open = {} THEN {} ELSE {w.s_hWnd} \ {NULL}
                            IN  {IF d \in gone THEN NULL ELSE d : d \in @ \ unhooked},
              !.disabled  = (@ \ {w.m_hParent[d] : d \in gone \intersect w.open}) \ gone,
              !.m_hParent = [d \in Dialogs |-> IF d \in gone THEN NULL ELSE @[d]],
              !.edit      = [o \in Objects |-> @[o] /\ <<o, "pin">> \notin gone],
              !.time      = [o \in Objects |->
                                IF <<o, "pinpad">> \in gone THEN Timeout ELSE @[o]],
              !.boxes     = [i \in DOMAIN w.boxes |->
                                [w.boxes[i] EXCEPT
                                    !.shown = w.boxes[i].shown /\ Box(i) \notin gone]]]

(* close(), also of a dialog that is not open.  (Mutants: the parent is    *)
(* left alone; the hook is left.)                                          *)
close_KeepsParent(w, d) ==
    IF visible(w, d)
    THEN [Destroyed(w, Family(w, d)) EXCEPT !.disabled = w.disabled \ Family(w, d)] ELSE w

close_KeepsHook(w, d) ==
    LET v == enableParent(w, d) IN
    IF visible(w, d) THEN [Destroyed(v, Family(v, d)) EXCEPT !.hooks = w.hooks] ELSE v

close(w, d) ==
    LET v == enableParent(w, d) IN
    IF visible(w, d) THEN Destroyed(v, Family(v, d)) ELSE v

(* resetProgressbar().  SetTimer() for m_hWnd sets the one timer of the    *)
(* window, or fails if that is gone; with m_hWnd NULL it makes a new timer *)
(* of the thread, which KillTimer() does not find.                         *)
resetProgressbar(w, o) ==
    [w EXCEPT !.time[o] = Timeout, !.strays = @ \/ o \notin w.made]

(* doDialog(): CreateDialogParam(), which can fail and then sets m_hWnd to *)
(* NULL, WM_INITDIALOG, ShowWindow() and disableParent().  (Mutant: m_hWnd *)
(* is not set.)                                                            *)
doDialog_(w, d, parent, created, made) ==
    LET v == [w EXCEPT !.m_hParent[d] = parent, !.made = made] IN
    IF ~created THEN v
    ELSE LET u == [v EXCEPT !.open     = @ \union {d},
                            !.s_hWnd   = d,
                            !.hooks    = @ \union {d}]
         IN  disableParent(IF d[2] = "pinpad" THEN resetProgressbar(u, d[1]) ELSE u, d)

doDialog_NoHandle(w, d, parent, created) == doDialog_(w, d, parent, created, w.made)

doDialog(w, d, parent, created) ==
    doDialog_(w, d, parent, created,
              IF d[2] # "pinpad" THEN w.made
              ELSE IF created THEN w.made \union {d[1]} ELSE w.made \ {d[1]})

(* MessageBox(), and what it is about: a PIN that is "blocked", whose      *)
(* caller then fails, a "wrong" PIN, or a list that is not "saved".        *)
MessageBox(w, o, parent, about) ==
    [w EXCEPT !.disabled = @ \union ({parent} \ {NULL}),
              !.boxes    = Append(@, [object |-> o, parent |-> parent,
                                      about |-> about, shown |-> TRUE])]

(* EndDialog() of the box i: its parent is enabled, its window is gone.    *)
EndBox(w, i) ==
    LET v == [w EXCEPT !.disabled = @ \ {w.boxes[i].parent}] IN Destroyed(v, Family(v, Box(i)))

(* pinBlockedMessage(): over the PIN dialog, which stays, if it is open.   *)
BlockedParents(w, o) == IF visible(w, <<o, "pin">>) THEN {<<o, "pin">>} ELSE Foreground(w)

(* closePinDialog(), closePinpadDialog().  (Mutant: only the first.)       *)
closePrompts_OnlyPin(w, o) == close(w, <<o, "pin">>)

closePrompts(w, o) == close(close(w, <<o, "pin">>), <<o, "pinpad">>)

(* The event loop: the browser's, or that of the innermost message box,    *)
(* which ends with the box.                                                *)
Looping == ~orphaned /\ (win.boxes # <<>> => win.boxes[Len(win.boxes)].shown)

InLoop(o) == o \in alive /\ Looping

(* Can the window be made; bounds: it fails once, with MaxLate boxes open. *)
Creations == IF unmade \/ Len(win.boxes) > MaxLate THEN {TRUE} ELSE BOOLEAN

CanInput(d) == visible(win, d) /\ d \notin win.disabled

(* A message box of the object is open whose end answers its request.      *)
Failing(w, o) ==
    \E i \in DOMAIN w.boxes : w.boxes[i].object = o /\ w.boxes[i].about = "blocked"

Room == Len(win.boxes) < IF unmade THEN MaxLate ELSE MaxBoxes

(* win' is w; what becomes of the history.                                 *)
Becomes(w) ==
    /\ win' = w
    /\ unmade' = (unmade \/ \E d \in Dialogs \ w.open : w.m_hParent[d] # NULL)
    /\ overlapped' = (overlapped \/ \E c, d \in w.open : c[1] # d[1])

TakenAway(w, o) == Prompts(o) \intersect win.open # {} /\ Prompts(o) \intersect w.open = {}

(* The object has a request afterwards, perhaps without a dialog, or not.  *)
Goes(o, open, w, missing) ==
    /\ Becomes(w)
    /\ pending' = [pending EXCEPT ![o] = open]
    /\ unprompted' = [p \in Objects |->
          IF p = o THEN open /\ missing
          ELSE unprompted[p] \/ (pending[p] /\ TakenAway(w, p))]

Others == UNCHANGED <<alive, orphaned>>

-----------------------------------------------------------------------------
(***************************************************************************)
(* EsteidAPI on top of it.                                                 *)
(***************************************************************************)

(* returnSignedData(), returnSignFailure().  (Mutant: the callback is not  *)
(* invoked.)                                                               *)
Return_NoAnswer(o, w) == Goes(o, pending[o], closePrompts(w, o), FALSE)

Return(o, w) == Goes(o, FALSE, closePrompts(w, o), FALSE)

(* The first half of askPin() of a card that has no tries left.            *)
Blocked(o, w) ==
    /\ Room
    /\ \E parent \in BlockedParents(w, o) :
          Goes(o, TRUE, MessageBox(w, o, parent, "blocked"), unprompted[o])

(* pinDialog(), pinpadDialog(): nothing happens if a dialog is open.       *)
Prompt(o, kind) ==
    IF dialogVisible(win, o) THEN Goes(o, TRUE, win, TRUE)
    ELSE \E parent \in Foreground(win), created \in Creations :
            Goes(o, TRUE, doDialog(win, <<o, kind>>, parent, created), ~created)

(* The call of a page whose last request has no prompt, no signing thread  *)
(* and no message before its end: the others overlap.                      *)
signAsync(o) ==
    /\ InLoop(o) /\ Prompts(o) \intersect win.open = {} /\ ~reading[o] /\ ~Failing(win, o)
    /\ \/ Return(o, win) /\ UNCHANGED reading
       \/ tries = 0 /\ Blocked(o, win) /\ UNCHANGED reading
       \/ /\ tries > 0
          /\ \E kind \in {"pin", "pinpad"} :
                /\ Prompt(o, kind)
                /\ reading' = [reading EXCEPT ![o] = kind = "pinpad"]
    /\ Others /\ UNCHANGED tries

(* The tries after a wrong PIN.  (Mutant: below zero.)                     *)
Spent_BelowZero == tries - 1

Spent == IF tries = 0 THEN 0 ELSE tries - 1

(* The signing thread's result comes to the main thread: a signature, a    *)
(* wrong PIN (askPin(true)), a PIN that the pinpad finds blocked, or any   *)
(* other failure.                                                          *)
PinpadResult(o) ==
    /\ InLoop(o) /\ reading[o]
    /\ \/ /\ tries > 0 /\ tries' = MaxTries
          /\ reading' = [reading EXCEPT ![o] = FALSE]
          /\ Return(o, win)
       \/ /\ tries' = Spent /\ tries' > 0
          /\ Goes(o, TRUE, resetProgressbar(win, o), unprompted[o])
          /\ UNCHANGED reading
       \/ /\ tries' = Spent /\ tries' = 0
          /\ reading' = [reading EXCEPT ![o] = FALSE]
          /\ Blocked(o, win)
       \/ /\ reading' = [reading EXCEPT ![o] = FALSE]
          /\ tries' \in {tries, Spent}
          /\ Return(o, win)
    /\ Others

-----------------------------------------------------------------------------
(***************************************************************************)
(* The user.                                                               *)
(***************************************************************************)

Type(o) ==
    /\ InLoop(o) /\ CanInput(<<o, "pin">>)
    /\ \E typed \in BOOLEAN : Becomes([win EXCEPT !.edit[o] = typed])
    /\ Others /\ UNCHANGED <<tries, pending, reading, unprompted>>

(* IDOK, which on_command() enables for a PIN of 5 characters or more: it  *)
(* goes from the entry, which is cleared, to onPinEntered().  (Mutant: the *)
(* entry is not cleared.)                                                  *)
Taken_KeepsEntry(w, o) == w

Taken(w, o) == [w EXCEPT !.edit[o] = FALSE]

PinOk(o) ==
    /\ InLoop(o) /\ CanInput(<<o, "pin">>) /\ win.edit[o]
    /\ LET w == Taken(win, o) IN
          \/ tries > 0 /\ tries' = MaxTries /\ Return(o, w)
          \/ /\ tries' = Spent /\ tries' > 0
             /\ \/ Goes(o, TRUE, w, FALSE)    \* a balloon, or without it a message box
                \/ Room /\ Goes(o, TRUE, MessageBox(w, o, <<o, "pin">>, "wrong"), FALSE)
          \/ tries' = Spent /\ tries' = 0 /\ Blocked(o, w)
          \/ tries' \in {tries, Spent} /\ Return(o, w)
    /\ Others /\ UNCHANGED reading

(* IDCANCEL or WM_CLOSE.                                                   *)
PinCancel(o) ==
    /\ InLoop(o) /\ CanInput(<<o, "pin">>)
    /\ Return(o, Taken(win, o))
    /\ Others /\ UNCHANGED <<tries, reading>>

settingsDialog(o) ==
    /\ InLoop(o) /\ ~dialogVisible(win, o)
    /\ \E parent \in Foreground(win), created \in Creations :
          Becomes(doDialog(win, <<o, "list">>, parent, created))
    /\ Others /\ UNCHANGED <<tries, pending, reading, unprompted>>

(* on_whitelistdialog_response(), where saving can fail.                   *)
ListResponse(o) ==
    /\ InLoop(o) /\ CanInput(<<o, "list">>)
    /\ LET w == close(win, <<o, "list">>) IN
          \/ Goes(o, pending[o], w, unprompted[o])
          \/ /\ Room
             /\ \E parent \in Foreground(w) :
                   Goes(o, pending[o], MessageBox(w, o, parent, "saved"), unprompted[o])
    /\ Others /\ UNCHANGED <<tries, reading>>

(* The user closes a message box, not always the innermost.                *)
CloseBox ==
    /\ Looping
    /\ \E i \in DOMAIN win.boxes :
          /\ win.boxes[i].shown /\ Box(i) \notin win.disabled
          /\ LET w == EndBox(win, i) IN
                /\ Becomes(w)
                /\ unprompted' = [p \in Objects |->
                      unprompted[p] \/ (pending[p] /\ TakenAway(w, p))]
    /\ Others /\ UNCHANGED <<tries, pending, reading>>

(* The innermost MessageBox() returns to its caller.                       *)
BoxReturns ==
    /\ win.boxes # <<>> /\ ~orphaned
    /\ LET box == win.boxes[Len(win.boxes)]
           w   == [win EXCEPT !.boxes = SubSeq(@, 1, Len(@) - 1)]
       IN  /\ ~box.shown
           /\ IF box.about = "blocked" THEN Return(box.object, w)
              ELSE Becomes(w) /\ UNCHANGED <<pending, unprompted>>
    /\ Others /\ UNCHANGED <<tries, reading>>

(* on_timer().                                                             *)
Tick(o) ==
    /\ InLoop(o) /\ visible(win, <<o, "pinpad">>) /\ win.time[o] > 0
    /\ Becomes([win EXCEPT !.time[o] = @ - 1])
    /\ Others /\ UNCHANGED <<tries, pending, reading, unprompted>>

(* The page is left; ~BaseDialog() does not close a window, which from now *)
(* on calls an object that is gone.                                        *)
Leave(o) ==
    /\ InLoop(o) /\ ~reading[o]
    /\ \A i \in DOMAIN win.boxes : win.boxes[i].object # o
    /\ alive' = alive \ {o}
    /\ orphaned' = dialogVisible(win, o)
    /\ win' = [win EXCEPT !.made = @ \ {o}]
    /\ pending' = [pending EXCEPT ![o] = FALSE]
    /\ unprompted' = [unprompted EXCEPT ![o] = FALSE]
    /\ UNCHANGED <<tries, reading, unmade, overlapped>>

Next ==
    \/ \E o \in Objects :
          \/ signAsync(o) \/ PinpadResult(o) \/ Type(o) \/ PinOk(o) \/ PinCancel(o)
          \/ settingsDialog(o) \/ ListResponse(o) \/ Tick(o) \/ Leave(o)
    \/ CloseBox \/ BoxReturns

Spec == Init /\ [][Next]_vars

-----------------------------------------------------------------------------
(* Every variable has its type.                                            *)
TypeOK ==
    /\ win \in [open : SUBSET Dialogs,
                m_hParent : [Dialogs -> Windows \union {NULL}], disabled : SUBSET Windows,
                s_hWnd : Dialogs \union {NULL}, hooks : SUBSET (Dialogs \union {NULL}),
                edit : [Objects -> BOOLEAN], made : SUBSET Objects,
                time : [Objects -> 0..Timeout], strays : BOOLEAN,
                boxes : Seq([object : Objects, parent : Windows \union {NULL},
                             about : {"blocked", "wrong", "saved"}, shown : BOOLEAN])]
    /\ Len(win.boxes) <= MaxBoxes
    /\ alive \subseteq Objects
    /\ tries \in 0..MaxTries
    /\ pending \in [Objects -> BOOLEAN]
    /\ reading \in [Objects -> BOOLEAN]
    /\ unprompted \in [Objects -> BOOLEAN]
    /\ unmade \in BOOLEAN /\ overlapped \in BOOLEAN /\ orphaned \in BOOLEAN

(* enableParent() and disableParent(): no window of the browser, no dialog *)
(* and no message box is left without input when what it waits for is      *)
(* gone, however the windows of several objects own each other and are     *)
(* closed.                                                                 *)
NoWindowLeftDisabled ==
    \A x \in win.disabled : \E y \in Shown(win) : owner(win, y) = x

(* WM_INITDIALOG and WM_DESTROY: the one hook of the thread is set for the *)
(* dialog that is open, and removed with it, as long as no two objects     *)
(* have dialogs open together.                                             *)
HookFollowsDialog ==
    ~overlapped =>
        /\ win.hooks = win.open
        /\ \A d \in win.open : win.s_hWnd = d

(* askPin(): a request that waits for the user has a dialog or a message   *)
(* in front of him, or its dialog was not opened because the settings      *)
(* dialog was open or the window could not be made, or it was closed with  *)
(* the dialog that owned it.                                               *)
RequestIsPrompted ==
    \A o \in Objects :
        pending[o] =>
            \/ unprompted[o]
            \/ Prompts(o) \intersect win.open # {}
            \/ Failing(win, o)

(* And no PIN dialog asks for what is no longer wanted.                    *)
PromptHasRequest ==
    \A o \in alive : Prompts(o) \intersect win.open # {} => pending[o]

(* disableParent() and enableParent(): what a dialog or a message box was  *)
(* opened over takes no input until it is closed, unless a dialog could    *)
(* not be made: its next close() enables the parent that it never had.     *)
ParentWaits ==
    ~unmade =>
        \A x \in Shown(win) : owner(win, x) # NULL => owner(win, x) \in win.disabled

(* on_command(): no PIN stays in the entry while the user reads what       *)
(* became of it, or after the dialog is closed.                            *)
PinNotKept ==
    \A o \in Objects :
        win.edit[o] /\ ~unmade =>
            /\ visible(win, <<o, "pin">>)
            /\ \A i \in DOMAIN win.boxes :
                  win.boxes[i].shown /\ win.boxes[i].about # "saved" => win.boxes[i].object # o

(* resetProgressbar(), which a wrong PIN calls whether or not the pinpad   *)
(* dialog was opened: a timer that no window has and nobody kills is only  *)
(* ever left behind for a request whose dialog was refused, not made or    *)
(* taken away.                                                             *)
StraysAreUnprompted ==
    [][win'.strays # win.strays => \E o \in Objects : unprompted[o] /\ reading[o]]_vars
=============================================================================
