------------------------- MODULE Pkcs11ConfigProofs -------------------------
(***************************************************************************)
(* What is proved about Pkcs11Config, for any sets of windows, of modules, *)
(* of libraries and of certificates, and any list of library paths.        *)
(***************************************************************************)
EXTENDS Pkcs11Config, TLAPS, SequenceTheorems

-----------------------------------------------------------------------------
(***************************************************************************)
(* The calls of ConfigureEstEID that are not over.                         *)
(***************************************************************************)

Calls == [w : Windows, remove : SUBSET Names, load : BOOLEAN, dll : Libs \cup {NULL},
          restart : BOOLEAN, err : BOOLEAN]

LEMMA CallOfSeq ==
    ASSUME NEW s \in Seq(Calls)
    PROVE  /\ Len(s) \in Nat /\ DOMAIN s = 1..Len(s)
           /\ \A i \in DOMAIN s : s[i] \in Calls
<1>1. Len(s) \in Nat /\ DOMAIN s = 1..Len(s)
  BY LenProperties
<1>2. \A i \in 1..Len(s) : s[i] \in Calls
  BY ElementOfSeq
<1> QED BY <1>1, <1>2

LEMMA Pushed ==
    ASSUME NEW s \in Seq(Calls), NEW c \in Calls, NEW t, t = Append(s, c)
    PROVE  /\ t \in Seq(Calls) /\ Len(s) \in Nat /\ Len(t) = Len(s) + 1
           /\ DOMAIN s = 1..Len(s) /\ DOMAIN t = 1..Len(t)
           /\ t # <<>> /\ t[Len(t)] = c
           /\ \A i \in 1..Len(s) : t[i] = s[i]
<1>1. /\ t \in Seq(Calls) /\ t # <<>> /\ Len(t) = Len(s) + 1 /\ t[Len(s) + 1] = c
      /\ \A i \in 1..Len(s) : t[i] = s[i]
  BY AppendProperties
<1>2. Len(s) \in Nat /\ DOMAIN s = 1..Len(s)
  BY LenProperties
<1>3. DOMAIN t = 1..Len(t)
  BY <1>1, LenProperties
<1> QED BY <1>1, <1>2, <1>3

LEMMA Popped ==
    ASSUME NEW s \in Seq(Calls), s # <<>>, NEW t, t = Front(s)
    PROVE  /\ t \in Seq(Calls) /\ Len(s) \in Nat \ {0} /\ Len(t) = Len(s) - 1
           /\ DOMAIN s = 1..Len(s) /\ DOMAIN t = 1..Len(t)
           /\ s[Len(s)] \in Calls
           /\ \A i \in 1..Len(t) : t[i] = s[i]
<1>1. Len(s) \in Nat \ {0}
  BY EmptySeq
<1>2. DOMAIN s = 1..Len(s) /\ \A i \in 1..Len(s) : s[i] \in Calls
  BY LenProperties, ElementOfSeq
<1>3. \A i \in 1..(Len(s) - 1) : s[i] \in Calls
  BY <1>1, <1>2
<1>4. 1 \in Int /\ Len(s) - 1 \in Int
  BY <1>1
<1>5. /\ t \in Seq(Calls)
      /\ Len(t) = IF 1 <= Len(s) - 1 THEN (Len(s) - 1) - 1 + 1 ELSE 0
      /\ \A i \in 1..((Len(s) - 1) - 1 + 1) : t[i] = s[1 + i - 1]
  BY <1>3, <1>4, SubSeqProperties DEF Front
<1>6. Len(t) = Len(s) - 1
  <2>1. \A n \in Nat \ {0} : (IF 1 <= n - 1 THEN (n - 1) - 1 + 1 ELSE 0) = n - 1
    OBVIOUS
  <2> QED BY <1>1, <1>5, <2>1, Zenon
<1>7. \A i \in 1..Len(t) : t[i] = s[i]
  BY <1>1, <1>5, <1>6
<1>8. DOMAIN t = 1..Len(t)
  BY <1>5, LenProperties
<1>9. s[Len(s)] \in Calls
  BY <1>1, <1>2
<1> QED BY <1>1, <1>2, <1>5, <1>6, <1>7, <1>8, <1>9

(* The last call goes on.                                                  *)
LEMMA Updated ==
    ASSUME stack \in Seq(Calls), stack # <<>>, NEW c \in Calls, stack' = Update(c)
    PROVE  /\ stack' \in Seq(Calls) /\ stack' # <<>>
           /\ Len(stack) \in Nat \ {0} /\ Len(stack') = Len(stack)
           /\ DOMAIN stack = 1..Len(stack) /\ DOMAIN stack' = 1..Len(stack)
           /\ stack[Len(stack)] = Top /\ Top \in Calls /\ stack'[Len(stack)] = c
           /\ \A i \in 1..(Len(stack) - 1) : stack'[i] = stack[i]
<1>1. PICK f : f = Front(stack)
  OBVIOUS
<1>2. /\ f \in Seq(Calls) /\ Len(stack) \in Nat \ {0} /\ Len(f) = Len(stack) - 1
      /\ DOMAIN stack = 1..Len(stack) /\ stack[Len(stack)] \in Calls
      /\ \A i \in 1..Len(f) : f[i] = stack[i]
  BY <1>1, Popped
<1>3. stack' = Append(f, c)
  BY <1>1 DEF Update
<1>4. /\ stack' \in Seq(Calls) /\ Len(stack') = Len(f) + 1 /\ DOMAIN stack' = 1..Len(stack')
      /\ stack' # <<>> /\ stack'[Len(stack')] = c
      /\ \A i \in 1..Len(f) : stack'[i] = f[i]
  BY <1>2, <1>3, Pushed
<1>5. stack[Len(stack)] = Top
  BY DEF Top, Last
<1> QED BY <1>2, <1>4, <1>5

-----------------------------------------------------------------------------
(***************************************************************************)
(* Types.  A call is for a window that is open, and for no other.          *)
(***************************************************************************)

CallsOK ==
    /\ stack \in Seq(Calls)
    /\ \A i \in DOMAIN stack :
         window[stack[i].w].open /\ (stack[i].load => stack[i].dll \in Libs)
    /\ \A i, j \in DOMAIN stack : stack[i].w = stack[j].w => i = j

Module == [libName : Libs, friendly : BOOLEAN]
Window == [open : BOOLEAN, icon : {"none", "normal", "error"}, bar : BOOLEAN]

DataOK ==
    /\ version \in Versions /\ configured \in BOOLEAN
    /\ readable \subseteq Libs /\ prefModule \in {NULL} \cup Libs /\ certDir \in CertDirs
    /\ secmoddb \in [Names -> {NULL} \cup Module]
    /\ certdb \in [CaCerts -> {"absent", "C,C,P", "edited"}]
    /\ window \in [Windows -> Window]
    /\ unloaded \subseteq Libs /\ untold \subseteq unloaded

TypeInv == DataOK /\ CallsOK

LEMMA DllTyped ==
    ASSUME DataOK
    PROVE  EstEidDll \in {NULL} \cup Libs
<1>1. moduleDlls \in Seq(Libs)
  <2>1. CASE prefModule # NULL
    <3>1. prefModule \in Libs
      BY <2>1 DEF DataOK
    <3>2. <<prefModule>> \in Seq(Libs)
      BY <3>1
    <3> QED BY <2>1, <3>2 DEF moduleDlls
  <2>2. CASE prefModule = NULL
    BY <2>2, ConfigAssumption DEF moduleDlls
  <2> QED BY <2>1, <2>2
<1>2. \A i \in DOMAIN moduleDlls : moduleDlls[i] \in Libs
  BY <1>1, LenProperties, ElementOfSeq
<1> QED BY <1>2 DEF EstEidDll

(* What a call is made of, whatever the window and its plugin.             *)
LEMMA CallTyped ==
    ASSUME DataOK, NEW w \in Windows, NEW e \in BOOLEAN
    PROVE  /\ Call(w, e) \in Calls
           /\ Call(w, e).w = w
           /\ Call(w, e).load => Call(w, e).dll \in Libs
<1>1. EstEidDll \in {NULL} \cup Libs
  BY DllTyped
<1>2. modulesToRemove \in SUBSET Names
  BY DEF modulesToRemove, Listed
<1>3. needtoload \in BOOLEAN /\ restartNeeded \in BOOLEAN /\ (needtoload => EstEidDll # NULL)
  BY DEF needtoload, restartNeeded
<1>4. (e \/ EstEidDll = NULL) \in BOOLEAN
  OBVIOUS
<1> QED BY <1>1, <1>2, <1>3, <1>4 DEF Call, Calls

(* The last call goes on.                                                  *)
LEMMA UpdateKeepsCalls ==
    ASSUME CallsOK, stack # <<>>, NEW c \in Calls, stack' = Update(c),
           c.w = Top.w, c.dll = Top.dll, c.load => Top.load, window' = window
    PROVE  CallsOK'
<1> DEFINE N == Len(stack)
<1>1. /\ stack' \in Seq(Calls) /\ N \in Nat \ {0}
      /\ DOMAIN stack = 1..N /\ DOMAIN stack' = 1..N
      /\ stack'[N] = c
      /\ \A i \in 1..(N - 1) : stack'[i] = stack[i]
  <2>1. stack \in Seq(Calls)
    BY DEF CallsOK
  <2> QED BY <2>1, Updated
<1>2. Top = stack[N]
  BY DEF Top, Last
<1> HIDE DEF N
<1>3. \A i \in 1..N : /\ stack'[i].w = stack[i].w /\ stack'[i].dll = stack[i].dll
                      /\ stack'[i].load => stack[i].load
  <2> SUFFICES ASSUME NEW i \in 1..N
               PROVE  /\ stack'[i].w = stack[i].w /\ stack'[i].dll = stack[i].dll
                      /\ stack'[i].load => stack[i].load
    OBVIOUS
  <2>1. CASE i = N
    BY <2>1, <1>1, <1>2
  <2>2. CASE i # N
    <3>1. i \in 1..(N - 1)
      BY <2>2, <1>1
    <3> QED BY <3>1, <1>1
  <2> QED BY <2>1, <2>2
<1> QED BY <1>1, <1>3 DEF CallsOK

LEMMA TypeInit == Init => TypeInv
<1> SUFFICES ASSUME Init PROVE TypeInv
  OBVIOUS
<1>1. DataOK
  BY DEF Init, DataOK, ClosedWindow, Module, Window
<1>2. CallsOK
  <2>1. stack = <<>> /\ <<>> \in Seq(Calls)
    BY EmptySeq DEF Init
  <2> QED BY <2>1 DEF CallsOK
<1> QED BY <1>1, <1>2 DEF TypeInv

LEMMA NoCalls ==
    ASSUME stack' = <<>>
    PROVE  CallsOK'
<1>1. <<>> \in Seq(Calls)
  BY EmptySeq
<1> QED BY <1>1 DEF CallsOK

LEMMA LoadTyped ==
    ASSUME TypeInv, NEW w \in Windows, LoadEstEID(w)
    PROVE  TypeInv'
<1>1. DataOK /\ CallsOK
  BY DEF TypeInv
<1>2. PICK plugin \in BOOLEAN :
        LET err == version.gBrowser /\ ~ plugin
            Icon(e) == [open |-> TRUE, bar |-> FALSE,
                        icon |-> IF e THEN "error" ELSE "normal"]
        IN  \/ /\ window' = [window EXCEPT ![w] = Icon(err)]
               /\ UNCHANGED <<configured, stack, ended>>
            \/ /\ window' = [window EXCEPT ![w] = Icon(TRUE)]
               /\ configured' = TRUE
               /\ UNCHANGED stack
            \/ /\ window' = [window EXCEPT ![w].open = TRUE]
               /\ stack' = Append(stack, Call(w, err))
               /\ UNCHANGED <<configured, ended>>
  BY DEF LoadEstEID
<1>3. window' \in [Windows -> Window]
      /\ window'[w].open /\ \A v \in Windows \ {w} : window'[v] = window[v]
  <2>1. \E r \in Window : window' = [window EXCEPT ![w] = r] /\ r.open
    <3>1. CASE window' = [window EXCEPT ![w].open = TRUE]
      <4>1. /\ [window[w] EXCEPT !.open = TRUE] \in Window
            /\ [window[w] EXCEPT !.open = TRUE].open
        BY <1>1 DEF DataOK, Window
      <4>2. window' = [window EXCEPT ![w] = [window[w] EXCEPT !.open = TRUE]]
        BY <3>1
      <4> QED BY <4>1, <4>2, Zenon
    <3>2. CASE \E e \in BOOLEAN :
                 window' = [window EXCEPT ![w] =
                              [open |-> TRUE, bar |-> FALSE,
                               icon |-> IF e THEN "error" ELSE "normal"]]
      <4>1. PICK e \in BOOLEAN :
                 window' = [window EXCEPT ![w] =
                              [open |-> TRUE, bar |-> FALSE,
                               icon |-> IF e THEN "error" ELSE "normal"]]
        BY <3>2
      <4>2. [open |-> TRUE, bar |-> FALSE, icon |-> IF e THEN "error" ELSE "normal"]
              \in Window
        BY DEF Window
      <4> QED BY <4>1, <4>2
    <3> QED BY <1>2, <3>1, <3>2
  <2> QED BY <1>1, <2>1 DEF DataOK
<1>4. DataOK'
  <2>1. configured' \in BOOLEAN
    BY <1>1, <1>2 DEF DataOK
  <2> QED BY <1>1, <1>3, <2>1 DEF LoadEstEID, DataOK, inputs
<1>5. \A v \in Windows : window[v].open => window'[v].open
  BY <1>3
<1>6. \A i \in DOMAIN stack : stack[i] \in Calls /\ stack[i].w \in Windows
  <2>1. stack \in Seq(Calls)
    BY <1>1 DEF CallsOK
  <2>2. \A i \in DOMAIN stack : stack[i] \in Calls
    BY <2>1, CallOfSeq
  <2> QED BY <2>2 DEF Calls
<1>7. ASSUME UNCHANGED stack PROVE CallsOK'
  BY <1>1, <1>5, <1>6, <1>7 DEF CallsOK
<1>8. ASSUME \E e \in BOOLEAN : stack' = Append(stack, Call(w, e)) PROVE CallsOK'
  <2>1. PICK e \in BOOLEAN : stack' = Append(stack, Call(w, e))
    BY <1>8
  <2> DEFINE c == Call(w, e)
  <2>2. c \in Calls /\ c.w = w /\ (c.load => c.dll \in Libs)
    BY <1>1, CallTyped
  <2>3. stack' = Append(stack, c)
    BY <2>1
  <2> HIDE DEF c
  <2>4. /\ stack' \in Seq(Calls) /\ Len(stack) \in Nat /\ Len(stack') = Len(stack) + 1
        /\ DOMAIN stack = 1..Len(stack) /\ DOMAIN stack' = 1..Len(stack')
        /\ stack'[Len(stack')] = c
        /\ \A i \in 1..Len(stack) : stack'[i] = stack[i]
    <3>1. stack \in Seq(Calls)
      BY <1>1 DEF CallsOK
    <3> QED BY <3>1, <2>2, <2>3, Pushed
  <2>5. \A i \in DOMAIN stack : stack[i].w # w
    BY <1>1 DEF CallsOK, LoadEstEID
  <2>6. \A i \in DOMAIN stack' :
          \/ i \in DOMAIN stack /\ stack'[i] = stack[i]
          \/ i = Len(stack') /\ i \notin DOMAIN stack /\ stack'[i] = c
    BY <2>4
  <2>7. \A i \in DOMAIN stack' :
          window'[stack'[i].w].open /\ (stack'[i].load => stack'[i].dll \in Libs)
    BY <1>1, <1>3, <1>5, <1>6, <2>2, <2>6 DEF CallsOK
  <2>8. \A i, j \in DOMAIN stack' : stack'[i].w = stack'[j].w => i = j
    BY <1>1, <2>2, <2>5, <2>6 DEF CallsOK
  <2> QED BY <2>4, <2>7, <2>8 DEF CallsOK
<1>9. CallsOK'
  <2>1. (version.gBrowser /\ ~ plugin) \in BOOLEAN
    BY <1>1, ConfigAssumption DEF DataOK, Version
  <2> QED BY <1>2, <1>7, <1>8, <2>1
<1> QED BY <1>4, <1>9 DEF TypeInv

(* The last call returns.                                                  *)
LEMMA Returned ==
    ASSUME stack \in Seq(Calls), stack # <<>>, stack' = Front(stack)
    PROVE  /\ stack' \in Seq(Calls) /\ Len(stack) \in Nat \ {0}
           /\ DOMAIN stack = 1..Len(stack) /\ DOMAIN stack' = 1..(Len(stack) - 1)
           /\ stack[Len(stack)] = Top /\ Top \in Calls
           /\ \A i \in 1..(Len(stack) - 1) : stack'[i] = stack[i]
<1>1. /\ stack' \in Seq(Calls) /\ Len(stack) \in Nat \ {0} /\ Len(stack') = Len(stack) - 1
      /\ DOMAIN stack = 1..Len(stack) /\ DOMAIN stack' = 1..Len(stack')
      /\ stack[Len(stack)] \in Calls
      /\ \A i \in 1..Len(stack') : stack'[i] = stack[i]
  BY Popped
<1>2. stack[Len(stack)] = Top
  BY DEF Top, Last
<1> QED BY <1>1, <1>2

LEMMA RemoveTyped ==
    ASSUME TypeInv, RemoveModule
    PROVE  TypeInv'
<1>1. DataOK /\ CallsOK /\ stack # <<>> /\ stack \in Seq(Calls)
  BY DEF TypeInv, CallsOK, RemoveModule
<1>2. Top \in Calls
  <2>1. Len(stack) \in DOMAIN stack
    BY <1>1, EmptySeq, CallOfSeq
  <2> QED BY <1>1, <2>1, CallOfSeq DEF Top, Last
<1>3. PICK n \in Top.remove :
         \/ /\ secmoddb[n] # NULL
            /\ secmoddb' = [secmoddb EXCEPT ![n] = NULL]
            /\ unloaded' = unloaded \cup {secmoddb[n].libName}
            /\ stack' = Update([Top EXCEPT !.remove = @ \ {n}])
         \/ /\ stack' = Update([Top EXCEPT !.remove = @ \ {n}, !.err = TRUE])
            /\ UNCHANGED <<secmoddb, unloaded>>
  BY DEF RemoveModule
<1>4. n \in Names
  BY <1>2 DEF Calls
<1>5. DataOK'
  <2>1. secmoddb' \in [Names -> {NULL} \cup Module]
    BY <1>1, <1>3 DEF DataOK
  <2>2. unloaded' \subseteq Libs /\ unloaded \subseteq unloaded'
    BY <1>1, <1>3, <1>4 DEF DataOK, Module
  <2> QED BY <1>1, <2>1, <2>2 DEF DataOK, RemoveModule, inputs
<1>6. CallsOK'
  <2>1. PICK c \in Calls : /\ stack' = Update(c) /\ c.w = Top.w /\ c.dll = Top.dll
                           /\ c.load = Top.load
    <3> DEFINE c1 == [Top EXCEPT !.remove = @ \ {n}]
               c2 == [Top EXCEPT !.remove = @ \ {n}, !.err = TRUE]
    <3>1. /\ c1 \in Calls /\ c1.w = Top.w /\ c1.dll = Top.dll /\ c1.load = Top.load
          /\ c2 \in Calls /\ c2.w = Top.w /\ c2.dll = Top.dll /\ c2.load = Top.load
      BY <1>2 DEF Calls
    <3>2. stack' = Update(c1) \/ stack' = Update(c2)
      BY <1>3
    <3> HIDE DEF c1, c2
    <3> QED BY <3>1, <3>2
  <2> QED BY <1>1, <2>1, UpdateKeepsCalls DEF RemoveModule
<1> QED BY <1>5, <1>6 DEF TypeInv

LEMMA AddTyped ==
    ASSUME TypeInv, AddModule
    PROVE  TypeInv'
<1>1. DataOK /\ CallsOK /\ stack # <<>> /\ stack \in Seq(Calls)
  BY DEF TypeInv, CallsOK, AddModule
<1>2. Top \in Calls /\ Top.dll \in Libs
  <2>1. Len(stack) \in DOMAIN stack
    BY <1>1, EmptySeq, CallOfSeq
  <2> QED BY <1>1, <2>1, CallOfSeq DEF Top, Last, AddModule, CallsOK
<1>3. DataOK'
  <2>1. secmoddb' \in [Names -> {NULL} \cup Module]
    <3>1. NewModule(Top.dll) \in Module
      BY <1>2 DEF NewModule, Module
    <3>2. \/ secmoddb' = secmoddb
          \/ secmoddb' = [secmoddb EXCEPT ![EstEidModName] = NewModule(Top.dll)]
      BY DEF AddModule
    <3>3. secmoddb \in [Names -> {NULL} \cup Module]
      BY <1>1 DEF DataOK
    <3> QED BY <3>1, <3>2, <3>3
  <2>2. untold' \subseteq unloaded'
    BY <1>1 DEF AddModule, DataOK
  <2> QED BY <1>1, <2>1, <2>2 DEF DataOK, AddModule, inputs
<1>4. CallsOK'
  <2>1. PICK c \in Calls : /\ stack' = Update(c) /\ c.w = Top.w /\ c.dll = Top.dll
                           /\ c.load = FALSE
    <3> DEFINE c1 == [Top EXCEPT !.load = FALSE]
               c2 == [Top EXCEPT !.load = FALSE, !.err = TRUE]
    <3>1. /\ c1 \in Calls /\ c1.w = Top.w /\ c1.dll = Top.dll /\ c1.load = FALSE
          /\ c2 \in Calls /\ c2.w = Top.w /\ c2.dll = Top.dll /\ c2.load = FALSE
      BY <1>2 DEF Calls
    <3>2. stack' = Update(c1) \/ stack' = Update(c2)
      BY DEF AddModule
    <3> HIDE DEF c1, c2
    <3> QED BY <3>1, <3>2
  <2> QED BY <1>1, <2>1, UpdateKeepsCalls DEF AddModule
<1> QED BY <1>3, <1>4 DEF TypeInv

LEMMA FinishTyped ==
    ASSUME TypeInv, FinishConfigure
    PROVE  TypeInv'
<1>1. DataOK /\ CallsOK /\ stack # <<>> /\ stack \in Seq(Calls) /\ stack' = Front(stack)
  BY DEF TypeInv, CallsOK, FinishConfigure
<1>2. /\ stack' \in Seq(Calls) /\ Len(stack) \in Nat \ {0}
      /\ DOMAIN stack = 1..Len(stack) /\ DOMAIN stack' = 1..(Len(stack) - 1)
      /\ stack[Len(stack)] = Top /\ Top \in Calls
      /\ \A i \in 1..(Len(stack) - 1) : stack'[i] = stack[i]
  BY <1>1, Returned
<1>3. PICK threw \in BOOLEAN, added \in SUBSET Missing, err \in BOOLEAN, bar \in BOOLEAN :
        /\ certdb' = [c \in CaCerts |-> IF c \in added THEN "C,C,P" ELSE certdb[c]]
        /\ window' = [window EXCEPT ![Top.w] =
                          [open |-> TRUE, bar |-> bar, icon |-> IF err THEN "error" ELSE "normal"]]
        /\ untold' \in {{}, untold}
  <2>1. PICK threw \in BOOLEAN, added \in SUBSET Missing :
         LET asked == Top.restart /\ ~ threw
             err == \/ Top.err \/ threw \/ certDir = NULL \/ added # Missing
                    \/ "bad" \in certDir
                    \/ asked /\ ~ version.gBrowser
         IN  /\ certdb' = [c \in CaCerts |-> IF c \in added THEN "C,C,P" ELSE certdb[c]]
             /\ window' = [window EXCEPT ![Top.w] =
                               [open |-> TRUE, bar |-> asked /\ version.gBrowser,
                                icon |-> IF err THEN "error" ELSE "normal"]]
             /\ untold' = IF err \/ asked THEN {} ELSE untold
    BY DEF FinishConfigure
  <2> DEFINE asked == Top.restart /\ ~ threw
             err == \/ Top.err \/ threw \/ certDir = NULL \/ added # Missing
                    \/ "bad" \in certDir
                    \/ asked /\ ~ version.gBrowser
             bar == asked /\ version.gBrowser
  <2>2. err \in BOOLEAN /\ bar \in BOOLEAN
    <3>1. Top.restart \in BOOLEAN /\ Top.err \in BOOLEAN /\ version.gBrowser \in BOOLEAN
      BY <1>1, <1>2, ConfigAssumption DEF Calls, DataOK, Version
    <3> QED BY <3>1
  <2>3. untold' \in {{}, untold}
    BY <2>1
  <2> QED BY <2>1, <2>2, <2>3
<1>4. Top.w \in Windows
  BY <1>2 DEF Calls
<1>5. DataOK'
  <2>1. certdb' \in [CaCerts -> {"absent", "C,C,P", "edited"}]
    BY <1>1, <1>3 DEF DataOK
  <2>2. window' \in [Windows -> Window]
    <3>1. [open |-> TRUE, bar |-> bar, icon |-> IF err THEN "error" ELSE "normal"] \in Window
      BY DEF Window
    <3> QED BY <1>1, <1>3, <3>1 DEF DataOK
  <2>3. untold' \subseteq unloaded
    BY <1>1, <1>3 DEF DataOK
  <2> QED BY <1>1, <2>1, <2>2, <2>3 DEF DataOK, FinishConfigure, inputs
<1>6. CallsOK'
  <2>1. \A v \in Windows : window[v].open => window'[v].open
    BY <1>1, <1>3, <1>4 DEF DataOK
  <2>2. \A i \in DOMAIN stack' :
          i \in DOMAIN stack /\ stack'[i] = stack[i] /\ stack[i].w \in Windows
    <3>1. \A i \in DOMAIN stack : stack[i] \in Calls
      BY <1>1, CallOfSeq
    <3> QED BY <1>2, <3>1 DEF Calls
  <2> QED BY <1>1, <1>2, <2>1, <2>2 DEF CallsOK
<1> QED BY <1>5, <1>6 DEF TypeInv

LEMMA QuitTyped ==
    ASSUME TypeInv, Quit
    PROVE  TypeInv'
<1>1. CallsOK'
  BY NoCalls DEF Quit
<1>2. ClosedWindow \in Window
  BY DEF ClosedWindow, Window
<1>3. DataOK'
  BY <1>2 DEF TypeInv, DataOK, Quit, inputs
<1> QED BY <1>1, <1>3 DEF TypeInv

LEMMA CloseTyped ==
    ASSUME TypeInv, NEW w \in Windows, CloseWindow(w)
    PROVE  TypeInv'
<1>1. ClosedWindow \in Window
  BY DEF ClosedWindow, Window
<1>2. DataOK'
  BY <1>1 DEF TypeInv, DataOK, CloseWindow, inputs
<1>3. \A v \in Windows \ {w} : window'[v] = window[v]
  BY DEF TypeInv, DataOK, CloseWindow
<1>4. \A i \in DOMAIN stack : stack[i].w \in Windows \ {w}
  <2>1. \A i \in DOMAIN stack : stack[i] \in Calls
    BY CallOfSeq DEF TypeInv, CallsOK
  <2> QED BY <2>1 DEF CloseWindow, Calls
<1>5. CallsOK'
  BY <1>3, <1>4 DEF TypeInv, CallsOK, CloseWindow
<1> QED BY <1>2, <1>5 DEF TypeInv

(* What the user and the system change has the type it had.                *)
LEMMA ChangesTyped ==
    ASSUME TypeInv, ChangeInputs \/ EditModules \/ EditTrust
    PROVE  TypeInv'
<1>1. CallsOK'
  BY NoCalls DEF ChangeInputs, EditModules, EditTrust
<1>2. DataOK
  BY DEF TypeInv
<1>3. CASE ChangeInputs
  <2>1. readable' \subseteq Libs /\ prefModule' \in {NULL} \cup Libs /\ certDir' \in CertDirs
    BY <1>2, <1>3 DEF ChangeInputs, DataOK
  <2>2. DataOK'
    BY <1>2, <1>3, <2>1 DEF ChangeInputs, DataOK
  <2> QED BY <1>1, <2>2 DEF TypeInv
<1>4. CASE EditModules
  <2>1. /\ secmoddb' \in [Names -> {NULL} \cup Module]
        /\ unloaded' \subseteq Libs /\ unloaded \subseteq unloaded'
    <3>1. PICK n \in Names :
         \/ /\ secmoddb[n] # NULL
            /\ secmoddb' = [secmoddb EXCEPT ![n] = NULL]
            /\ unloaded' = unloaded \cup {secmoddb[n].libName}
         \/ /\ \E l \in Libs :
                 secmoddb' = [secmoddb EXCEPT ![n] = [libName |-> l, friendly |-> FALSE]]
            /\ UNCHANGED unloaded
      BY <1>4 DEF EditModules
    <3>2. /\ secmoddb \in [Names -> {NULL} \cup Module] /\ unloaded \subseteq Libs
          /\ secmoddb[n] # NULL => secmoddb[n].libName \in Libs
      BY <1>2 DEF DataOK, Module
    <3>3. CASE secmoddb' = [secmoddb EXCEPT ![n] = NULL]
               /\ unloaded' = unloaded \cup {secmoddb[n].libName} /\ secmoddb[n] # NULL
      BY <3>2, <3>3
    <3>4. CASE \E l \in Libs :
                 /\ secmoddb' = [secmoddb EXCEPT ![n] = [libName |-> l, friendly |-> FALSE]]
                 /\ UNCHANGED unloaded
      <4>1. PICK l \in Libs :
                 /\ secmoddb' = [secmoddb EXCEPT ![n] = [libName |-> l, friendly |-> FALSE]]
                 /\ UNCHANGED unloaded
        BY <3>4
      <4>2. [libName |-> l, friendly |-> FALSE] \in Module
        BY DEF Module
      <4> QED BY <3>2, <4>1, <4>2
    <3> QED BY <3>1, <3>3, <3>4
  <2>2. DataOK'
    BY <1>2, <1>4, <2>1 DEF EditModules, DataOK, inputs
  <2> QED BY <1>1, <2>2 DEF TypeInv
<1>5. CASE EditTrust
  <2>1. certdb' \in [CaCerts -> {"absent", "C,C,P", "edited"}]
    BY <1>2, <1>5 DEF EditTrust, DataOK
  <2>2. DataOK'
    BY <1>2, <1>5, <2>1 DEF EditTrust, DataOK, inputs
  <2> QED BY <1>1, <2>2 DEF TypeInv
<1> QED BY <1>3, <1>4, <1>5

LEMMA TypeStep == TypeInv /\ [Next]_vars => TypeInv'
<1> SUFFICES ASSUME TypeInv, [Next]_vars PROVE TypeInv'
  OBVIOUS
<1>1. ASSUME NEW w \in Windows, LoadEstEID(w) PROVE TypeInv'
  BY <1>1, LoadTyped
<1>2. ASSUME NEW w \in Windows, CloseWindow(w) PROVE TypeInv'
  BY <1>2, CloseTyped
<1>3. CASE RemoveModule
  BY <1>3, RemoveTyped
<1>4. CASE AddModule
  BY <1>4, AddTyped
<1>5. CASE FinishConfigure
  BY <1>5, FinishTyped
<1>6. CASE doRestart \/ Crash
  BY <1>6, QuitTyped DEF doRestart, Crash
<1>7. CASE ChangeInputs \/ EditModules \/ EditTrust
  BY <1>7, ChangesTyped
<1>8. CASE UNCHANGED vars
  BY <1>8 DEF vars, inputs, TypeInv, DataOK, CallsOK
<1> QED BY <1>1, <1>2, <1>3, <1>4, <1>5, <1>6, <1>7, <1>8 DEF Next

LEMMA TypeImplied == TypeInv => TypeOK
<1> SUFFICES ASSUME TypeInv PROVE TypeOK
  OBVIOUS
<1>1. \A i \in DOMAIN stack : stack[i] \in Calls
  BY CallOfSeq DEF TypeInv, CallsOK
<1>2. \A i \in DOMAIN stack : stack[i].remove \subseteq Names
  BY <1>1 DEF Calls
<1> QED BY <1>2 DEF TypeInv, DataOK, CallsOK, TypeOK, Module, Window

LEMMA TypesKept == Spec => []TypeInv
<1> QED BY TypeInit, TypeStep, PTL DEF Spec

(* The database, the windows and the running calls keep their types; a     *)
(* call that loads has a library, and no window configures twice at once.  *)
THEOREM TypeCorrect == Spec => []TypeOK
<1> QED BY TypesKept, TypeImplied, PTL

-----------------------------------------------------------------------------
(***************************************************************************)
(* One start is enough.                                                    *)
(***************************************************************************)

(* The module the extension wants is in the database.                      *)
Loaded ==
    /\ secmoddb[EstEidModName] # NULL
    /\ secmoddb[EstEidModName].libName = EstEidDll
    /\ secmoddb[EstEidModName].friendly

(* A call has found the library that is there, or failed; it removes only  *)
(* what the extension recognises, and its own module only to load it anew. *)
UpToDate(c) ==
    /\ c.dll = EstEidDll
    /\ c.dll # NULL \/ (c.err /\ ~ c.load)
    /\ EstEidModName \in c.remove => c.load \/ c.err
    /\ \A n \in c.remove :
         n = EstEidModName \/ secmoddb[n] = NULL \/ secmoddb[n].libName \in Recognized

(* A call without an error leaves nothing to do.                           *)
WillSettle(c) ==
    ~ c.err =>
        /\ c.load \/ Loaded
        /\ \A n \in Names \ {EstEidModName} :
             secmoddb[n] # NULL /\ secmoddb[n].libName \in Recognized => n \in c.remove

(* A call above another does not remove the module the other one counts on. *)
CallsInv ==
    /\ \A i \in DOMAIN stack : UpToDate(stack[i]) /\ WillSettle(stack[i])
    /\ \A i, j \in DOMAIN stack :
         i < j /\ ~ stack[i].err /\ ~ stack[i].load => EstEidModName \notin stack[j].remove

SettledInv == CallsInv /\ Settled

LEMMA DllKept ==
    ASSUME UNCHANGED inputs
    PROVE  EstEidDll' = EstEidDll
<1> QED BY DEF inputs, EstEidDll, Picked, moduleDlls

LEMMA LoadedMeans ==
    ASSUME NEW e \in BOOLEAN, NEW w
    PROVE  /\ needtoload <=> EstEidDll # NULL /\ ~ Loaded
           /\ EstEidModName \in modulesToRemove => ~ Loaded
           /\ UpToDate(Call(w, e)) /\ WillSettle(Call(w, e))
<1>1. needtoload <=> EstEidDll # NULL /\ ~ Loaded
  <2>1. (\E n \in Listed : Ours(n) /\ allSlotsFriendly(n)) <=> Loaded
    BY ConfigAssumption DEF Listed, Ours, allSlotsFriendly, Loaded
  <2> QED BY <2>1 DEF needtoload
<1>2. EstEidModName \in modulesToRemove => ~ Loaded
  BY DEF modulesToRemove, Listed, Ours, allSlotsFriendly, Loaded
<1>3. \A n \in modulesToRemove : n = EstEidModName \/ secmoddb[n].libName \in Recognized
  BY DEF modulesToRemove, Ours
<1>4. \A n \in Names \ {EstEidModName} :
        secmoddb[n] # NULL /\ secmoddb[n].libName \in Recognized => n \in modulesToRemove
  BY DEF modulesToRemove, Listed, Ours
<1> DEFINE c == Call(w, e)
<1>5. /\ c.remove = modulesToRemove /\ c.load = needtoload /\ c.dll = EstEidDll
      /\ c.err = (e \/ EstEidDll = NULL)
  BY DEF Call
<1> HIDE DEF c
<1>6. UpToDate(c)
  BY <1>1, <1>2, <1>3, <1>5 DEF UpToDate
<1>7. WillSettle(c)
  BY <1>1, <1>4, <1>5 DEF WillSettle
<1> QED BY <1>1, <1>2, <1>6, <1>7 DEF c

LEMMA CallsWithoutEffect ==
    ASSUME CallsInv, UNCHANGED <<stack, secmoddb, inputs>>
    PROVE  CallsInv'
<1>1. EstEidDll' = EstEidDll
  BY DllKept
<1> QED BY <1>1 DEF CallsInv, UpToDate, WillSettle, Loaded

LEMMA Starts ==
    ASSUME TypeInv, NEW w \in Windows, LoadEstEID(w)
    PROVE  \/ UNCHANGED stack
           \/ \E e \in BOOLEAN : stack' = Append(stack, Call(w, e)) /\ Call(w, e) \in Calls
<1>1. PICK plugin \in BOOLEAN :
        \/ UNCHANGED stack
        \/ stack' = Append(stack, Call(w, version.gBrowser /\ ~ plugin))
  BY DEF LoadEstEID
<1>2. (version.gBrowser /\ ~ plugin) \in BOOLEAN
  BY ConfigAssumption DEF TypeInv, DataOK, Version
<1>3. \A e \in BOOLEAN : Call(w, e) \in Calls
  BY CallTyped DEF TypeInv
<1> QED BY <1>1, <1>2, <1>3

LEMMA LoadSettles ==
    ASSUME TypeInv, CallsInv, NEW w \in Windows, LoadEstEID(w)
    PROVE  CallsInv'
<1>1. CASE UNCHANGED stack
  BY <1>1, CallsWithoutEffect DEF LoadEstEID
<1>2. CASE \E e \in BOOLEAN : stack' = Append(stack, Call(w, e))
  <2>1. PICK e \in BOOLEAN : stack' = Append(stack, Call(w, e))
    BY <1>2
  <2> DEFINE c == Call(w, e)
  <2>2. c \in Calls /\ UpToDate(c) /\ WillSettle(c)
    BY CallTyped, LoadedMeans DEF TypeInv
  <2>3. EstEidModName \in c.remove => ~ Loaded
    BY LoadedMeans DEF Call
  <2>4. stack' = Append(stack, c) /\ stack \in Seq(Calls)
    BY <2>1 DEF TypeInv, CallsOK
  <2> HIDE DEF c
  <2>5. /\ stack' \in Seq(Calls) /\ Len(stack) \in Nat /\ Len(stack') = Len(stack) + 1
        /\ DOMAIN stack = 1..Len(stack) /\ DOMAIN stack' = 1..Len(stack')
        /\ stack'[Len(stack')] = c
        /\ \A i \in 1..Len(stack) : stack'[i] = stack[i]
    BY <2>2, <2>4, Pushed
  <2>6. \A i \in DOMAIN stack' :
          \/ i \in DOMAIN stack /\ stack'[i] = stack[i]
          \/ i = Len(stack) + 1 /\ stack'[i] = c
    BY <2>5
  <2>7. UNCHANGED secmoddb /\ EstEidDll' = EstEidDll
    BY DllKept DEF LoadEstEID
  <2>8. \A i \in DOMAIN stack' : (UpToDate(stack[i]) /\ WillSettle(stack[i]))' 
    <3> SUFFICES ASSUME NEW i \in DOMAIN stack'
                 PROVE  (UpToDate(stack[i]) /\ WillSettle(stack[i]))'
      OBVIOUS
    <3>1. UpToDate(stack'[i]) /\ WillSettle(stack'[i])
      BY <2>2, <2>6 DEF CallsInv
    <3> QED BY <2>7, <3>1 DEF UpToDate, WillSettle, Loaded
  <2>9. \A i, j \in DOMAIN stack' :
          i < j /\ ~ stack'[i].err /\ ~ stack'[i].load => EstEidModName \notin stack'[j].remove
    <3> SUFFICES ASSUME NEW i \in DOMAIN stack', NEW j \in DOMAIN stack',
                        i < j, ~ stack'[i].err, ~ stack'[i].load
                 PROVE  EstEidModName \notin stack'[j].remove
      OBVIOUS
    <3>1. i \in DOMAIN stack /\ stack'[i] = stack[i]
      BY <2>5
    <3>2. Loaded
      BY <3>1 DEF CallsInv, WillSettle
    <3>3. CASE j \in DOMAIN stack /\ stack'[j] = stack[j]
      BY <3>1, <3>3 DEF CallsInv
    <3>4. CASE stack'[j] = c
      BY <2>3, <3>2, <3>4
    <3> QED BY <2>6, <3>3, <3>4
  <2> QED BY <2>8, <2>9 DEF CallsInv
<1>3. UNCHANGED stack \/ \E e \in BOOLEAN : stack' = Append(stack, Call(w, e))
  BY Starts
<1> QED BY <1>1, <1>2, <1>3

(* The last call goes on: what has to be shown of it, and of those below.  *)
LEMMA UpdateSettles ==
    ASSUME TypeInv, CallsInv, stack # <<>>, NEW c \in Calls, stack' = Update(c),
           UNCHANGED inputs, UpToDate(c)', WillSettle(c)',
           EstEidModName \in c.remove => EstEidModName \in Top.remove,
           EstEidModName \notin Top.remove /\ Loaded => Loaded',
           \A n \in Names \ {EstEidModName} :
             secmoddb'[n] # NULL => secmoddb'[n] = secmoddb[n]
    PROVE  CallsInv'
<1> DEFINE N == Len(stack)
<1>1. /\ N \in Nat \ {0} /\ DOMAIN stack = 1..N /\ DOMAIN stack' = 1..N
      /\ stack[N] = Top /\ stack'[N] = c
      /\ \A i \in 1..(N - 1) : stack'[i] = stack[i]
  BY Updated DEF TypeInv, CallsOK
<1>2. \A i \in DOMAIN stack : stack[i] \in Calls
  BY CallOfSeq DEF TypeInv, CallsOK
<1> HIDE DEF N
<1>3. EstEidDll' = EstEidDll
  BY DllKept
<1>4. \A i \in 1..(N - 1) : i \in DOMAIN stack /\ i < N /\ N \in DOMAIN stack
  BY <1>1
<1>5. ASSUME NEW i \in DOMAIN stack'
      PROVE  (UpToDate(stack[i]) /\ WillSettle(stack[i]))'
  <2>1. CASE i = N
    BY <1>1, <2>1
  <2>2. CASE i \in 1..(N - 1)
    <3>0. PICK d : d = stack[i]
      OBVIOUS
    <3>1. d \in Calls /\ UpToDate(d) /\ WillSettle(d) /\ stack'[i] = d
      BY <1>1, <1>2, <1>4, <2>2, <3>0 DEF CallsInv
    <3>2. ~ d.err /\ ~ d.load => EstEidModName \notin Top.remove
      BY <1>1, <1>4, <2>2, <3>0 DEF CallsInv
    <3>3. d.remove \subseteq Names
      BY <3>1 DEF Calls
    <3>4. UpToDate(d)'
      BY <1>3, <3>1, <3>3 DEF UpToDate
    <3>5. WillSettle(d)'
      BY <3>1, <3>2 DEF WillSettle
    <3> QED BY <3>1, <3>4, <3>5
  <2> QED BY <1>1, <2>1, <2>2
<1>6. ASSUME NEW i \in DOMAIN stack', NEW j \in DOMAIN stack', i < j,
             ~ stack'[i].err, ~ stack'[i].load
      PROVE  EstEidModName \notin stack'[j].remove
  <2>1. i \in 1..(N - 1)
    BY <1>1, <1>6
  <2>2. stack'[i] = stack[i] /\ i \in DOMAIN stack
    BY <1>1, <1>4, <2>1
  <2>3. CASE j = N
    <3>1. EstEidModName \notin Top.remove
      BY <1>1, <1>4, <1>6, <2>1, <2>2 DEF CallsInv
    <3> QED BY <1>1, <2>3, <3>1
  <2>4. CASE j \in 1..(N - 1)
    BY <1>1, <1>4, <1>6, <2>2, <2>4 DEF CallsInv
  <2> QED BY <1>1, <2>3, <2>4
<1> QED BY <1>5, <1>6 DEF CallsInv

(* The call that runs.                                                     *)
LEMMA TopSettles ==
    ASSUME TypeInv, CallsInv, stack # <<>>
    PROVE  Top \in Calls /\ Top.remove \subseteq Names /\ UpToDate(Top) /\ WillSettle(Top)
<1>1. Len(stack) \in DOMAIN stack /\ \A i \in DOMAIN stack : stack[i] \in Calls
  BY EmptySeq, CallOfSeq DEF TypeInv, CallsOK
<1>2. Top = stack[Len(stack)]
  BY DEF Top, Last
<1>3. Top \in Calls
  BY <1>1, <1>2
<1> QED BY <1>1, <1>2, <1>3 DEF CallsInv, Calls

LEMMA RemoveSettles ==
    ASSUME TypeInv, CallsInv, RemoveModule
    PROVE  CallsInv'
<1>1. Top \in Calls /\ Top.remove \subseteq Names /\ UpToDate(Top) /\ WillSettle(Top)
  BY TopSettles DEF RemoveModule
<1>2. stack # <<>> /\ UNCHANGED inputs /\ EstEidDll' = EstEidDll
  BY DllKept DEF RemoveModule, inputs
<1>3. PICK n \in Top.remove :
         \/ /\ secmoddb[n] # NULL
            /\ secmoddb' = [secmoddb EXCEPT ![n] = NULL]
            /\ stack' = Update([Top EXCEPT !.remove = @ \ {n}])
         \/ /\ stack' = Update([Top EXCEPT !.remove = @ \ {n}, !.err = TRUE])
            /\ UNCHANGED secmoddb
  BY DEF RemoveModule
<1>4. n \in Names /\ secmoddb \in [Names -> {NULL} \cup Module]
  BY <1>1 DEF TypeInv, DataOK
<1>5. CASE /\ secmoddb' = [secmoddb EXCEPT ![n] = NULL]
           /\ stack' = Update([Top EXCEPT !.remove = @ \ {n}])
  <2>0. PICK c : c = [Top EXCEPT !.remove = @ \ {n}]
    OBVIOUS
  <2>1. /\ c \in Calls /\ c.remove = Top.remove \ {n} /\ c.load = Top.load /\ c.dll = Top.dll
        /\ c.err = Top.err
    BY <1>1, <2>0 DEF Calls
  <2>2. stack' = Update(c)
    BY <1>5, <2>0
  <2>3. secmoddb'[n] = NULL /\ \A m \in Names \ {n} : secmoddb'[m] = secmoddb[m]
    BY <1>4, <1>5
  <2>4. EstEidModName \notin Top.remove /\ Loaded => Loaded'
    BY <1>2, <2>3, ConfigAssumption DEF Loaded
  <2>5. UpToDate(c)'
    BY <1>1, <1>2, <2>1, <2>3 DEF UpToDate
  <2>6. WillSettle(c)'
    <3> SUFFICES ASSUME ~ c.err
                 PROVE  /\ c.load \/ Loaded'
                        /\ \A m \in Names \ {EstEidModName} :
                             secmoddb'[m] # NULL /\ secmoddb'[m].libName \in Recognized
                               => m \in c.remove
      BY DEF WillSettle
    <3>1. c.load \/ Loaded'
      BY <1>1, <2>1, <2>4 DEF UpToDate, WillSettle
    <3>2. \A m \in Names \ {EstEidModName} :
            secmoddb'[m] # NULL /\ secmoddb'[m].libName \in Recognized => m \in c.remove
      BY <1>1, <2>1, <2>3 DEF WillSettle
    <3> QED BY <3>1, <3>2
  <2>7. \A m \in Names : secmoddb'[m] \in {secmoddb[m], NULL}
    BY <2>3
  <2> QED BY <1>2, <2>1, <2>2, <2>3, <2>4, <2>5, <2>6, <2>7, UpdateSettles
<1>6. CASE /\ stack' = Update([Top EXCEPT !.remove = @ \ {n}, !.err = TRUE])
           /\ UNCHANGED secmoddb
  <2>0. PICK c : c = [Top EXCEPT !.remove = @ \ {n}, !.err = TRUE]
    OBVIOUS
  <2>1. /\ c \in Calls /\ c.remove = Top.remove \ {n} /\ c.load = Top.load /\ c.dll = Top.dll
        /\ c.err = TRUE
    BY <1>1, <2>0 DEF Calls
  <2>2. stack' = Update(c)
    BY <1>6, <2>0
  <2>3. secmoddb' = secmoddb /\ Loaded' = Loaded
    BY <1>2, <1>6 DEF Loaded
  <2>4. UpToDate(c)'
    BY <1>1, <1>2, <2>1, <2>3 DEF UpToDate
  <2>5. WillSettle(c)'
    BY <2>1 DEF WillSettle
  <2> QED BY <1>2, <2>1, <2>2, <2>3, <2>4, <2>5, UpdateSettles
<1> QED BY <1>3, <1>5, <1>6

LEMMA AddSettles ==
    ASSUME TypeInv, CallsInv, AddModule
    PROVE  CallsInv'
<1>1. Top \in Calls /\ UpToDate(Top) /\ WillSettle(Top)
  BY TopSettles DEF AddModule
<1>2. /\ stack # <<>> /\ Top.remove = {} /\ Top.load
      /\ UNCHANGED inputs /\ EstEidDll' = EstEidDll
  BY DllKept DEF AddModule, inputs
<1>3. secmoddb \in [Names -> {NULL} \cup Module] /\ EstEidModName \in Names
  BY ConfigAssumption DEF TypeInv, DataOK
<1>4. Top.dll = EstEidDll /\ Top.dll \in Libs
  BY <1>1, <1>2 DEF UpToDate, Calls
<1>5. CASE /\ secmoddb' = [secmoddb EXCEPT ![EstEidModName] = NewModule(Top.dll)]
           /\ stack' = Update([Top EXCEPT !.load = FALSE])
  <2>0. PICK c : c = [Top EXCEPT !.load = FALSE]
    OBVIOUS
  <2>1. /\ c \in Calls /\ c.remove = {} /\ c.load = FALSE /\ c.dll = Top.dll
        /\ c.err = Top.err
    BY <1>1, <1>2, <2>0 DEF Calls
  <2>2. stack' = Update(c)
    BY <1>5, <2>0
  <2>3. /\ secmoddb'[EstEidModName] = NewModule(Top.dll)
        /\ \A m \in Names \ {EstEidModName} : secmoddb'[m] = secmoddb[m]
    BY <1>3, <1>5
  <2>4. Loaded'
    <3>1. /\ NewModule(Top.dll) \in [libName : Libs, friendly : BOOLEAN]
          /\ NewModule(Top.dll).libName = Top.dll /\ NewModule(Top.dll).friendly
      BY <1>4 DEF NewModule
    <3>2. NewModule(Top.dll) # NULL
      BY <3>1, ConfigAssumption
    <3> QED BY <1>2, <1>4, <2>3, <3>1, <3>2 DEF Loaded
  <2>5. UpToDate(c)'
    BY <1>1, <1>2, <1>4, <2>1 DEF UpToDate
  <2>6. WillSettle(c)'
    BY <1>1, <1>2, <2>1, <2>3, <2>4 DEF WillSettle
  <2> QED BY <1>2, <2>1, <2>2, <2>3, <2>4, <2>5, <2>6, UpdateSettles
<1>6. CASE /\ stack' = Update([Top EXCEPT !.load = FALSE, !.err = TRUE])
           /\ UNCHANGED secmoddb
  <2>0. PICK c : c = [Top EXCEPT !.load = FALSE, !.err = TRUE]
    OBVIOUS
  <2>1. /\ c \in Calls /\ c.remove = {} /\ c.load = FALSE /\ c.dll = Top.dll
        /\ c.err = TRUE
    BY <1>1, <1>2, <2>0 DEF Calls
  <2>2. stack' = Update(c)
    BY <1>6, <2>0
  <2>3. secmoddb' = secmoddb /\ Loaded' = Loaded
    BY <1>2, <1>6 DEF Loaded
  <2>4. UpToDate(c)'
    BY <1>2, <1>4, <2>1 DEF UpToDate
  <2>5. WillSettle(c)'
    BY <2>1 DEF WillSettle
  <2> QED BY <1>2, <2>1, <2>2, <2>3, <2>4, <2>5, UpdateSettles
<1> QED BY <1>5, <1>6 DEF AddModule

LEMMA FinishSettles ==
    ASSUME TypeInv, CallsInv, FinishConfigure
    PROVE  CallsInv'
<1>1. stack \in Seq(Calls) /\ stack # <<>> /\ stack' = Front(stack)
  BY DEF TypeInv, CallsOK, FinishConfigure
<1>2. \A i \in DOMAIN stack' : i \in DOMAIN stack /\ stack'[i] = stack[i]
  BY <1>1, Returned
<1>3. UNCHANGED secmoddb /\ EstEidDll' = EstEidDll
  BY DllKept DEF FinishConfigure
<1>4. ASSUME NEW i \in DOMAIN stack'
      PROVE  (UpToDate(stack[i]) /\ WillSettle(stack[i]))'
  <2>1. UpToDate(stack[i]) /\ WillSettle(stack[i]) /\ stack'[i] = stack[i]
    BY <1>2 DEF CallsInv
  <2> QED BY <1>3, <2>1 DEF UpToDate, WillSettle, Loaded
<1> QED BY <1>2, <1>4 DEF CallsInv

(* After the last call of all there is nothing left to do.                 *)
LEMMA FinishIsSettled ==
    ASSUME TypeInv, CallsInv, FinishConfigure
    PROVE  Settled'
<1> SUFFICES ASSUME ended' \in {"fine", "restart"}
             PROVE  (modulesToRemove = {} /\ ~ needtoload /\ Missing = {})'
  BY DEF Settled
<1>1. /\ Top \in Calls /\ UpToDate(Top) /\ WillSettle(Top)
      /\ Top.remove = {} /\ ~ Top.load
      /\ UNCHANGED <<secmoddb, inputs>>
  BY TopSettles DEF FinishConfigure
<1>2. EstEidDll' = EstEidDll
  BY <1>1, DllKept
<1>3. /\ ~ Top.err /\ certDir # NULL
      /\ certdb' = [c \in CaCerts |-> IF c \in Missing THEN "C,C,P" ELSE certdb[c]]
  BY DEF FinishConfigure
<1>4. Loaded
  BY <1>1, <1>3 DEF WillSettle
<1>5. \A n \in Names \ {EstEidModName} :
        secmoddb[n] # NULL => secmoddb[n].libName \notin Recognized
  BY <1>1, <1>3 DEF WillSettle
<1>6. modulesToRemove = {}
  <2> SUFFICES ASSUME NEW n \in modulesToRemove PROVE FALSE
    OBVIOUS
  <2>1. n # EstEidModName
    BY <1>4, LoadedMeans
  <2>2. n \in Names /\ secmoddb[n] # NULL /\ secmoddb[n].libName \in Recognized
    BY <2>1 DEF modulesToRemove, Listed, Ours
  <2> QED BY <1>5, <2>1, <2>2
<1>7. ~ needtoload
  BY <1>4, LoadedMeans
<1>8. modulesToRemove' = modulesToRemove /\ needtoload' = needtoload
  BY <1>1, <1>2 DEF modulesToRemove, needtoload, Listed, Ours, allSlotsFriendly
<1>9. Missing' = {}
  <2>1. \A c \in CaCerts : c \in Missing \/ certdb[c] # "absent" \/ c \notin certDir
    BY <1>3 DEF Missing
  <2>2. \A c \in CaCerts : c \in certDir => certdb'[c] # "absent"
    BY <1>3, <2>1
  <2>3. certDir' = certDir
    BY <1>1 DEF inputs
  <2> QED BY <2>2, <2>3 DEF Missing
<1> QED BY <1>6, <1>7, <1>8, <1>9

LEMMA NoCallSettles ==
    ASSUME stack' = <<>>
    PROVE  CallsInv'
<1> QED BY DEF CallsInv

(* What was settled stays so while nobody changes anything.                *)
LEMMA StaysSettled ==
    ASSUME Settled, UNCHANGED <<inputs, secmoddb, certdb>>,
           stack' = <<>> /\ ended' \in {"fine", "restart"}
             => stack = <<>> /\ ended \in {"fine", "restart"}
    PROVE  Settled'
<1>1. EstEidDll' = EstEidDll
  BY DllKept
<1>2. modulesToRemove' = modulesToRemove /\ needtoload' = needtoload /\ Missing' = Missing
  BY <1>1 DEF modulesToRemove, needtoload, Missing, Listed, Ours, allSlotsFriendly, inputs
<1> QED BY <1>2 DEF Settled

LEMMA GoesOn ==
    ASSUME TypeInv, RemoveModule \/ AddModule
    PROVE  stack' # <<>>
<1>0. stack \in Seq(Calls) /\ stack # <<>>
  BY DEF TypeInv, CallsOK, RemoveModule, AddModule
<1>1. Top \in Calls /\ stack \in Seq(Calls) /\ stack # <<>>
  <2>1. Len(stack) \in DOMAIN stack /\ \A i \in DOMAIN stack : stack[i] \in Calls
    BY <1>0, EmptySeq, CallOfSeq
  <2> QED BY <1>0, <2>1 DEF Top, Last
<1>2. \E c \in Calls : stack' = Update(c)
  <2>1. CASE RemoveModule
    <3>1. PICK n \in Top.remove : \/ stack' = Update([Top EXCEPT !.remove = @ \ {n}])
                                  \/ stack' = Update([Top EXCEPT !.remove = @ \ {n}, !.err = TRUE])
      BY <2>1 DEF RemoveModule
    <3>2. /\ [Top EXCEPT !.remove = @ \ {n}] \in Calls
          /\ [Top EXCEPT !.remove = @ \ {n}, !.err = TRUE] \in Calls
      BY <1>1 DEF Calls
    <3> QED BY <3>1, <3>2
  <2>2. CASE AddModule
    <3>1. \/ stack' = Update([Top EXCEPT !.load = FALSE])
          \/ stack' = Update([Top EXCEPT !.load = FALSE, !.err = TRUE])
      BY <2>2 DEF AddModule
    <3>2. /\ [Top EXCEPT !.load = FALSE] \in Calls
          /\ [Top EXCEPT !.load = FALSE, !.err = TRUE] \in Calls
      BY <1>1 DEF Calls
    <3> QED BY <3>1, <3>2
  <2> QED BY <2>1, <2>2
<1> QED BY <1>1, <1>2, Updated

LEMMA SettledStep == TypeInv /\ SettledInv /\ [Next]_vars => SettledInv'
<1> SUFFICES ASSUME TypeInv, CallsInv, Settled, [Next]_vars PROVE CallsInv' /\ Settled'
  BY DEF SettledInv
<1>1. ASSUME NEW w \in Windows, LoadEstEID(w) PROVE CallsInv' /\ Settled'
  <2>1. CallsInv'
    BY <1>1, LoadSettles
  <2>2. stack' = <<>> /\ ended' \in {"fine", "restart"}
          => stack = <<>> /\ ended \in {"fine", "restart"}
    <3>1. CASE UNCHANGED stack
      BY <1>1, <3>1 DEF LoadEstEID
    <3>2. CASE \E c \in Calls : stack' = Append(stack, c)
      <4>1. stack' # <<>>
        BY <3>2, Pushed DEF TypeInv, CallsOK
      <4> QED BY <4>1
    <3> QED BY <1>1, <3>1, <3>2, Starts
  <2>3. UNCHANGED <<inputs, secmoddb, certdb>>
    BY <1>1 DEF LoadEstEID
  <2> QED BY <2>1, <2>2, <2>3, StaysSettled
<1>2. ASSUME NEW w \in Windows, CloseWindow(w) PROVE CallsInv' /\ Settled'
  BY <1>2, CallsWithoutEffect, StaysSettled DEF CloseWindow
<1>3. CASE RemoveModule
  <2>1. stack' # <<>>
    BY <1>3, GoesOn
  <2> QED BY <1>3, <2>1, RemoveSettles DEF Settled
<1>4. CASE AddModule
  <2>1. stack' # <<>>
    BY <1>4, GoesOn
  <2> QED BY <1>4, <2>1, AddSettles DEF Settled
<1>5. CASE FinishConfigure
  BY <1>5, FinishSettles, FinishIsSettled
<1>6. CASE doRestart \/ Crash
  <2>1. CallsInv'
    BY <1>6, NoCallSettles DEF doRestart, Crash, Quit
  <2>2. /\ UNCHANGED <<inputs, secmoddb, certdb>>
        /\ ended' \in {"fine", "restart"} => stack = <<>> /\ ended' = ended
    BY <1>6 DEF doRestart, Crash, Quit
  <2> QED BY <2>1, <2>2, StaysSettled
<1>7. CASE ChangeInputs \/ EditModules \/ EditTrust
  <2>1. stack' = <<>> /\ ended' = "stale"
    BY <1>7 DEF ChangeInputs, EditModules, EditTrust
  <2> QED BY <2>1, NoCallSettles DEF Settled
<1>8. CASE UNCHANGED vars
  <2>1. UNCHANGED <<stack, secmoddb, inputs, certdb, ended>>
    BY <1>8 DEF vars, inputs
  <2> QED BY <2>1, CallsWithoutEffect, StaysSettled
<1> QED BY <1>1, <1>2, <1>3, <1>4, <1>5, <1>6, <1>7, <1>8 DEF Next

LEMMA SettledInit == Init => SettledInv
<1> QED BY DEF Init, SettledInv, Settled, CallsInv

(* One start is enough: after a configuration that reported no error and   *)
(* that nobody's change has overtaken, the next one has nothing to do.     *)
THEOREM OneStartIsEnough == Spec => []Settled
<1>1. Spec => []SettledInv
  BY TypesKept, SettledInit, SettledStep, PTL DEF Spec
<1>2. SettledInv => Settled
  BY DEF SettledInv
<1> QED BY <1>1, <1>2, PTL

-----------------------------------------------------------------------------
(***************************************************************************)
(* What a configuration leaves alone.                                      *)
(***************************************************************************)

OthersKept ==
    \A n \in Names : (stack # <<>> /\ secmoddb[n] # secmoddb'[n] /\ secmoddb[n] # NULL)
                       => n = EstEidModName \/ secmoddb[n].libName \in Recognized

LEMMA OthersKeptStep == TypeInv /\ SettledInv /\ [Next]_vars => [OthersKept]_vars
<1> SUFFICES ASSUME TypeInv, CallsInv, Next, stack # <<>>,
                    NEW n \in Names, secmoddb[n] # secmoddb'[n], secmoddb[n] # NULL
             PROVE  n = EstEidModName \/ secmoddb[n].libName \in Recognized
  BY DEF SettledInv, OthersKept
<1>1. secmoddb \in [Names -> {NULL} \cup Module]
  BY DEF TypeInv, DataOK
<1>2. CASE RemoveModule
  <2>1. Top.remove \subseteq Names /\ UpToDate(Top)
    BY TopSettles
  <2>2. n \in Top.remove
    <3>1. PICK m \in Top.remove : \/ secmoddb' = [secmoddb EXCEPT ![m] = NULL]
                                  \/ UNCHANGED secmoddb
      BY <1>2 DEF RemoveModule
    <3> QED BY <1>1, <2>1, <3>1
  <2> QED BY <2>1, <2>2 DEF UpToDate
<1>3. CASE AddModule
  <2>1. \/ secmoddb' = [secmoddb EXCEPT ![EstEidModName] = NewModule(Top.dll)]
        \/ UNCHANGED secmoddb
    BY <1>3 DEF AddModule
  <2> QED BY <1>1, <2>1
<1>4. ASSUME NEW w \in Windows, LoadEstEID(w) \/ CloseWindow(w) PROVE FALSE
  BY <1>4 DEF LoadEstEID, CloseWindow
<1>5. CASE FinishConfigure \/ doRestart \/ Crash
  BY <1>5 DEF FinishConfigure, doRestart, Crash, Quit
<1>6. CASE ChangeInputs \/ EditModules \/ EditTrust
  BY <1>6 DEF ChangeInputs, EditModules, EditTrust
<1> QED BY <1>2, <1>3, <1>4, <1>5, <1>6 DEF Next

(* Modules that the extension does not recognise are not touched, however  *)
(* many windows configure at once and whenever they read their names.      *)
THEOREM OthersUntouched == Spec => OthersLeftAlone
<1>1. Spec => []SettledInv
  BY TypesKept, SettledInit, SettledStep, PTL DEF Spec
<1>2. TypeInv /\ SettledInv /\ [Next]_vars
        => [\A n \in Names :
             (stack # <<>> /\ secmoddb[n] # secmoddb'[n] /\ secmoddb[n] # NULL)
               => n = EstEidModName \/ secmoddb[n].libName \in Recognized]_vars
  BY OthersKeptStep DEF OthersKept
<1> QED BY <1>1, <1>2, TypesKept, PTL DEF Spec, OthersLeftAlone

-----------------------------------------------------------------------------
(***************************************************************************)
(* A user who is told nothing has a module that works.                     *)
(***************************************************************************)

(* Where the user is not asked, one window configures at a time and only   *)
(* the first one after a start; the libraries that can not be loaded again *)
(* are then those it removes itself.                                       *)
OneCall ==
    /\ stack = <<>> => untold = {}
    /\ stack = <<>> /\ ~ configured => unloaded = {} /\ \A w \in Windows : ~ window[w].open
    /\ stack # <<>> =>
         /\ Len(stack) = 1
         /\ \A n \in Top.remove :
              secmoddb[n] # NULL /\ (secmoddb[n].libName = Top.dll => Top.restart)
         /\ Top.dll \in unloaded => Top.restart
         /\ untold # {} => Top.restart
SaneInv == version.sane => OneCall

(* The only call of all is Top, before and after it goes on.               *)
LEMMA OnlyTop ==
    ASSUME TypeInv, stack # <<>>, Len(stack) = 1, NEW c \in Calls, stack' = Update(c)
    PROVE  stack' # <<>> /\ Len(stack') = 1 /\ Top' = c
<1>1. stack' # <<>> /\ Len(stack') = Len(stack) /\ stack'[Len(stack)] = c
  BY Updated DEF TypeInv, CallsOK
<1> QED BY <1>1 DEF Top, Last

LEMMA TopIsCall ==
    ASSUME TypeInv, stack # <<>>
    PROVE  Top \in Calls
<1>1. Len(stack) \in DOMAIN stack /\ \A i \in DOMAIN stack : stack[i] \in Calls
  BY EmptySeq, CallOfSeq DEF TypeInv, CallsOK
<1> QED BY <1>1 DEF Top, Last

LEMMA LoadSane ==
    ASSUME TypeInv, version.sane, OneCall, NEW w \in Windows, LoadEstEID(w)
    PROVE  OneCall'
<1>1. stack = <<>> /\ untold = {}
  BY DEF LoadEstEID, InDialog, OneCall
<1>2. version.shared
  BY SaneIsShared DEF TypeInv, DataOK
<1>3. UNCHANGED <<secmoddb, unloaded, untold>>
  BY DEF LoadEstEID
<1>4. CASE stack' = stack
  <2>1. configured'
    <3>1. \A e \in BOOLEAN : Append(stack, Call(w, e)) # <<>>
      <4>1. \A e \in BOOLEAN : Call(w, e) \in Calls
        BY CallTyped DEF TypeInv
      <4> QED BY <4>1, AppendProperties DEF TypeInv, CallsOK
    <3>2. \A plugin \in BOOLEAN : (version.gBrowser /\ ~ plugin) \in BOOLEAN
      BY ConfigAssumption DEF TypeInv, DataOK, Version
    <3>3. \A plugin \in BOOLEAN :
            stack' # Append(stack, Call(w, version.gBrowser /\ ~ plugin))
      BY <1>1, <1>4, <3>1, <3>2
    <3> QED BY <1>2, <3>3 DEF LoadEstEID
  <2> QED BY <1>1, <1>3, <1>4, <2>1 DEF OneCall
<1>5. CASE stack' # stack
  <2>1. ~ configured
    BY <1>2, <1>5 DEF LoadEstEID
  <2>2. unloaded = {}
    BY <1>1, <2>1 DEF OneCall
  <2>3. PICK e \in BOOLEAN : stack' = Append(stack, Call(w, e)) /\ Call(w, e) \in Calls
    BY <1>5, Starts
  <2>4. PICK c : c = Call(w, e)
    OBVIOUS
  <2>5. c \in Calls /\ stack' = Append(stack, c) /\ stack \in Seq(Calls)
    BY <2>3, <2>4 DEF TypeInv, CallsOK
  <2>6. stack' # <<>> /\ Len(stack') = 1 /\ Top' = c
    <3>1. Len(stack) = 0
      BY <1>1
    <3>2. stack' # <<>> /\ Len(stack') = Len(stack) + 1 /\ stack'[Len(stack')] = c
      BY <2>5, Pushed
    <3> QED BY <3>1, <3>2 DEF Top, Last
  <2>7. c.remove = modulesToRemove /\ c.dll = EstEidDll /\ c.restart = restartNeeded
    BY <2>4 DEF Call
  <2>8. \A n \in c.remove :
          secmoddb[n] # NULL /\ (secmoddb[n].libName = c.dll => c.restart)
    BY <2>7 DEF modulesToRemove, Listed, restartNeeded
  <2> QED BY <1>1, <1>3, <2>2, <2>6, <2>8 DEF OneCall
<1> QED BY <1>4, <1>5

LEMMA RemoveSane ==
    ASSUME TypeInv, OneCall, RemoveModule
    PROVE  OneCall'
<1>1. /\ Top \in Calls /\ stack # <<>> /\ Len(stack) = 1
      /\ \A n \in Top.remove :
           secmoddb[n] # NULL /\ (secmoddb[n].libName = Top.dll => Top.restart)
      /\ Top.dll \in unloaded => Top.restart
      /\ untold # {} => Top.restart
  BY TopIsCall DEF OneCall, RemoveModule
<1>2. PICK n \in Top.remove :
         \/ /\ secmoddb' = [secmoddb EXCEPT ![n] = NULL]
            /\ unloaded' = unloaded \cup {secmoddb[n].libName}
            /\ stack' = Update([Top EXCEPT !.remove = @ \ {n}])
         \/ /\ stack' = Update([Top EXCEPT !.remove = @ \ {n}, !.err = TRUE])
            /\ UNCHANGED <<secmoddb, unloaded>>
  BY DEF RemoveModule
<1>3. PICK c \in Calls : /\ stack' = Update(c) /\ c.remove = Top.remove \ {n}
                         /\ c.dll = Top.dll /\ c.restart = Top.restart
  <2>1. /\ [Top EXCEPT !.remove = @ \ {n}] \in Calls
        /\ [Top EXCEPT !.remove = @ \ {n}].remove = Top.remove \ {n}
        /\ [Top EXCEPT !.remove = @ \ {n}].dll = Top.dll
        /\ [Top EXCEPT !.remove = @ \ {n}].restart = Top.restart
    BY <1>1 DEF Calls
  <2>2. /\ [Top EXCEPT !.remove = @ \ {n}, !.err = TRUE] \in Calls
        /\ [Top EXCEPT !.remove = @ \ {n}, !.err = TRUE].remove = Top.remove \ {n}
        /\ [Top EXCEPT !.remove = @ \ {n}, !.err = TRUE].dll = Top.dll
        /\ [Top EXCEPT !.remove = @ \ {n}, !.err = TRUE].restart = Top.restart
    BY <1>1 DEF Calls
  <2> QED BY <1>2, <2>1, <2>2
<1>4. stack' # <<>> /\ Len(stack') = 1 /\ Top' = c
  BY <1>1, <1>3, OnlyTop
<1>5. Top.remove \subseteq Names /\ secmoddb \in [Names -> {NULL} \cup Module]
  BY <1>1 DEF Calls, TypeInv, DataOK
<1>6. \A m \in c.remove : secmoddb'[m] = secmoddb[m]
  BY <1>2, <1>3, <1>5
<1>7. unloaded' \subseteq unloaded \cup {secmoddb[n].libName}
  BY <1>2
<1>8. c.dll \in unloaded' => c.restart
  BY <1>1, <1>3, <1>7
<1>9. UNCHANGED untold
  BY DEF RemoveModule
<1> QED BY <1>1, <1>3, <1>4, <1>6, <1>8, <1>9 DEF OneCall

LEMMA AddSane ==
    ASSUME TypeInv, OneCall, AddModule
    PROVE  OneCall'
<1>1. /\ Top \in Calls /\ stack # <<>> /\ Len(stack) = 1 /\ Top.remove = {}
      /\ Top.dll \in unloaded => Top.restart
      /\ untold # {} => Top.restart
  BY TopIsCall DEF OneCall, AddModule
<1>2. PICK c \in Calls : /\ stack' = Update(c) /\ c.remove = {}
                         /\ c.dll = Top.dll /\ c.restart = Top.restart
  <2>1. /\ [Top EXCEPT !.load = FALSE] \in Calls
        /\ [Top EXCEPT !.load = FALSE].remove = {}
        /\ [Top EXCEPT !.load = FALSE].dll = Top.dll
        /\ [Top EXCEPT !.load = FALSE].restart = Top.restart
    BY <1>1 DEF Calls
  <2>2. /\ [Top EXCEPT !.load = FALSE, !.err = TRUE] \in Calls
        /\ [Top EXCEPT !.load = FALSE, !.err = TRUE].remove = {}
        /\ [Top EXCEPT !.load = FALSE, !.err = TRUE].dll = Top.dll
        /\ [Top EXCEPT !.load = FALSE, !.err = TRUE].restart = Top.restart
    BY <1>1 DEF Calls
  <2> QED BY <2>1, <2>2 DEF AddModule
<1>3. stack' # <<>> /\ Len(stack') = 1 /\ Top' = c
  BY <1>1, <1>2, OnlyTop
<1>4. untold' # {} => c.restart
  BY <1>1, <1>2 DEF AddModule
<1>5. c.dll \in unloaded' => c.restart
  BY <1>1, <1>2 DEF AddModule
<1> QED BY <1>2, <1>3, <1>4, <1>5 DEF OneCall

(* A call that asked for a restart says so, or throws, which is an error.  *)
LEMMA FinishSane ==
    ASSUME TypeInv, OneCall, FinishConfigure
    PROVE  OneCall'
<1>1. Len(stack) = 1 /\ stack # <<>> /\ (untold # {} => Top.restart)
  BY DEF OneCall, FinishConfigure
<1>2. stack' = <<>>
  <2>1. stack' \in Seq(Calls) /\ Len(stack') = Len(stack) - 1
    BY <1>1, Popped DEF TypeInv, CallsOK, FinishConfigure
  <2>2. Len(stack') = 0
    BY <1>1, <2>1
  <2> QED BY <2>1, <2>2, EmptySeq
<1>3. untold' = {}
  BY <1>1 DEF FinishConfigure
<1>4. configured'
  BY DEF FinishConfigure
<1> QED BY <1>2, <1>3, <1>4 DEF OneCall

LEMMA SaneStep == TypeInv /\ SaneInv /\ [Next]_vars => SaneInv'
<1> SUFFICES ASSUME TypeInv, SaneInv, [Next]_vars, version'.sane PROVE OneCall'
  BY DEF SaneInv
<1>0. version.sane /\ OneCall
  <2>1. UNCHANGED version
    BY DEF Next, LoadEstEID, CloseWindow, RemoveModule, AddModule, FinishConfigure,
           doRestart, Crash, Quit, ChangeInputs, EditModules, EditTrust, vars
  <2> QED BY <2>1 DEF SaneInv
<1>1. ASSUME NEW w \in Windows, LoadEstEID(w) PROVE OneCall'
  BY <1>0, <1>1, LoadSane
<1>2. ASSUME NEW w \in Windows, CloseWindow(w) PROVE OneCall'
  <2>1. \A v \in Windows : window'[v].open => window[v].open
    BY <1>2 DEF CloseWindow, ClosedWindow, TypeInv, DataOK
  <2>2. Top' = Top
    BY <1>2 DEF CloseWindow, Top, Last
  <2> QED BY <1>0, <1>2, <2>1, <2>2 DEF CloseWindow, OneCall
<1>3. CASE RemoveModule
  BY <1>0, <1>3, RemoveSane
<1>4. CASE AddModule
  BY <1>0, <1>4, AddSane
<1>5. CASE FinishConfigure
  BY <1>0, <1>5, FinishSane
<1>6. CASE doRestart \/ Crash
  BY <1>6 DEF doRestart, Crash, Quit, OneCall, ClosedWindow
<1>7. CASE ChangeInputs
  BY <1>0, <1>7 DEF ChangeInputs, OneCall
<1>8. CASE EditModules \/ EditTrust
  <2>1. stack = <<>> /\ stack' = <<>> /\ UNCHANGED <<configured, untold>> /\ configured
    BY <1>0, <1>8 DEF EditModules, EditTrust, OneCall
  <2> QED BY <1>0, <2>1 DEF OneCall
<1>9. CASE UNCHANGED vars
  BY <1>0, <1>9 DEF vars, OneCall, Top, Last
<1> QED BY <1>1, <1>2, <1>3, <1>4, <1>5, <1>6, <1>7, <1>8, <1>9 DEF Next

LEMMA SaneInit == Init => SaneInv
<1> QED BY DEF Init, SaneInv, OneCall, ClosedWindow

(* In a browser with the "sane interface", no library that can not be      *)
(* loaded again has been without an error or a notification.               *)
THEOREM ToldOrLoaded == Spec => []QuietMeansLoaded
<1>1. Spec => []SaneInv
  BY TypesKept, SaneInit, SaneStep, PTL DEF Spec
<1>2. SaneInv => QuietMeansLoaded
  BY DEF SaneInv, OneCall, QuietMeansLoaded
<1> QED BY <1>1, <1>2, PTL
=============================================================================
