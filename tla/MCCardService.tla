--------------------------- MODULE MCCardService ---------------------------
(* A small instance of CardService: two readers, two EstEID cards and a    *)
(* foreign one.  Pages and callers touch different parts of the state, so  *)
(* a behaviour has the one or the other: pages with any user and a foreign *)
(* card, or callers with two EstEID cards, as CacheHoldsTheCard asks for.  *)
EXTENDS CardService

CONSTANTS
    e1, e2,    \* EstEID cards
    f1,        \* a foreign card
    o1,        \* a page
    c1         \* a calling thread

Only(cards) == \A i \in Readers : slot[i] \in cards \union {None}

PagesOnly == /\ result = [c \in Callers |-> None] /\ found = [c \in Callers |-> 0]
             /\ Only({e1, f1})

CallersOnly == /\ toldReaders = [o \in Observers |-> -1] /\ m_observers = {}
               /\ ~rushed /\ ~raced
               /\ Only({e1, e2})

MCNext == Next /\ (PagesOnly \/ CallersOnly)'

MCSpec == Init /\ [][MCNext]_vars /\ WF_vars(Monitor)
=============================================================================
