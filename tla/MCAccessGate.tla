---------------------------- MODULE MCAccessGate ----------------------------
(* Small instances of AccessGate: a document with up to two plugin objects *)
(* at one of five URLs, under each user interface.                         *)
EXTENDS AccessGate, TLC

CONSTANTS
    page, eid,   \* sites
    A, B         \* plugin objects

MCUrls == {<<"https", "://", "name", ":", "password", "@", page, ":", "443", "/">>,
           <<"https", "://", eid, "/", "document">>,
           <<"https", "://", page, "/", "@", "user">>,
           <<"http", "://", "localhost">>,
           <<"file", "://", "/", "document">>}

Symmetry == Permutations({A, B})
=============================================================================
