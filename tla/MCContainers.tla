---------------------------- MODULE MCContainers ----------------------------
(* Bounded instances for TLC of the structures that clients share and that *)
(* are freed by counting or moved in memory: the maps of ids, the lists of *)
(* paths, the objects of json-c, the roots and searches of locales.  A     *)
(* behaviour is about one of them, which says which one.                   *)
EXTENDS U16Id, PathSearch, JsonHeap, LocaleRoot

CONSTANTS p1, p2, da, db, dc

VARIABLE which   \* the structure in use

(* Ids that grow the block twice, where neighbours have different pointers *)
(* and one id has two.                                                     *)
MCPtrs   == {p1, p2}
FewPairs == {<<0, p1>>, <<0, p2>>, <<2, p2>>, <<5, p1>>, <<6, p2>>}

MCDirSeqs == {<<da>>, <<db>>, <<da, Empty, db>>, <<db, dc>>}

(* Keys and strings are sequences of bytes: k1 and k2.                     *)
k1 == <<107, 49>>
k2 == <<107, 50>>
Member(k, v) == [k |-> k, v |-> v]
MCValues == {JObject(<<Member(k1, JArray(<<JInt(1), JNull>>))>>),
             JObject(<<Member(k1, JObject(<<Member(k2, JInt(1))>>))>>),
             JObject(<<Member(k2, JInt(2)), Member(k1, JObject(<< >>))>>)}
MCKeys == {k1, k2}

MCLists == {<< >>, <<"en">>, <<"fr", "en">>}

idVars == <<i2pVars, i2bVars>>

MCInit ==
  /\ which \in {"ptr", "bool", "paths", "json", "locale"}
  /\ Init /\ InitBool /\ PathInit /\ LocaleInit
  /\ IF which = "json" THEN HeapInit
     ELSE heap = << >> /\ held = << >> /\ done = NoOp /\ steps = 0

MCNext ==
  /\ \/ which = "ptr"  /\ Next     /\ UNCHANGED <<i2bVars, pathVars, heapVars, localeVars>>
     \/ which = "bool" /\ NextBool /\ UNCHANGED <<i2pVars, pathVars, heapVars, localeVars>>
     \/ which = "paths"  /\ PathNext     /\ UNCHANGED <<idVars, heapVars, localeVars>>
     \/ which = "json"   /\ HeapNext   /\ UNCHANGED <<idVars, pathVars, localeVars>>
     \/ which = "locale" /\ LocaleNext /\ UNCHANGED <<idVars, pathVars, heapVars>>
  /\ UNCHANGED which

MCSpec == MCInit /\ [][MCNext]_<<idVars, pathVars, heapVars, localeVars, which>>
=============================================================================
