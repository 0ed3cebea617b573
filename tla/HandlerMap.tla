---------------------------- MODULE HandlerMap -----------------------------
(***************************************************************************)
(* What a globset promises: a map from normalised patterns to closures.    *)
(* An addition refuses a known pattern, may lack memory or room, a deletion*)
(* gives the closure back, and nothing else changes the map.               *)
(***************************************************************************)
CONSTANTS Normals, Closures
VARIABLES handlers, answer

HMInit == handlers = << >> /\ answer = "none"

HMAdd(p, c) ==
  \/ /\ answer' = "ok" /\ p \notin DOMAIN handlers
     /\ handlers' = [q \in DOMAIN handlers \cup {p} |-> IF q = p THEN c ELSE handlers[q]]
  \/ answer' = "EEXIST" /\ p \in DOMAIN handlers /\ UNCHANGED handlers
  \/ answer' \in {"ENOMEM", "EOVERFLOW"} /\ UNCHANGED handlers

HMDel(p) ==
  \/ /\ answer' \in Closures /\ p \in DOMAIN handlers /\ answer' = handlers[p]
     /\ handlers' = [q \in DOMAIN handlers \ {p} |-> handlers[q]]
  \/ answer' = "ENOENT" /\ p \notin DOMAIN handlers /\ UNCHANGED handlers

HMDestroy == answer' = "none" /\ handlers' = << >>

HMNext == HMDestroy \/ \E p \in Normals : HMDel(p) \/ \E c \in Closures : HMAdd(p, c)
HMSpec == HMInit /\ [][HMNext]_<<handlers, answer>>
=============================================================================
