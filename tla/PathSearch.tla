----------------------------- MODULE PathSearch -----------------------------
(***************************************************************************)
(* The lists of paths of src/misc/rp-path-search.c: chains of nodes with   *)
(* reference counts, shared by the lists derived from one another.  A      *)
(* client is a slot holding one reference, or NULL.  A text of directories *)
(* is the sequence of its items; the substitution of variables in it is    *)
(* done before (see README).                                               *)
(***************************************************************************)
EXTENDS FiniteSets, SequencesExt, Lists

CONSTANTS
  Slots,     \* variables of clients
  Nodes,     \* addresses malloc may return
  Dirs,      \* directories
  DirSeqs,   \* texts of directories, as sequences; Empty is an empty item
  Empty,
  Null,      \* the pointer NULL
  RefMod     \* counts are kept modulo RefMod: an unsigned short

ASSUME PathSearchAssumption ==
  /\ IsFiniteSet(Slots) /\ IsFiniteSet(Nodes) /\ Null \notin Nodes
  /\ Empty \notin Dirs
  /\ DirSeqs \subseteq Seq(Dirs \cup {Empty})
  /\ RefMod \in Nat \ {0, 1}

VARIABLES
  paths,    \* pointer held by each slot
  node,     \* struct rp_path_search at each address
  live      \* addresses that are allocated

pathVars == <<paths, node, live>>

Pointer == Nodes \cup {Null}

Node(d, before, parent, refcount) ==
  [dir |-> d, before |-> before, parent |-> parent, refcount |-> refcount]

(* Content of an address that is not allocated: never read.                *)
NoNode == Node(Empty, TRUE, Null, 0)

PathInit ==
  /\ paths = [s \in Slots |-> Null]
  /\ node = [n \in Nodes |-> NoNode]
  /\ live = {}

-----------------------------------------------------------------------------
(* The heap during a call: a record [node, live].                          *)

addref(heap, n) ==
  IF n = Null THEN heap
  ELSE [heap EXCEPT !.node[n].refcount = (@ + 1) % RefMod]

(* The chain of a list, from its head.                                     *)
Chain(nd, head) ==
  LET From[n \in Pointer] == IF n = Null THEN << >> ELSE <<n>> \o From[nd[n].parent]
  IN From[head]

(* How many nodes of a chain are freed when its head loses a reference:    *)
(* those that nothing else designates, up to the first that has another    *)
(* reference.                                                              *)
FreedBy(nd, chain) ==
  LET kept == {k \in DOMAIN chain : nd[chain[k]].refcount # 1}
  IN IF kept = {} THEN Len(chain) ELSE (CHOOSE k \in kept : \A j \in kept : k <= j) - 1

(* The loop of rp_path_search_unref: nodes are freed along the chain, then *)
(* the next one loses a reference.                                         *)
unref(heap, n) ==
  LET chain == Chain(heap.node, n)
      freed == FreedBy(heap.node, chain)
      gone == {chain[k] : k \in 1..freed}
  IN [live |-> heap.live \ gone,
      node |-> [m \in Nodes |->
                  IF m \in gone THEN NoNode
                  ELSE IF freed < Len(chain) /\ m = chain[freed + 1]
                  THEN [heap.node[m] EXCEPT !.refcount = (@ + RefMod - 1) % RefMod]
                  ELSE heap.node[m]]]

(* Variant: only the head is looked at, for appending too. *)
must_add_head(nd, n, d, before) == n = Null \/ nd[n].dir # d

(* Prepending looks at the head only, appending at all the nodes.          *)
must_add(nd, n, d, before) ==
  LET chain == Chain(nd, n)
  IN \A k \in DOMAIN chain : (before => k = 1) => nd[chain[k]].dir # d

NewNode(d, before, parent) == Node(d, before, parent, 1)

(* add: work is [heap, head, room, failed]; room is how many times malloc  *)
(* will still succeed during the call.                                     *)
add_dir(work, d, before) ==
  IF work.failed \/ d = Empty \/ ~must_add(work.heap.node, work.head, d, before)
  THEN work
  ELSE LET free == Nodes \ work.heap.live
       IN IF work.room = 0 \/ free = {}
          THEN [work EXCEPT !.failed = TRUE]
          ELSE LET n == CHOOSE n \in free : TRUE
               IN [work EXCEPT !.heap.live = @ \cup {n},
                               !.heap.node[n] = NewNode(d, before, work.head),
                               !.head = n,
                               !.room = @ - 1]

(* make: the items are added from the last one when prepending, from the   *)
(* first one when appending, up to the first failure.                      *)
make(work, dirs, before) ==
  LET items == IF before THEN Reverse(dirs) ELSE dirs
      Made[k \in 0..Len(items)] ==
        IF k = 0 THEN work ELSE LET w == Made[k - 1] IN add_dir(w, items[k], before)
  IN Made[Len(items)]

(* Variant: an error leaves the nodes already made. *)
add_dir_expanded_leak(heap, dirs, before, parent, room) ==
  LET work == make([heap |-> addref(heap, parent), head |-> parent, room |-> room, failed |-> FALSE],
                   dirs, before)
  IN IF ~work.failed THEN work ELSE [work EXCEPT !.head = Null]

(* The list made on top of parent, of which a reference is taken; after an *)
(* error everything made is released and the result is NULL.               *)
add_dir_expanded(heap, dirs, before, parent, room) ==
  LET work == make([heap |-> addref(heap, parent), head |-> parent, room |-> room, failed |-> FALSE],
                   dirs, before)
  IN IF ~work.failed THEN work
     ELSE [work EXCEPT !.heap = unref(work.heap, work.head), !.head = Null]

-----------------------------------------------------------------------------
(* Calls of the clients.                                                   *)

Heap == [node |-> node, live |-> live]

Becomes(heap) == node' = heap.node /\ live' = heap.live

(* rp_path_search_addref, and rp_path_search_add_env with an unset variable*)
rp_path_search_addref(s, t) ==
  /\ paths[t] = Null
  /\ Becomes(addref(Heap, paths[s]))
  /\ paths' = [paths EXCEPT ![t] = paths[s]]

rp_path_search_unref(s) ==
  /\ Becomes(unref(Heap, paths[s]))
  /\ paths' = [paths EXCEPT ![s] = Null]

(* rp_path_search_add_dirs(&t, dirs, before, s); with s NULL and before it *)
(* is rp_path_search_make_dirs.                                            *)
rp_path_search_add_dirs(s, t, dirs, before) ==
  /\ paths[t] = Null
  /\ \E room \in 0..Len(dirs) :
       LET work == add_dir_expanded(Heap, dirs, before, paths[s], room)
       IN Becomes(work.heap) /\ paths' = [paths EXCEPT ![t] = work.head]

rp_path_search_extend_dirs(s, dirs, before) ==
  \E room \in 0..Len(dirs) :
    LET work == add_dir_expanded(Heap, dirs, before, paths[s], room)
    IN IF ~work.failed
       THEN /\ Becomes(unref(work.heap, paths[s]))
            /\ paths' = [paths EXCEPT ![s] = work.head]
       ELSE /\ Becomes(work.heap)
            /\ UNCHANGED paths

PathNext ==
  \E s \in Slots :
    \/ rp_path_search_unref(s)
    \/ \E t \in Slots : rp_path_search_addref(s, t)
    \/ \E dirs \in DirSeqs, before \in BOOLEAN :
         \/ rp_path_search_extend_dirs(s, dirs, before)
         \/ \E t \in Slots : rp_path_search_add_dirs(s, t, dirs, before)

PathSpec == PathInit /\ [][PathNext]_pathVars

-----------------------------------------------------------------------------
(* Properties                                                              *)

(* Pointers held by clients and by nodes designate allocated nodes: no     *)
(* list of a client can reach freed memory, whoever released its part.     *)
PointersAreLive ==
  /\ paths \in [Slots -> live \cup {Null}]
  /\ live \subseteq Nodes
  /\ \A n \in live : node[n].parent \in live \cup {Null}

(* The count of a node is the number of pointers to it, from clients and   *)
(* from the nodes in front of it; so what nobody points to is freed, after *)
(* a failed allocation too.                                                *)
CountsOfNodes ==
  \A n \in live :
    /\ node[n].refcount = Cardinality({s \in Slots : paths[s] = n})
                        + Cardinality({m \in live : node[m].parent = n})
    /\ node[n].refcount # 0

(* Counts and pointers together: rp_path_search_unref frees a node when, and *)
(* only when, the last pointer to it goes.                                 *)
CountsAreExact == PointersAreLive /\ CountsOfNodes

(* The order in which rp_path_search_list calls its callback: a node made  *)
(* before comes in front of the rest of the list, one made after behind it.*)
Listed(head) ==
  LET List[n \in Pointer] ==
        IF n = Null THEN << >>
        ELSE IF node[n].before THEN <<node[n].dir>> \o List[node[n].parent]
        ELSE Append(List[node[n].parent], node[n].dir)
  IN List[head]

(* Deriving, extending and releasing lists that share their nodes is       *)
(* working on separate sequences of directories: no call changes what      *)
(* another client lists, a failed one neither.                             *)
DL == INSTANCE DirLists WITH
        lists <- [s \in Slots |-> Listed(paths[s])],
        DirSeqs <- {Without(dirs, {Empty}) : dirs \in DirSeqs}
ImplementsDirLists == DL!Spec
=============================================================================
