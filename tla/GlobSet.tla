------------------------------ MODULE GlobSet ------------------------------
(***************************************************************************)
(* src/sandbox/globset.c: handlers of patterns.  The patterns without a    *)
(* joker are in a hash table of chains that grows, the others in a list;   *)
(* both are sequences here, of handlers [pattern, hash, closure].          *)
(***************************************************************************)
EXTENDS GlobMatch

CONSTANTS Patterns,   \* what is added and deleted
          Texts,      \* what is matched
          Closures,
          Hash,       \* the hash of a normalised text, not 0
          LowMask,    \* the mask of the first table: 15 in the code
          UINT_MAX    \* the mask that no table has

VARIABLES globs, exacts, gmask, count, answer

setVars == <<globs, exacts, gmask, count, answer>>

(* Two powers of two minus one: x & mask.                                  *)
Slot(hash, mask) == hash % (mask + 1)

Normal(text) == [i \in DOMAIN text |-> TOLOWER(text[i])]
Normals == {Normal(p) : p \in Patterns}

normhash(text) == IF GLOB \in ToSet(text) THEN 0 ELSE Hash[Normal(text)]

(* The handlers of chains, put one by one at the head of their new chain.  *)
Rehash(chains, mask) ==
  LET all == FlattenSeq([i \in 1..Cardinality(DOMAIN chains) |-> chains[i - 1]])
  IN [i \in 0..mask |-> Reverse(SelectSeq(all, LAMBDA h : Slot(h.hash, mask) = i))]

(* Variant: the chains stay where they were.                               *)
GrownUnmoved(chains, mask, n) ==
  IF mask - (mask \div 4) > n + 1 THEN [exacts |-> chains, gmask |-> mask]
  ELSE LET new == Max({2 * mask + 1, LowMask})
       IN [exacts |-> [i \in 0..new |-> IF i \in DOMAIN chains THEN chains[i] ELSE << >>], gmask |-> new]

(* The table after grow, larger when less than a quarter would be free.    *)
Grown(chains, mask, n) ==
  IF mask - (mask \div 4) > n + 1 THEN [exacts |-> chains, gmask |-> mask]
  ELSE LET new == Max({2 * mask + 1, LowMask}) IN [exacts |-> Rehash(chains, new), gmask |-> new]

(* The handlers to search in: those of the hash.                           *)
Chain(hash) ==
  CASE hash = 0 -> globs
    [] hash # 0 /\ exacts = << >> -> << >>
    [] OTHER -> exacts[Slot(hash, gmask)]

Place(chain, normal) == SelectInSeq(chain, LAMBDA h : h.pattern = normal)

GlobSetInit == globs = << >> /\ exacts = << >> /\ gmask = 0 /\ count = 0 /\ answer = "none"

(* The two allocations may fail, the second after the growth.              *)
globset_add(pattern, closure) ==
  LET normal == Normal(pattern)
      hash == normhash(pattern)
      new == [pattern |-> normal, hash |-> hash, closure |-> closure]
      table == IF hash = 0 THEN [exacts |-> exacts, gmask |-> gmask] ELSE Grown(exacts, gmask, count)
      at == Slot(hash, table.gmask)
      chain == IF hash = 0 THEN globs ELSE table.exacts[at]
      Fails(e) == exacts' = table.exacts /\ gmask' = table.gmask /\ answer' = e /\ UNCHANGED <<globs, count>>
      grows == table.gmask # gmask
      large == table.gmask = UINT_MAX
  IN \/ grows /\ large /\ answer' = "EOVERFLOW" /\ UNCHANGED <<globs, exacts, gmask, count>>
     \/ grows /\ ~large /\ answer' = "ENOMEM" /\ UNCHANGED <<globs, exacts, gmask, count>>
     \/ ~large /\ Place(chain, normal) # 0 /\ Fails("EEXIST")
     \/ ~large /\ Place(chain, normal) = 0 /\ Fails("ENOMEM")
     \/ /\ ~large /\ Place(chain, normal) = 0
        /\ gmask' = table.gmask /\ answer' = "ok"
        /\ IF hash = 0 THEN globs' = Append(globs, new) /\ UNCHANGED <<exacts, count>>
           ELSE exacts' = [table.exacts EXCEPT ![at] = Append(@, new)] /\ count' = count + 1 /\ UNCHANGED globs

globset_del(pattern) ==
  LET hash == normhash(pattern)
      chain == Chain(hash)
      i == Place(chain, Normal(pattern))
      at == Slot(hash, gmask)
  IN \/ i = 0 /\ answer' = "ENOENT" /\ UNCHANGED <<globs, exacts, gmask, count>>
     \/ /\ i # 0
        /\ answer' = chain[i].closure
        /\ UNCHANGED gmask
        /\ IF hash = 0 THEN globs' = RemoveAt(globs, i) /\ UNCHANGED <<exacts, count>>
           ELSE exacts' = [exacts EXCEPT ![at] = RemoveAt(@, i)] /\ count' = count - 1 /\ UNCHANGED globs

(* A destroyed set and the new one that follows it.                        *)
globset_destroy == globs' = << >> /\ exacts' = << >> /\ gmask' = 0 /\ count' = 0 /\ answer' = "none"

GlobSetNext ==
  \/ \E p \in Patterns : globset_del(p) \/ \E c \in Closures : globset_add(p, c)
  \/ globset_destroy

GlobSetSpec == GlobSetInit /\ [][GlobSetNext]_setVars

(* The handler, as a set of at most one.                                   *)
globset_search(pattern) ==
  LET chain == Chain(normhash(pattern))
      i == Place(chain, Normal(pattern))
  IN IF i = 0 THEN {} ELSE {chain[i]}

(* The first of the patterns with the best score.                          *)
Best(text) ==
  LET Score(i) == globmatch(globs[i].pattern, text)
      matching == {i \in DOMAIN globs : Score(i) > 0}
      best == {i \in matching : \A j \in matching : Score(i) >= Score(j)}
  IN IF matching = {} THEN {} ELSE {globs[Min(best)]}

globset_match(text) ==
  LET hash == normhash(text)
      chain == IF hash = 0 THEN << >> ELSE Chain(hash)
      i == SelectInSeq(chain, LAMBDA h : h.hash = hash /\ h.pattern = Normal(text))
  IN IF i # 0 THEN {chain[i]} ELSE Best(Normal(text))

-----------------------------------------------------------------------------
(* The set as its users see it, through globset_search.                    *)
Found == {p \in Normals : globset_search(p) # {}}
H == INSTANCE HandlerMap WITH
       handlers <- [p \in Found |-> (CHOOSE h \in globset_search(p) : TRUE).closure]

(* count is the number of exact patterns and the chains stay short: at     *)
(* most three quarters of the table are used.                              *)
TableIsLarge ==
  /\ count = SumFunction([i \in DOMAIN exacts |-> Len(exacts[i])])
  /\ count <= gmask - (gmask \div 4)

(* globset_match gives the handler of the text itself when there is one,   *)
(* else of the matching pattern that has the most literals, whatever the   *)
(* capitals and the order of the additions.                                *)
MatchIsBest ==
  \A t \in Texts :
    LET text == Normal(t)
        matching == {p \in Found : GLOB \in ToSet(p) /\ Matches(p, text, FALSE)}
        Literals(p) == Len(p) - Cardinality(Jokers(p))
        given == {h.pattern : h \in globset_match(t)}
    IN IF text \in Found /\ GLOB \notin ToSet(text) THEN given = {text}
       ELSE IF matching = {} THEN given = {}
       ELSE \E p \in matching : given = {p} /\ \A q \in matching : Literals(q) <= Literals(p)
=============================================================================
