-------------------------------- MODULE Yaml --------------------------------
(***************************************************************************)
(* Conversion of YAML to json-c objects (src/yaml/rp-yaml.c), from the     *)
(* events that libyaml makes of a text: [type, plain, text, anchor], where *)
(* << >> is the anchor of an event that has none and the name of an alias. *)
(* libyaml fails where the sequence of events stops.                       *)
(*                                                                         *)
(* y is the structure y2j_s: the heap h of json-c, the address of the      *)
(* object of aliases, the events and the number of parsed ones.            *)
(***************************************************************************)
EXTENDS Json

CONSTANTS
  strtol,   \* the texts that strtol accepts as a whole, to their values
  strtod    \* the same for strtod

Event(type, plain, text, anchor) == [type |-> type, plain |-> plain, text |-> text, anchor |-> anchor]
NullText == <<110, 117, 108, 108>>
TrueText == <<116, 114, 117, 101>>
FalseText == <<102, 97, 108, 115, 101>>
Starts == {"sequence start", "mapping start"}
Ends == {"sequence end", "mapping end"}

y2jt_init(evs) == LET n == New(<< >>, JObject(<< >>)) IN [h |-> n.h, aliases |-> n.a, evs |-> evs, pos |-> 0]
y2jt_deinit(y) == json_object_put(y.h, y.aliases)
y2jt_parse(y) == [y EXCEPT !.pos = @ + 1]
ParseFails(y) == y.pos > Len(y.evs)
Current(y) == y.evs[y.pos]

y2j_rec_anchor(y, node, anchor) ==
  CASE anchor = << >> -> [y |-> y, rc |-> 0]
    [] anchor # << >> /\ IndexOf(y.h[y.aliases], anchor) # 0 -> [y |-> y, rc |-> -1]
    [] OTHER -> [y |-> [y EXCEPT !.h = object_add(json_object_get(y.h, node), y.aliases, anchor, node)], rc |-> 0]

Scalar(e) ==
  CASE ~e.plain -> JString(e.text)
    [] e.plain /\ e.text = NullText -> JNull
    [] e.plain /\ e.text = TrueText -> JBool(1)
    [] e.plain /\ e.text = FalseText -> JBool(0)
    [] e.plain /\ e.text \in DOMAIN strtol -> JInt(strtol[e.text])
    [] e.plain /\ e.text \in DOMAIN strtod \ DOMAIN strtol -> JDouble(strtod[e.text])
    [] OTHER -> JString(e.text)

(* What y2j_node returns; a node is released when it failed.               *)
Node(y, rc, node) ==
  IF rc < 0 THEN [y |-> [y EXCEPT !.h = json_object_put(@, node)], rc |-> rc, node |-> NULL]
            ELSE [y |-> y, rc |-> rc, node |-> node]

(* y2j_node from the current event, Items and Pairs from the next one.     *)
RECURSIVE y2j_node(_)
RECURSIVE Items(_, _)
RECURSIVE Pairs(_, _)
AddItem(item, value) ==
  IF item.rc < 0 THEN Node(item.y, item.rc, value)
  ELSE Items([item.y EXCEPT !.h = array_put_idx(@, value, Len(@[value].kids), item.node)], value)
Items(y, value) ==
  LET next == y2jt_parse(y)
  IN CASE ParseFails(next) -> Node(next, -1, value)
       [] ~ParseFails(next) /\ Current(next).type = "sequence end" -> Node(next, 0, value)
       [] OTHER -> AddItem(y2j_node(next), value)

AddPair(key, item, value) ==
  IF item.rc < 0 THEN Node(item.y, item.rc, value)
  ELSE Pairs([item.y EXCEPT !.h = object_add(@, value, key, item.node)], value)
Pairs(y, value) ==
  LET key == y2jt_parse(y)
      next == y2jt_parse(key)
  IN CASE ParseFails(key) -> Node(key, -1, value)
       [] ~ParseFails(key) /\ Current(key).type = "mapping end" -> Node(key, 0, value)
       [] OTHER -> IF Current(key).type # "scalar" THEN Node(key, -1, value)
                   ELSE IF ParseFails(next) THEN Node(next, -1, value)
                   ELSE AddPair(Current(key).text, y2j_node(next), value)

(* new is the object of a scalar or of a container, rec what recording its *)
(* anchor gives, which only matters for a container.                       *)
Recorded(type, new, rec) ==
  CASE type = "scalar" -> Node(rec.y, 0, new)
    [] type \in Starts /\ rec.rc < 0 -> Node(rec.y, rec.rc, new)
    [] type = "sequence start" /\ rec.rc = 0 -> Items(rec.y, new)
    [] type = "mapping start" /\ rec.rc = 0 -> Pairs(rec.y, new)
Record(y, e, new) == Recorded(e.type, new.a, y2j_rec_anchor([y EXCEPT !.h = new.h], new.a, e.anchor))

Aliased(y, known) ==
  LET alias == y.h[y.aliases].kids[known].v
  IN IF known = 0 THEN Node(y, -1, NULL) ELSE Node([y EXCEPT !.h = json_object_get(@, alias)], 0, alias)

y2j_node(y) ==
  LET e == Current(y)
  IN CASE e.type = "alias" -> Aliased(y, IndexOf(y.h[y.aliases], e.anchor))
       [] e.type = "scalar" -> Record(y, e, Alloc(y.h, Scalar(e)))
       [] e.type = "sequence start" -> Record(y, e, New(y.h, JArray(<< >>)))
       [] e.type = "mapping start" -> Record(y, e, New(y.h, JObject(<< >>)))
       [] OTHER -> Node(y, -1, NULL)

(* Only the first document is converted; nothing after its node is parsed. *)
y2j_root(y) ==
  LET start == y2jt_parse(y)
      document == y2jt_parse(start)
      node == y2jt_parse(document)
  IN CASE ParseFails(start) -> Node(start, -1, NULL)
       [] ~ParseFails(start) /\ ParseFails(document) -> Node(document, -1, NULL)
       [] OTHER -> IF Current(start).type # "stream start" \/ Current(document).type # "document start"
                      \/ ParseFails(node) THEN Node(node, -1, NULL)
                   ELSE y2j_node(node)

rp_yaml_buffer_to_json_c(evs) ==
  LET Result(r) == [h |-> y2jt_deinit(r.y), rc |-> r.rc, root |-> r.node]
  IN Result(y2j_root(y2jt_init(evs)))

-----------------------------------------------------------------------------
(* The structure of the events evs of one node or of its beginning: the    *)
(* container of the i-th event, 0 for none.                                *)
Level(evs, i) == Cardinality({k \in 1..i : evs[k].type \in Starts}) - Cardinality({k \in 1..i : evs[k].type \in Ends})
Container(evs, i) == Max({0} \cup {k \in 1..i - 1 : evs[k].type \in Starts /\ \A l \in k..i - 1 : Level(evs, l) >= Level(evs, k)})
Before(evs, i) == {k \in 1..i - 1 : evs[k].type \notin Ends /\ Container(evs, k) = Container(evs, i)}
IsKey(evs, i) ==
  Container(evs, i) # 0 /\ evs[Container(evs, i)].type = "mapping start" /\ Cardinality(Before(evs, i)) % 2 = 0
EndOf(evs, i) ==
  IF evs[i].type \notin Starts THEN i
  ELSE Min({Len(evs)} \cup {k \in i + 1..Len(evs) : Level(evs, k) < Level(evs, i)})

(* What libyaml can make: each end closes the innermost container, keys    *)
(* have values, and there is one root.                                     *)
Nested(evs) ==
  \A i \in DOMAIN evs :
    LET c == Container(evs, i)
    IN /\ c = 0 => i = 1 /\ evs[i].type \notin Ends
       /\ evs[i].type = "sequence end" => evs[c].type = "sequence start"
       /\ evs[i].type = "mapping end" => evs[c].type = "mapping start" /\ Cardinality(Before(evs, i)) % 2 = 0

(* The node that an alias stands for: the first one of that anchor, keys   *)
(* being unknown; 0 for none.                                              *)
Anchored(evs, i) ==
  LET js == {j \in 1..i - 1 : evs[j].type # "alias" /\ evs[j].anchor = evs[i].anchor /\ ~IsKey(evs, j)}
  IN IF js = {} THEN 0 ELSE Min(js)

HasCycle(evs) ==
  \E i \in DOMAIN evs : evs[i].type = "alias" /\ Anchored(evs, i) # 0 /\ EndOf(evs, Anchored(evs, i)) >= i

(* The events with the nodes written in the place of their aliases.        *)
RECURSIVE WrittenOut(_, _, _)
WrittenOut(evs, i, last) ==
  LET j == Anchored(evs, i)
      one == IF evs[i].type = "alias" /\ j # 0 THEN WrittenOut(evs, j, EndOf(evs, j))
             ELSE <<IF evs[i].type = "alias" THEN evs[i] ELSE [evs[i] EXCEPT !.anchor = << >>]>>
  IN IF i > last THEN << >> ELSE one \o WrittenOut(evs, i + 1, last)

(* Two containers of one anchor, or one after a scalar of that anchor.     *)
Redefines(evs) ==
  \E i \in DOMAIN evs : evs[i].type \in Starts /\ evs[i].anchor # << >> /\ Anchored(evs, i) # 0

Document(evs) == <<Event("stream start", TRUE, << >>, << >>), Event("document start", TRUE, << >>, << >>)>> \o evs

(* Everything that is left is a part of root, and the counts are those of  *)
(* the references.                                                         *)
IsExact(r) ==
  /\ DOMAIN r.h = Reach(r.h, r.root)
  /\ \A a \in DOMAIN r.h : r.h[a].refs = Members(r.h, a) + (IF a = r.root THEN 1 ELSE 0)

(* A document gives the value of the document where each alias is replaced *)
(* by its node, is refused exactly when that one is or when it defines an  *)
(* anchor of a container again, and nothing else is left in memory; for    *)
(* the documents without an alias inside its own node.                     *)
SameDocument(evs, r, w) ==
  /\ (r.rc = 0) = (w.rc = 0 /\ ~Redefines(evs))
  /\ r.rc = 0 => Tree(r.h, r.root) = Tree(w.h, w.root)
  /\ IsExact(r)
AliasesAreShared(evs) ==
  ~HasCycle(evs) => SameDocument(evs, rp_yaml_buffer_to_json_c(Document(evs)),
                                 rp_yaml_buffer_to_json_c(Document(WrittenOut(evs, 1, Len(evs)))))

(* The events of a value.                                                  *)
RECURSIVE Emit(_)
Emit(v) ==
  LET Plain(text) == <<Event("scalar", TRUE, text, << >>)>>
      Number(f) == Plain(CHOOSE text \in DOMAIN f : f[text] = v.n)
      kids == [i \in DOMAIN v.kids |-> (IF v.t = "object" THEN Plain(v.kids[i].k) ELSE << >>) \o Emit(v.kids[i].v)]
      Mark(type) == <<Event(type, TRUE, << >>, << >>)>>
  IN CASE v.t = "null" -> Plain(NullText)
       [] v.t = "boolean" -> Plain(IF v.n = 0 THEN FalseText ELSE TrueText)
       [] v.t = "int" -> Number(strtol)
       [] v.t = "double" -> Number(strtod)
       [] v.t = "string" -> <<Event("scalar", FALSE, v.s, << >>)>>
       [] v.t = "array" -> Mark("sequence start") \o FlattenSeq(kids) \o Mark("sequence end")
       [] v.t = "object" -> Mark("mapping start") \o FlattenSeq(kids) \o Mark("mapping end")

(* The events of a value give that value back, quoted texts being strings. *)
ReadsValues(v) ==
  LET r == rp_yaml_buffer_to_json_c(Document(Emit(v)))
  IN r.rc = 0 /\ Tree(r.h, r.root) = v /\ IsExact(r)
=============================================================================
