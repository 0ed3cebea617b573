----------------------------- MODULE JsonExpand -----------------------------
(***************************************************************************)
(* src/json/rp-jsonc-expand.c with the callbacks of                        *)
(* src/json/rp-jsonc-default-expand.c: strings are expanded, then scanned  *)
(* for values, and an object that has a "$ref" is replaced by the content  *)
(* of files, which is expanded in the same way.                            *)
(*                                                                         *)
(* A name of file is a sequence of components, and so are the strings of   *)
(* "$ref".  The expansion in progress, struct expref and the heap, is the  *)
(* record c.                                                               *)
(***************************************************************************)
EXTENDS Json

CONSTANTS Files,        \* what readfunc reads: a function from names to values
          Unreadable,   \* the files, among them, on which it fails
          Dirs,         \* a function from names to the entries that readdir gives
          Environ,      \* rp_expand_vars_env_only, for the strings it changes
          Scanned,      \* scan_string_value, for the strings that stand for a value
          DEPTHMAX      \* files in files

Ref == <<"$ref">>
MERGEOPT == {"join", "replace"}

Put(c, a) == [c EXCEPT !.h = json_object_put(@, a)]
Return(c, a) == [c |-> c, a |-> a]

(* Errors stop what remains: the flags are cleared.                        *)
set_error(c, code) == [c EXCEPT !.flags = {}, !.error = code]

(* Near the current file, then from the current directory.                 *)
search_path(c, name) ==
  LET near == Front(c.path) \o name
  IN IF Len(c.path) > 1 /\ near \in DOMAIN Files THEN near
     ELSE IF name \in DOMAIN Files THEN name ELSE << >>

-----------------------------------------------------------------------------
(* Strings.                                                                *)
expand_string(c, object) ==
  LET value == c.h[object].s
      changed == "env" \in c.flags /\ value \in DOMAIN Environ
      text == IF changed THEN Environ[value] ELSE value
      scanned == Alloc(c.h, Scanned[text])
      copy == New(c.h, JString(text))
  IN IF "scan" \in c.flags /\ text \in DOMAIN Scanned THEN Return([c EXCEPT !.h = scanned.h], scanned.a)
     ELSE IF changed THEN Return([c EXCEPT !.h = copy.h], copy.a)
     ELSE Return(c, object)

RECURSIVE DeleteNulls(_, _)
DeleteNulls(h, object) ==
  LET i == SelectInSeq(h[object].kids, LAMBDA m : m.v = NULL)
  IN IF i = 0 THEN h ELSE DeleteNulls(object_del(h, object, h[object].kids[i].k), object)

-----------------------------------------------------------------------------
(* The functions call each other; r is what a call returned.               *)
RECURSIVE expand(_, _)

(* The values of an object or of an array, each replaced in its place.     *)
ReplaceKid(object, i, m, r) ==
  CASE r.a = m.v -> r.c
    [] r.a # m.v /\ r.c.h[object].t = "object" -> [r.c EXCEPT !.h = object_add(@, object, m.k, r.a)]
    [] OTHER -> [r.c EXCEPT !.h = array_put_idx(@, object, i - 1, r.a)]

RECURSIVE ExpandKids(_, _, _)
ExpandKids(c, object, i) ==
  IF i > Len(c.h[object].kids) THEN c
  ELSE LET m == c.h[object].kids[i]
       IN ExpandKids(ReplaceKid(object, i, m, expand(c, m.v)), object, i + 1)

ReplaceRoot(root, r) == IF r.a = root THEN r.c ELSE [Put(r.c, root) EXCEPT !.root = r.a]
default_expand(c) == ReplaceRoot(c.root, expand(c, c.root))

(* A file is expanded, apart from the root and the path of what refers to  *)
(* it.                                                                     *)
ExpandFile(c, path, file) == default_expand([c EXCEPT !.h = file.h, !.root = file.a, !.path = path])

(* Variant: the content of a file is not released when it has an error.    *)
MergeFileKept(c, r) ==
  LET back == [r EXCEPT !.root = c.root, !.path = c.path]
  IN IF r.error # "none" THEN back
     ELSE IF TypeOf(back.h, c.target) # "object" THEN [back EXCEPT !.target = r.root]
     ELSE Put([back EXCEPT !.h = rp_jsonc_object_merge(@, c.target, r.root, MERGEOPT)], r.root)

(* Then it is merged in the target, if the target is an object: otherwise  *)
(* it replaces the target, whatever it was.                                *)
MergeFile(c, r) ==
  LET back == [r EXCEPT !.root = c.root, !.path = c.path]
  IN IF r.error # "none" THEN Put(back, r.root)
     ELSE IF TypeOf(back.h, c.target) # "object" THEN [back EXCEPT !.target = r.root]
     ELSE Put([back EXCEPT !.h = rp_jsonc_object_merge(@, c.target, r.root, MERGEOPT)], r.root)

ReadPath(c, path) ==
  CASE path = << >> -> set_error(c, "ENOENT")
    [] path # << >> /\ path \in Unreadable -> set_error(c, "unreadable")
    [] OTHER -> MergeFile(c, ExpandFile(c, path, Alloc(c.h, Files[path])))
read_file_ref(c, name) == ReadPath(c, search_path(c, name))

(* The entries are read until one fails.                                   *)
RECURSIVE read_dir_ref(_, _, _)
read_dir_ref(c, dir, entries) ==
  IF entries = << >> \/ c.error # "none" THEN c
  ELSE read_dir_ref(read_file_ref(c, dir \o Head(entries)), dir, Tail(entries))

read_any_ref(c, name) ==
  IF "dir" \in c.flags /\ name \in DOMAIN Dirs THEN read_dir_ref(c, name, Dirs[name]) ELSE read_file_ref(c, name)

expand_ref(c, object) ==
  IF TypeOf(c.h, object) # "string" THEN set_error(c, "EINVAL") ELSE read_any_ref(c, c.h[object].s)

(* All the items of an array, or the value that is not an array; an error  *)
(* does not stop the loop.                                                 *)
RECURSIVE ForAll(_, _)
ForAll(c, refs) == IF refs = << >> THEN c ELSE ForAll(expand_ref(c, Head(refs)), Tail(refs))
rp_jsonc_optarray_for_all(c, ref) ==
  ForAll(c, IF TypeOf(c.h, ref) = "array" THEN [i \in DOMAIN c.h[ref].kids |-> c.h[ref].kids[i].v] ELSE <<ref>>)

(* What replaces an object that has a reference.                           *)
TakeTarget(c, object, r) ==
  LET back == [r EXCEPT !.target = c.target, !.nest = c.nest]
  IN IF r.error = "none" THEN Return(back, r.target) ELSE Return(Put(back, r.target), object)
ExpandRefs(c, object, ref) ==
  LET start == [c EXCEPT !.nest = @ + 1, !.target = NULL]
  IN IF c.nest >= DEPTHMAX THEN Return(set_error(c, "ELOOP"), object)
     ELSE TakeTarget(c, object, IF "multiple" \in c.flags THEN rp_jsonc_optarray_for_all(start, ref)
                                ELSE expand_ref(start, ref))

WithoutNulls(r) ==
  IF "nulls" \in r.c.flags /\ TypeOf(r.c.h, r.a) = "object"
  THEN Return([r.c EXCEPT !.h = DeleteNulls(@, r.a)], r.a) ELSE r
expand_object(c, object) ==
  LET i == IndexOf(c.h[object], Ref)
  IN WithoutNulls(IF "refs" \in c.flags /\ i # 0 THEN ExpandRefs(c, object, c.h[object].kids[i].v)
                  ELSE Return(c, object))

(* The content first, then the object; what replaces it is expanded again. *)
Release(x, r) == IF r.a = x.a THEN r ELSE Return(Put(r.c, x.a), r.a)
ExpandAgain(object, x) == IF x.a = object THEN x ELSE Release(x, expand(x.c, x.a))
expand(c, object) ==
  CASE TypeOf(c.h, object) = "object" -> ExpandAgain(object, expand_object(ExpandKids(c, object, 1), object))
    [] TypeOf(c.h, object) = "array" -> Return(ExpandKids(c, object, 1), object)
    [] TypeOf(c.h, object) = "string" -> expand_string(c, object)
    [] OTHER -> Return(c, object)

rp_jsonc_expand(c) == expand(c, c.root)

Expanding(c) ==
  CASE c.root # NULL -> default_expand(c)
    [] c.root = NULL /\ c.path = << >> -> set_error(c, "EINVAL")
    [] OTHER -> IF c.path \notin DOMAIN Files \/ c.path \in Unreadable THEN set_error(c, "unreadable")
                ELSE ExpandFile(c, c.path, Alloc(c.h, Files[c.path]))
rp_jsonc_default_expanding(h, object, path, flags) ==
  Expanding([h |-> h, error |-> "none", flags |-> flags, nest |-> 0, root |-> object, path |-> path, target |-> NULL])

-----------------------------------------------------------------------------
(* The reference: an expansion of values.  An error gives the code.        *)
Done(v) == [error |-> "none", v |-> v]
Failure(code) == [error |-> code, v |-> JNull]

NoNulls(v, flags) ==
  IF "nulls" \in flags /\ v.t = "object" THEN [v EXCEPT !.kids = SelectSeq(@, LAMBDA m : m.v # JNull)] ELSE v

RECURSIVE Expanded(_, _, _, _)

(* The content of the named files, merged after target.                    *)
RECURSIVE Content(_, _, _, _, _)
After(target, v) ==
  CASE target.t # "object" -> v
    [] target.t = "object" /\ v.t = "object" -> Merged(target, v, MERGEOPT)
    [] OTHER -> target
FileOf(name, path) == IF Len(path) > 1 /\ Front(path) \o name \in DOMAIN Files THEN Front(path) \o name ELSE name
ContentOf(file, nest, flags) ==
  CASE file \notin DOMAIN Files -> Failure("ENOENT")
    [] file \in Unreadable -> Failure("unreadable")
    [] OTHER -> Expanded(Files[file], file, nest, flags)
AndThen(e, names, path, nest, flags, target) ==
  IF e.error # "none" THEN e ELSE Content(names, path, nest, flags, After(target, e.v))
Content(names, path, nest, flags, target) ==
  IF names = << >> THEN Done(target)
  ELSE AndThen(ContentOf(FileOf(Head(names), path), nest, flags), Tail(names), path, nest, flags, target)

(* The names in a "$ref", directories being replaced by their files.       *)
NamesOf(list, flags) ==
  FlattenSeq([i \in DOMAIN list |->
    LET s == list[i].s
    IN IF "dir" \in flags /\ s \in DOMAIN Dirs THEN [k \in DOMAIN Dirs[s] |-> s \o Dirs[s][k]] ELSE <<s>>])

DoneWithoutNulls(e, flags) == IF e.error # "none" THEN e ELSE Done(NoNulls(e.v, flags))
Referred(list, path, nest, flags) ==
  CASE nest >= DEPTHMAX -> Failure("ELOOP")
    [] nest < DEPTHMAX /\ (\E i \in DOMAIN list : list[i].t # "string") -> Failure("EINVAL")
    [] OTHER -> DoneWithoutNulls(Content(NamesOf(list, flags), path, nest + 1, flags, JNull), flags)

(* w has its members expanded.                                             *)
ExpandedWhole(w, path, nest, flags) ==
  LET ref == w.kids[IndexOf(w, Ref)].v
      list == IF "multiple" \in flags /\ ref.t = "array" THEN [i \in DOMAIN ref.kids |-> ref.kids[i].v] ELSE <<ref>>
  IN IF w.t = "object" /\ "refs" \in flags /\ IndexOf(w, Ref) # 0 THEN Referred(list, path, nest, flags)
     ELSE Done(NoNulls(w, flags))

ExpandedKids(v, path, nest, flags, kids) ==
  LET failed == SelectInSeq(kids, LAMBDA r : r.error # "none")
  IN IF failed # 0 THEN kids[failed]
     ELSE ExpandedWhole([v EXCEPT !.kids = [i \in DOMAIN kids |-> [k |-> v.kids[i].k, v |-> kids[i].v]]],
                        path, nest, flags)

Expanded(v, path, nest, flags) ==
  LET text == IF "env" \in flags /\ v.s \in DOMAIN Environ THEN Environ[v.s] ELSE v.s
  IN IF v.t = "string"
     THEN Done(IF "scan" \in flags /\ text \in DOMAIN Scanned THEN Scanned[text] ELSE JString(text))
     ELSE ExpandedKids(v, path, nest, flags,
                       [i \in DOMAIN v.kids |-> Expanded(v.kids[i].v, path, nest, flags)])

(* The expansion of a value gives, for any sharing and any nesting of the  *)
(* files, what expanding each file once gives, or an error as it does; it  *)
(* ends; and every reference to an object is owned by one member or by the *)
(* root, on errors too: nothing is lost and nothing is freed too early.    *)
(* (A list of files may end with one whose content is not an object.)      *)
IsExpansion(r, e) ==
  /\ r.error = "none" <=> e.error = "none"
  /\ e.error = "none" => Tree(r.h, r.root) = e.v
  /\ \A b \in DOMAIN r.h : r.h[b].refs = Members(r.h, b) + (IF b = r.root THEN 1 ELSE 0)
ExpandsOnce(v, path, flags) ==
  LET a == Alloc(<< >>, v)
      e == IF v # JNull THEN Expanded(v, path, 0, flags)
           ELSE IF path = << >> THEN Failure("EINVAL")
           ELSE IF path \notin DOMAIN Files \/ path \in Unreadable THEN Failure("unreadable")
           ELSE Expanded(Files[path], path, 0, flags)
  IN IsExpansion(rp_jsonc_default_expanding(a.h, a.a, path, flags), e)
=============================================================================
