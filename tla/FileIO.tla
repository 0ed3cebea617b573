------------------------------- MODULE FileIO -------------------------------
(***************************************************************************)
(* src/misc/rp-file.c: one process puts contents in a file, another gets   *)
(* the content of the same file, each system call being a step.  The file  *)
(* system is external: a name leads to an inode, whose content is seen by  *)
(* whoever has it open, even when the name is removed.                     *)
(***************************************************************************)
EXTENDS Integers, Sequences, SequencesExt, FiniteSetsExt

CONSTANTS Puts,    \* the contents to put, in order
          Inodes,
          NoInode

BytesPut == UNION {ToSet(content) : content \in ToSet(Puts)}

ASSUME PutsAssumption   == Puts \in Seq(Seq(BytesPut))
ASSUME InodesAssumption == NoInode \notin Inodes

VARIABLES inodes,   \* external: the contents
          name,     \* external: the inode of the name, or NoInode
          puts,     \* contents not put yet
          putter,   \* rp_file_put_at
          getter,   \* rp_file_get_at
          met       \* a put overlapped the get

fileVars == <<inodes, name, puts, putter, getter, met>>

JUNK == "junk"
GetIdle == [pc |-> "idle", f |-> NoInode, sz |-> 0, i |-> 0, r |-> << >>, rc |-> 0]
PutIdle == [pc |-> "idle", f |-> NoInode, i |-> 0, content |-> << >>, rc |-> 0]

FileInit ==
  /\ inodes = [n \in Inodes |-> << >>] /\ name = NoInode
  /\ puts = Puts /\ putter = PutIdle /\ getter = GetIdle /\ met = FALSE

Ended(p) == p.pc \in {"idle", "done", "left", "refused"}

-----------------------------------------------------------------------------
(* The opening creates or truncates the file.                              *)
PutOpen ==
  /\ Ended(putter) /\ puts # << >>
  /\ puts' = Tail(puts)
  /\ \/ /\ putter' = [PutIdle EXCEPT !.pc = "refused", !.rc = -1]
        /\ UNCHANGED <<inodes, name, met>>
     \/ \E n \in IF name # NoInode THEN {name} ELSE Inodes \ {getter.f} :
          /\ name' = n /\ inodes' = [inodes EXCEPT ![n] = << >>]
          /\ putter' = [PutIdle EXCEPT !.pc = "write", !.f = n, !.content = Head(puts)]
          /\ met' = TRUE
  /\ UNCHANGED getter

(* write takes some bytes, or none; EINTR and EAGAIN are tried again.      *)
PutWrite ==
  /\ putter.pc = "write" /\ putter.i < Len(putter.content)
  /\ \E n \in 0..Len(putter.content) - putter.i :
       /\ inodes' = [inodes EXCEPT ![putter.f] = SubSeq(putter.content, 1, putter.i + n)]
       /\ putter' = [putter EXCEPT !.i = @ + n]
  /\ UNCHANGED <<name, puts, getter, met>>

(* Another error removes the file, when it can.                            *)
PutError ==
  /\ putter.pc = "write" /\ putter.i < Len(putter.content)
  /\ \/ name' = NoInode /\ putter' = [putter EXCEPT !.pc = "done", !.rc = -1, !.f = NoInode]
     \/ name' = name /\ putter' = [putter EXCEPT !.pc = "left", !.rc = -1, !.f = NoInode]
  /\ UNCHANGED <<inodes, puts, getter, met>>

(* Variant: one write is enough.                                           *)
PutCloseSoon ==
  /\ putter.pc = "write" /\ (putter.i > 0 \/ putter.content = << >>)
  /\ putter' = [putter EXCEPT !.pc = "done", !.f = NoInode]
  /\ UNCHANGED <<inodes, name, puts, getter, met>>

PutClose ==
  /\ putter.pc = "write" /\ putter.i = Len(putter.content)
  /\ putter' = [putter EXCEPT !.pc = "done", !.f = NoInode]
  /\ UNCHANGED <<inodes, name, puts, getter, met>>

-----------------------------------------------------------------------------
GetOpen ==
  /\ Ended(getter)
  /\ getter' = IF name = NoInode THEN [GetIdle EXCEPT !.pc = "done", !.rc = -1]
               ELSE [GetIdle EXCEPT !.pc = "stat", !.f = name]
  /\ met' = (putter.pc = "write")
  /\ UNCHANGED <<inodes, name, puts, putter>>

(* fstat gives the size for malloc; both may fail, or it is not a file.    *)
GetStat ==
  /\ getter.pc = "stat"
  /\ LET sz == Len(inodes[getter.f])
     IN \/ getter' = [getter EXCEPT !.pc = "read", !.sz = sz, !.r = [k \in 1..sz |-> JUNK]]
        \/ getter' = [GetIdle EXCEPT !.pc = "done", !.rc = -1]
  /\ UNCHANGED <<inodes, name, puts, putter, met>>

(* The file is shorter than it was: its size is what was read.             *)
EndOfFile(g) == [g EXCEPT !.sz = g.i]

(* read gives bytes until the end; EINTR and EAGAIN are tried again.       *)
GetRead ==
  LET g == getter
      left == Len(inodes[g.f]) - g.i
  IN /\ g.pc = "read" /\ g.i < g.sz
     /\ \/ left <= 0 /\ getter' = EndOfFile(g)
        \/ \E n \in 1..Min({left, g.sz - g.i}) :
             getter' = [g EXCEPT !.i = g.i + n,
                                 !.r = [k \in DOMAIN g.r |-> IF k \in g.i + 1..g.i + n THEN inodes[g.f][k] ELSE g.r[k]]]
     /\ UNCHANGED <<inodes, name, puts, putter, met>>

GetError ==
  /\ getter.pc = "read" /\ getter.i < getter.sz
  /\ getter' = [GetIdle EXCEPT !.pc = "done", !.rc = -1, !.sz = getter.sz]
  /\ UNCHANGED <<inodes, name, puts, putter, met>>

GetClose ==
  /\ getter.pc = "read" /\ getter.i >= getter.sz
  /\ getter' = [getter EXCEPT !.pc = "done", !.f = NoInode]
  /\ UNCHANGED <<inodes, name, puts, putter, met>>

FileNext == PutOpen \/ PutWrite \/ PutError \/ PutClose \/ GetOpen \/ GetStat \/ GetRead \/ GetError \/ GetClose

FileSpec == FileInit /\ [][FileNext]_fileVars

-----------------------------------------------------------------------------
(* After rp_file_put_at the file has the whole content, whatever the       *)
(* lengths of the writes, or, after an error, is not there unless it could *)
(* not be opened or removed.                                               *)
PutIsWhole ==
  putter.pc = "done" =>
    IF putter.rc = 0 THEN name # NoInode /\ inodes[name] = putter.content ELSE name = NoInode

(* What rp_file_get_at gives was in the file, each byte at its place, also *)
(* when the file is changed, shortened or removed while it is read; it is  *)
(* the whole file when nothing was put meanwhile.                          *)
GetIsReal ==
  getter.pc = "done" /\ getter.rc = 0 =>
    /\ getter.sz <= Len(getter.r)
    /\ \A k \in 1..getter.sz : \E j \in DOMAIN Puts : k \in DOMAIN Puts[j] /\ getter.r[k] = Puts[j][k]
    /\ ~met /\ name # NoInode => SubSeq(getter.r, 1, getter.sz) = inodes[name]

(* rp_file_put_at and rp_file_get_at on the same name, at the same time and *)
(* with short writes and reads, neither leave nor give what was never put. *)
FilesAreWhole == PutIsWhole /\ GetIsReal
=============================================================================
