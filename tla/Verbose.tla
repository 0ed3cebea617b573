------------------------------ MODULE Verbose ------------------------------
(***************************************************************************)
(* src/sys/rp-verbose.c, with messages to stderr: the levels that are      *)
(* wanted, the stack of contexts, the colours and what is prepared for the *)
(* emission of a message.  A mask is the set of its bits.                  *)
(***************************************************************************)
EXTENDS Integers, Sequences, SequencesExt, FiniteSets, FiniteSetsExt

CONSTANTS Contexts,
          CONTEXT_DEPTH,   \* RP_VERBOSE_CONTEXT_DEPTH
          MaxPushed        \* bound: contexts pushed and not popped

USHRT_MAX == 65535   \* contextsDepth is an unsigned short

ASSUME DepthAssumption  == CONTEXT_DEPTH \in Nat
ASSUME PushedAssumption == MaxPushed \in 0..USHRT_MAX

VARIABLES logmask,
          contexts, contextsDepth,
          terminal,    \* external: stderr is a terminal
          tty,         \* 0, or 1 more than what isatty answered
          colorized,   \* 0, or 1 more than whether colours are used
          pushed       \* the contexts pushed and not popped

verboseVars == <<logmask, contexts, contextsDepth, terminal, tty, colorized, pushed>>

MINIMAL_LOGMASK == 0..3
DEFAULT_LOGMASK == 0..4
MAXIMAL_LOGMASK == 0..8
Levels == MAXIMAL_LOGMASK

VerboseInit ==
  /\ logmask = DEFAULT_LOGMASK \cup MINIMAL_LOGMASK
  /\ contexts = [i \in 1..CONTEXT_DEPTH |-> "unset"] /\ contextsDepth = 0 /\ pushed = << >>
  /\ terminal \in BOOLEAN /\ tty = 0 /\ colorized = 0

rp_set_logmask(mask) == (mask \cup MINIMAL_LOGMASK) \cap MAXIMAL_LOGMASK

(* The smallest mask of the first levels that covers the wanted ones.      *)
get_mask(mask) == 0..Max(mask \cup MINIMAL_LOGMASK)

rp_verbose_add(mask, level) == rp_set_logmask(mask \cup {level})
rp_verbose_sub(mask, level) == rp_set_logmask(mask \cap {level})
rp_verbose_clear(mask) == rp_set_logmask({})
rp_verbose_dec(mask) == rp_set_logmask(mask \cap (get_mask(mask) \ {Max(get_mask(mask))}))
rp_verbose_inc(mask) == rp_set_logmask(mask \cup {Max(get_mask(mask)) + 1})

SetLevels ==
  /\ \/ logmask' = rp_verbose_dec(logmask) \/ logmask' = rp_verbose_inc(logmask) \/ logmask' = rp_verbose_clear(logmask)
     \/ \E level \in Levels : \/ logmask' = rp_verbose_add(logmask, level) \/ logmask' = rp_verbose_sub(logmask, level)
  /\ UNCHANGED <<contexts, contextsDepth, terminal, tty, colorized, pushed>>

(* Variant: a full stack keeps its count.                                  *)
PushedFull(context) ==
  IF contextsDepth < CONTEXT_DEPTH
  THEN contexts' = [contexts EXCEPT ![contextsDepth + 1] = context] /\ contextsDepth' = contextsDepth + 1
  ELSE UNCHANGED <<contexts, contextsDepth>>

(* A full stack counts the contexts it does not keep.                      *)
Pushed(context) ==
  /\ contexts' = IF contextsDepth < CONTEXT_DEPTH THEN [contexts EXCEPT ![contextsDepth + 1] = context] ELSE contexts
  /\ contextsDepth' = (contextsDepth + 1) % (USHRT_MAX + 1)

rp_verbose_push(context) ==
  /\ Len(pushed) < MaxPushed
  /\ Pushed(context)
  /\ pushed' = Append(pushed, context)
  /\ UNCHANGED <<logmask, terminal, tty, colorized>>

rp_verbose_pop ==
  /\ contextsDepth' = IF contextsDepth > 0 THEN contextsDepth - 1 ELSE 0
  /\ pushed' = IF pushed = << >> THEN << >> ELSE Front(pushed)
  /\ UNCHANGED <<logmask, contexts, terminal, tty, colorized>>

-----------------------------------------------------------------------------
(* isatty is asked once.                                                   *)
is_tty == IF tty = 0 THEN terminal ELSE tty = 2
Cached(b) == IF b THEN 2 ELSE 1

(* rp_verbose_colorize: value is -1 to ask, 0 or 1 to set.                 *)
Colors(value) == IF value >= 0 THEN is_tty /\ value # 0 ELSE IF colorized = 0 THEN is_tty ELSE colorized = 2

rp_verbose_colorize(value) ==
  /\ colorized' = Cached(Colors(value))
  /\ tty' = IF value >= 0 \/ colorized = 0 THEN Cached(is_tty) ELSE tty
  /\ UNCHANGED <<logmask, contexts, contextsDepth, terminal, pushed>>

CROP_LOGLEVEL(level) == Max({0, Min({level, Max(MAXIMAL_LOGMASK)})})

(* How many contexts a message shows.                                      *)
Shown == Min({contextsDepth, CONTEXT_DEPTH})

(* The parts of a message, one slot of iov each: prefix and separator, two *)
(* for a context, the text, where it is from, "?" when there is nothing    *)
(* else, the end of line.                                                  *)
Slots(level, file, fmt) ==
  LET where == file /\ (~fmt \/ ~is_tty \/ level <= 4)
      body == 2 * Shown + (IF fmt THEN 1 ELSE 0) + (IF where THEN 7 + (IF Colors(-1) THEN 2 ELSE 0) ELSE 0)
  IN 2 + (IF body = 0 THEN 1 ELSE body) + 1

(* _vverbose_: what is emitted.                                             *)
Message(level, file, fmt) ==
  [level |-> CROP_LOGLEVEL(level), contexts |-> [i \in 1..Shown |-> contexts[i]],
   slots |-> Slots(CROP_LOGLEVEL(level), file, fmt), color |-> Colors(-1)]

(* The emission itself: it only leaves the answers of isatty.              *)
rp_vverbose ==
  /\ tty' = Cached(is_tty) /\ colorized' = Cached(Colors(-1))
  /\ UNCHANGED <<logmask, contexts, contextsDepth, terminal, pushed>>

VerboseNext ==
  \/ SetLevels \/ rp_verbose_pop \/ rp_vverbose
  \/ \E c \in Contexts : rp_verbose_push(c)
  \/ \E value \in {-1, 0, 1} : rp_verbose_colorize(value)

VerboseSpec == VerboseInit /\ [][VerboseNext]_verboseVars

-----------------------------------------------------------------------------
(* A message shows the outermost contexts that are pushed and not popped,  *)
(* even after more pushes than the stack has places; it stays inside the   *)
(* stack and inside the slots of iov, is coloured only on a terminal and   *)
(* has a known level.                                                      *)
MessagesFit ==
  \A level \in {-1, 0, 4, 5, 8, 9}, file, fmt \in BOOLEAN :
    LET msg == Message(level, file, fmt)
    IN /\ msg.contexts = SubSeq(pushed, 1, Min({Len(pushed), CONTEXT_DEPTH}))
       /\ msg.slots <= 20 + 2 * CONTEXT_DEPTH
       /\ msg.level \in Levels
       /\ msg.color => terminal

(* The errors are always wanted, rp_verbose_inc adds the level above the   *)
(* highest wanted one and rp_verbose_dec takes it back, until the highest  *)
(* level, even with levels missing in the mask.                            *)
LevelsGoByOne ==
  LET highest == Max(logmask)
  IN /\ MINIMAL_LOGMASK \subseteq logmask /\ logmask \subseteq MAXIMAL_LOGMASK
     /\ rp_verbose_inc(logmask) = logmask \cup ({highest + 1} \cap Levels)
     /\ highest \in 3..7 => rp_verbose_dec(rp_verbose_inc(logmask)) = logmask
     /\ highest > 3 => rp_verbose_dec(logmask) = logmask \ {highest}

(* Messages and levels of rp-verbose.c follow what was asked: pushes beyond *)
(* the stack come off in order, and the mask keeps the errors.             *)
LoggedAsAsked == MessagesFit /\ LevelsGoByOne
=============================================================================
