------------------------------ MODULE HttpPool ------------------------------
(***************************************************************************)
(* src/sandbox/curl-client.c: requests sent through a pool of libcurl and  *)
(* answered by a callback, and synchronous requests.  libcurl is external: *)
(* it calls back for blocks of the body and queues one message for each    *)
(* transfer that ends.  The event loop calls it when a socket or its timer *)
(* is ready, which there is only while a transfer is running.              *)
(***************************************************************************)
EXTENDS Integers, Sequences, SequencesExt, FiniteSets

CONSTANTS Requests,
          Blocks,      \* blocks of bodies
          MaxBlocks    \* bound: blocks of one body

ASSUME RequestsAssumption == IsFiniteSet(Requests)

VARIABLES rqts,       \* the requests: state, blocks received, body, status, calls of the callback
          messages    \* external: what curl_multi_info_read gives

poolVars == <<rqts, messages>>

NoRqt == [state |-> "none", sent |-> << >>, body |-> << >>, status |-> 0, calls |-> 0]

PoolInit == rqts = [r \in Requests |-> NoRqt] /\ messages = << >>

Running == {r \in Requests : rqts[r].state = "running"}

(* httpSendQuery with a pool: the handle is added, or the request freed.   *)
httpSendQuery(r) ==
  /\ rqts[r].state = "none"
  /\ \E s \in {"running", "freed"} : rqts' = [rqts EXCEPT ![r].state = s]
  /\ UNCHANGED messages

(* Variant: a block replaces the ones before.                              *)
httpBodyCBLast(rqt, block) == [rqt EXCEPT !.sent = Append(@, block), !.body = <<block>>]

(* A block of the body; without memory the body is lost and curl stops.    *)
httpBodyCB(rqt, block) == [rqt EXCEPT !.sent = Append(@, block), !.body = Append(@, block)]
httpBodyLost(rqt) == [rqt EXCEPT !.body = << >>]

(* The callback tells whether to free the request, which it may keep.      *)
Called(rqt, ok, keep) ==
  [rqt EXCEPT !.status = IF ok THEN 200 ELSE -1, !.calls = @ + 1,
              !.body = IF ok THEN @ ELSE <<"message">>, !.state = IF keep THEN "kept" ELSE "freed"]

(* One message is read: the loop ends with the first transfer that ended.  *)
multiCheckInfoCB(all, msgs, keep) ==
  IF msgs = << >> THEN [rqts |-> all, messages |-> msgs]
  ELSE [rqts |-> [all EXCEPT ![msgs[1][1]] = Called(@, msgs[1][2], keep)], messages |-> Tail(msgs)]

(* httpOnSocketCB and httpOnTimerCB: libcurl goes on with transfers, which *)
(* end in the given order, well or not, then messages are read.            *)
Acts(all, ending, ok, keep) ==
  LET ended == [r \in Requests |-> IF r \in ToSet(ending) THEN [all[r] EXCEPT !.state = "ended"] ELSE all[r]]
      after == multiCheckInfoCB(ended, messages \o [k \in DOMAIN ending |-> <<ending[k], ok>>], keep)
  IN rqts' = after.rqts /\ messages' = after.messages

ReceivesBlock(r, block, keep) ==
  /\ r \in Running /\ Len(rqts[r].sent) < MaxBlocks
  /\ \/ Acts([rqts EXCEPT ![r] = httpBodyCB(@, block)], << >>, TRUE, keep)
     \/ Acts([rqts EXCEPT ![r] = httpBodyLost(@)], <<r>>, FALSE, keep)

EndsTransfers(ending, ok, keep) == ending \subseteq Running /\ Running # {} /\ Acts(rqts, SetToSeq(ending), ok, keep)

(* httpSendQuery without a pool: all in the call, where httpBodyCB gets    *)
(* block after block; the request is freed only when it fails.             *)
SendsAndWaits(r, blocks, ok) ==
  /\ rqts[r].state = "none"
  /\ LET done == [rqts[r] EXCEPT !.sent = @ \o blocks, !.body = @ \o blocks, !.state = "running"]
     IN rqts' = [rqts EXCEPT ![r] = IF ok THEN Called(done, TRUE, TRUE) ELSE [done EXCEPT !.state = "freed"]]
  /\ UNCHANGED messages

PoolNext ==
  \/ \E r \in Requests : \/ httpSendQuery(r) \/ \E b \in Blocks, keep \in BOOLEAN : ReceivesBlock(r, b, keep)
                         \/ \E bs \in SeqOf(Blocks, MaxBlocks), ok \in BOOLEAN : SendsAndWaits(r, bs, ok)
  \/ \E ending \in SUBSET Requests, ok, keep \in BOOLEAN : EndsTransfers(ending, ok, keep)

PoolSpec == PoolInit /\ [][PoolNext]_poolVars

-----------------------------------------------------------------------------
(* A callback is called once, for a request that is not freed and has the  *)
(* whole body, or the message of its error.                                *)
CalledOnceWhole ==
  \A r \in Requests :
    LET q == rqts[r]
    IN /\ q.calls <= 1 /\ (q.state = "kept" => q.calls = 1)
       /\ q.calls = 1 /\ q.status = 200 => q.body = q.sent
       /\ \A k \in DOMAIN messages : messages[k][1] = r => q.state = "ended" /\ q.calls = 0

(* curl-client.c: "final callback is called from multiCheckInfoCB when     *)
(* CURLMSG_DONE".  So no request that ended is left waiting when nothing   *)
(* runs any more, since libcurl then asks for no event.                    *)
NoneForgotten == Running = {} => messages = << >>
=============================================================================
