----------------------------- MODULE MCMachines -----------------------------
(* Bounded instances for TLC of the machines that work with the outside:   *)
(* handlers of patterns, messages of the program, files, websockets given  *)
(* buffers, requests of curl, sockets, values of json.hpp.  A behaviour is *)
(* about one of them, which says which one.                                *)
EXTENDS GlobSet, Verbose, FileIO, Ws, HttpPool, Socket, HppCodec

VARIABLE which   \* the machine in use

(* Patterns with and without jokers, where cases differ; the hashes put    *)
(* them in the same chain before the table grows.                          *)
MCPatterns == {<<"a">>, <<"A">>, <<"b">>, <<"a", "b">>, <<"b", "a">>, <<"c">>, <<"a", "*">>, <<"*", "B">>}
MCTexts == SeqOf({"a", "b", "A"}, 2) \cup {<<"*">>, <<"b", "*">>}
MCHash == [t \in MCPatterns \cup MCTexts |->
             CASE t = <<"a">> -> 1 [] t = <<"b">> -> 5 [] t = <<"a", "b">> -> 3 [] t = <<"c">> -> 7  [] OTHER -> 9]

(* Contents of different lengths, so that a mix is seen.                   *)
MCPuts == <<<<"a", "b", "c">>, <<"d", "e">>, <<"f", "g", "h", "i">>>>

(* Frames of all kinds, masked or not, and buffers that end in a header or *)
(* in a payload, hold two frames or break the protocol.                    *)
Frame(first, payload, key) == [first |-> first, payload |-> payload, key |-> key]
MCFrames ==
  {Frame(129, <<7>>, << >>), Frame(2, <<1, 2, 3, 4, 5, 6>>, <<9, 0, 3, 255>>), Frame(137, <<5>>, << >>),
   Frame(138, << >>, << >>), Frame(138, <<4>>, <<1, 2, 3, 4>>), Frame(193, <<1, 2>>, << >>), Frame(136, <<3, 232, 65>>, << >>)}
MCRawBuffers ==
  {<<129, 2, 1>>, <<136, 1, 3>>, <<129, 1, 136, 0>>, <<137, 126>>, <<131, 0>>, <<129, 126, 1, 44>>, <<7, 0, 3>>,
   <<129, 126, 4, 0>>}
MCItfs == {[on_ping |-> TRUE, on_pong |-> TRUE, on_extension |-> FALSE],
           [on_ping |-> FALSE, on_pong |-> FALSE, on_extension |-> TRUE]}

MCUris == [prefix : {"", "tcp", "unix", "sd", "char", "http"}, rest : {"x", "@", "no service"}]

-----------------------------------------------------------------------------
(* Numbers at the limits of the widths, in eight bytes.                    *)
Power(i, low) == [j \in 1..8 |-> IF j = i THEN low ELSE 0]
Below(s) == LET i == Max({j \in 1..8 : s[j] # 0}) IN [j \in 1..8 |-> IF j < i THEN s[j] ELSE IF j = i THEN s[j] - 1 ELSE 255]
HppEdges == {Bytes(n) : n \in {1, 24, 31, 32, 33, 128, 256, 32768, 65536}} \cup {Power(i, 128) : i \in {1, 5}} \cup {Power(4, 1)}
HppNumbers ==
  {HUnsigned(s) : s \in HppEdges \cup {Below(s) : s \in HppEdges} \cup {Complement(Bytes(0))}}
    \cup {HInteger(Complement(s)) : s \in (HppEdges \cup {Below(s) : s \in HppEdges}) \ {Power(1, 128)}}
    \cup {HInteger(Bytes(n)) : n \in {0, 127, 128, 255, 256, 70000}}

(* Some doubles with the digits and the exponent of grisu2; the other ones *)
(* of the texts are coded by their digits.                                 *)
Decimals(numbers) == FoldLeft(LAMBDA acc, n : acc \o Digits(Bytes(n)), << >>, numbers)
HppDoubles ==
  {<<x[1], Decimals(x[2]), x[3]>> : x \in
    {<<Double(0, 1023, 4194304), <<15>>, -1>>, <<Double(0, 1023, 0), <<1>>, 0>>,
     <<Double(0, 874, 0), <<14012984, 64324817>>, -60>>, <<Double(0, 873, 0), <<70064923, 21624085>>, -61>>,
     <<Double(0, 875, 1), <<28025972, 62745223>>, -60>>, <<Double(0, 1150, 8388607), <<340282346, 63852886>>, 22>>,
     <<Double(0, 1151, 0), <<34028236, 69209385>>, 23>>, <<<<63, 185, 153, 153, 153, 153, 153, 154>>, <<1>>, -1>>}}
Coded(digits, e) == <<64, 128 + e>> \o [i \in 1..6 |-> IF i <= Len(digits) THEN digits[i] ELSE 0]
MCGrisu2(s) ==
  LET KnownOr(known) ==
        IF known = {} THEN [digits |-> SelectSeq(SubSeq(s, 3, 8), LAMBDA d : d # 0), exponent |-> s[2] - 128]
        ELSE CHOOSE g \in {[digits |-> x[2], exponent |-> x[3]] : x \in known} : TRUE
  IN KnownOr({x \in HppDoubles : x[1] = s})

(* The number that a text denotes: its digits and exponent without zeros   *)
(* at both ends.                                                           *)
RECURSIVE Stripped(_, _)
Stripped(digits, e) ==
  CASE digits = << >> -> [digits |-> << >>, exponent |-> 0]
    [] digits # << >> /\ Head(digits) = 48 -> Stripped(Tail(digits), e)
    [] digits # << >> /\ Last(digits) = 48 -> Stripped(Front(digits), e + 1)
    [] OTHER -> [digits |-> digits, exponent |-> e]
TextValue(digits) == FoldLeft(LAMBDA n, d : IF n > 9999 THEN n ELSE n * 10 + (d - 48), 0, digits)
Figures(text) == SelectSeq(text, LAMBDA c : c \in 48..57)
Denoted(text) ==
  LET PowerOfTen(after) == TextValue(Figures(after)) * (IF after # << >> /\ after[1] = 45 THEN -1 ELSE 1)
      Pointed(mantissa, point, power) == Stripped(Figures(mantissa), power - (IF point = 0 THEN 0 ELSE Len(mantissa) - point))
      Parts(mantissa, after) == Pointed(mantissa, SelectInSeq(mantissa, LAMBDA c : c = 46), PowerOfTen(after))
      Cut(e) == IF e = 0 THEN Parts(text, << >>) ELSE Parts(SubSeq(text, 1, e - 1), SubSeq(text, e + 1, Len(text)))
  IN Cut(SelectInSeq(text, LAMBDA c : c \in {69, 101}))
MCStrtod(text) ==
  LET KnownOr(d, known) ==
        CASE d.digits = << >> -> Double(0, 0, 0)
          [] d.digits # << >> /\ known # {} -> CHOOSE s \in {x[1] : x \in known} : TRUE
          [] d.digits # << >> /\ known = {} /\ d.exponent > 300 -> Double(0, 2047, 0)
          [] OTHER -> Coded(d.digits, d.exponent)
      Value64(d) == KnownOr(d, {x \in HppDoubles : x[2] = d.digits /\ x[3] = d.exponent})
      Sign(s) == IF text[1] = 45 THEN [s EXCEPT ![1] = @ + 128] ELSE s
  IN Sign(Value64(Denoted(text)))

HppFloats ==
  {HFloat(x[1]) : x \in HppDoubles} \cup {HFloat(Coded(d, e)) : d \in {<<51>>, <<51, 52>>, <<51, 48, 50, 55, 56>>}, e \in (-22..-19) \cup (-5..1) \cup (10..16)}
    \cup {HFloat(s) : s \in {Double(0, 0, 0), Double(1, 0, 0), Double(1, 1023, 0), Double(0, 2047, 0), Double(1, 2047, 0), Double(0, 2047, 1)}}
HppTexts == {JString([i \in 1..n |-> 97]) : n \in {0, 23, 24, 31, 32, 255, 256}} \cup
  {JString(s) : s \in {<<34, 92, 47, 8, 9, 10, 12, 13, 1, 127>>, <<195, 169>>, <<226, 130, 172, 97>>, <<240, 159, 152, 128>>, <<195>>, <<97, 255>>}}
HppBinaries == {HBinary(t, [i \in 1..n |-> 200]) : t \in {NoSubtype, 200}, n \in {0, 1, 2, 4, 8, 16, 17, 24, 256}}
MCHppLeaves == {JBool(0), JBool(1)} \cup HppNumbers \cup HppFloats \cup HppTexts \cup HppBinaries
MCHppItems == {JNull, JBool(1), HUnsigned(Bytes(200)), HUnsigned(Power(1, 128)), HBinary(5, <<1, 2>>), JObject(<< >>), JArray(<<JString(<<98>>)>>)}
MCHppKeys == {<<97>>, <<97, 98>>, <<0>>}
MCHppCopies == {0, 15, 16, 24}
Singles(bytes) == {<<b>> : b \in bytes}
MCHppChunks ==
  [cbor |-> Singles({0, 24, 32, 65, 95, 97, 127, 129, 159, 161, 191, 246, 255}) \cup {<<249, 3>>, [i \in 1..9 |-> IF i = 1 THEN 155 ELSE 255], [i \in 1..9 |-> IF i = 1 THEN 59 ELSE 255]},
   cbor_ignore |-> Singles({1, 65, 161, 97, 192, 200, 216, 217, 255}),
   msgpack |-> Singles({1, 129, 145, 161, 192, 194, 196, 199, 204, 208, 212, 217, 224}) \cup {<<220, 0>>},
   ubjson |-> Singles({36, 35, 73, 78, 85, 90, 91, 93, 105, 123, 125, 48, 2, 255, 67}) \cup {<<72, 105>>},
   bson |-> {<<0, 0, 0, 0>>, <<0>>, <<8, 97, 0>>, <<1>>, <<2, 98, 0, 2, 0, 0, 0>>, <<3, 97, 0, 9, 9, 9, 9>>, <<4, 99, 0, 0, 0, 0, 0>>, <<5, 97, 0, 1, 0, 0, 0>>,
             <<16, 97, 0, 255, 255, 255, 255>>, <<10, 98, 0>>, <<2, 98, 0, 0, 0, 0, 255>>},
   text |-> {<<91>>, <<93>>, <<123>>, <<125>>, <<44>>, <<34, 97, 34, 58>>, <<34, 92, 117, 100, 56, 51, 100>>, <<92, 117, 68, 69, 48, 48, 34>>, <<45>>, <<48>>, <<46>>,
             <<49>>, <<101, 49>>, <<32>>, <<110, 117, 108, 108>>, <<57, 50, 50, 51, 51, 55, 50, 48, 51, 54, 56, 53, 52, 55, 55, 53, 56, 48, 56>>, <<49, 101, 52, 48, 48>>},
   utf8 |-> Singles({97, 10, 127, 128, 143, 144, 159, 160, 191, 193, 194, 224, 225, 237, 240, 241, 244, 245}) \cup {<<240, 159, 152, 128>>}]
-----------------------------------------------------------------------------
(* A machine that is not in use stays where it starts.                     *)
MCInit ==
  /\ which \in {"globset", "verbose", "file", "ws", "pool", "socket", "hpp"}
  /\ HppInit /\ (which # "hpp" => hppKind = "value")
  /\ GlobSetInit /\ FileInit /\ PoolInit
  /\ VerboseInit /\ (which # "verbose" => ~terminal)
  /\ WsInit /\ (which # "ws" => itf.on_ping)
  /\ SocketInit /\ (which # "socket" => call = [uri |-> [prefix |-> "", rest |-> "x"], server |-> FALSE, scheme |-> ""])

MCNext ==
  /\ \/ which = "globset" /\ GlobSetNext /\ UNCHANGED <<verboseVars, fileVars, wsVars, poolVars, socketVars, hppVars>>
     \/ which = "verbose" /\ VerboseNext /\ UNCHANGED <<setVars, fileVars, wsVars, poolVars, socketVars, hppVars>>
     \/ which = "file"    /\ FileNext    /\ UNCHANGED <<setVars, verboseVars, wsVars, poolVars, socketVars, hppVars>>
     \/ which = "ws"      /\ WsNext      /\ UNCHANGED <<setVars, verboseVars, fileVars, poolVars, socketVars, hppVars>>
     \/ which = "pool"    /\ PoolNext    /\ UNCHANGED <<setVars, verboseVars, fileVars, wsVars, socketVars, hppVars>>
     \/ which = "socket"  /\ SocketNext  /\ UNCHANGED <<setVars, verboseVars, fileVars, wsVars, poolVars, hppVars>>
     \/ which = "hpp"     /\ HppNext     /\ UNCHANGED <<setVars, verboseVars, fileVars, wsVars, poolVars, socketVars>>
  /\ UNCHANGED which

MCSpec == MCInit /\ [][MCNext]_<<setVars, verboseVars, fileVars, wsVars, poolVars, socketVars, hppVars, which>>

(* A globset is a map of patterns to closures: nothing is lost or moved to *)
(* a chain where it is not looked for when the table grows or lacks memory, *)
(* the table stays large enough and globset_match finds the best handler.  *)
IsHandlerMap == H!HMSpec /\ [](which = "globset" => TableIsLarge /\ MatchIsBest)

(* SentIsRead of Ws, looked at once: what the sending half makes is read   *)
(* by the receiving half as it was.                                        *)
SentFramesAreRead == which = "ws" => SentIsRead

(* ws.c on both sides: what one sends the other reads as it was, and frames *)
(* are reported in order wherever their header is cut.                     *)
FramesAreExchanged == FramesReported /\ SentFramesAreRead
=============================================================================
