------------------------------- MODULE Socket -------------------------------
(***************************************************************************)
(* src/sys/rp-socket.c: opening a socket for an URI.  The system calls are *)
(* external: each may fail; a socket is a record of what was done to it.   *)
(* An URI is [prefix, rest]: prefix is the text before the first colon, or *)
(* "" when there is none; rest begins with @, or is a host with a service  *)
(* or without, or a path.                                                  *)
(***************************************************************************)
EXTENDS Integers, Sequences, SequencesExt, FiniteSets

CONSTANTS Uris, Schemes, MaxAddresses   \* bound: addresses getaddrinfo gives

VARIABLES call,    \* the call: uri, server, scheme
          pc, left,   \* its step, and the addresses left to try
          fd,      \* the open file, or NoFd
          path,    \* external: a file is at the path of the socket
          leaks,   \* files left open that nobody knows of
          result   \* what is returned: "fd", an error, or "" before

socketVars == <<call, pc, left, fd, path, leaks, result>>

Inet == "tcp"
Entries == <<Inet, "sd", "unix", "char">>
NoFd == [kind |-> "none", named |-> FALSE, reuse |-> FALSE, cloexec |-> FALSE, nonblock |-> FALSE, listening |-> FALSE]
File(kind) == [NoFd EXCEPT !.kind = kind]

(* The type: the prefix if it is known, else the scheme, with or without   *)
(* its colon, else the first entry.                                        *)
get_entry(uri, scheme) ==
  IF uri.prefix \in ToSet(Entries) THEN uri.prefix ELSE IF scheme \in ToSet(Entries) THEN scheme ELSE Inet

(* What is opened is what follows a known prefix, else the whole URI.      *)
KnownPrefix == call.uri.prefix \in ToSet(Entries)
Abstract == call.uri.rest = "@" /\ (KnownPrefix \/ call.uri.prefix = "")
HasService == IF KnownPrefix THEN call.uri.rest # "no service" ELSE call.uri.prefix # ""

SocketInit ==
  /\ call \in [uri : Uris, server : BOOLEAN, scheme : Schemes]
  /\ pc = "entry" /\ left = 0 /\ fd = NoFd /\ path = TRUE /\ leaks = 0 /\ result = ""

Type == get_entry(call.uri, call.scheme)

Returns(r) == pc' = "done" /\ result' = r
Goes(step) == pc' = step /\ UNCHANGED result

(* open_uri: what the URI asks for is refused or begun.                    *)
Entry ==
  /\ pc = "entry"
  /\ \/ Type = "unix" /\ (Goes("socket") \/ Returns("ENAMETOOLONG")) /\ UNCHANGED <<fd, left>>
     \/ Type = "char" /\ ((fd' = File("char") /\ Goes("setup")) \/ (Returns("error") /\ UNCHANGED fd)) /\ UNCHANGED left
     \/ /\ Type = "sd" /\ UNCHANGED left
        /\ IF call.server THEN (fd' = [File("sd") EXCEPT !.named = TRUE] /\ Goes("setup")) \/ (Returns("error") /\ UNCHANGED fd)
           ELSE Returns("EINVAL") /\ UNCHANGED fd
     \/ /\ Type = Inet /\ UNCHANGED fd
        /\ IF ~HasService THEN Returns("EINVAL") /\ UNCHANGED left
           ELSE \/ Returns("error") /\ UNCHANGED left                    \* getaddrinfo
                \/ left' \in 1..MaxAddresses /\ Goes("address")
  /\ UNCHANGED <<call, path, leaks>>

(* open_unix after the check of the length.                                *)
UnixSocket ==
  /\ pc = "socket"
  /\ \/ fd' = File("unix") /\ Goes("bind") /\ path' = (path /\ ~(call.server /\ ~Abstract))
     \/ Returns("error") /\ UNCHANGED <<fd, path>>
  /\ UNCHANGED <<call, left, leaks>>

(* bind for a server, which fails where a file is, or connect.             *)
UnixBind ==
  /\ pc = "bind"
  /\ \/ /\ ~(call.server /\ ~Abstract /\ path)
        /\ fd' = [fd EXCEPT !.named = TRUE] /\ Goes("setup")
        /\ path' = (path \/ (call.server /\ ~Abstract))
     \/ fd' = NoFd /\ Returns("error") /\ UNCHANGED path
  /\ UNCHANGED <<call, left, leaks>>

(* Variant: the socket of an address that fails is not closed.             *)
TcpAddressOpen ==
  /\ pc = "address" /\ left > 0
  /\ leaks' = leaks + (IF fd = NoFd THEN 0 ELSE 1)
  /\ \/ fd' = [File("tcp") EXCEPT !.named = TRUE, !.reuse = call.server] /\ Goes("setup") /\ UNCHANGED left
     \/ fd' = File("tcp") /\ left' = left - 1 /\ Goes("address")
  /\ UNCHANGED <<call, path>>

(* open_tcp for one address: socket, options, then bind or connect.        *)
TcpAddress ==
  /\ pc = "address" /\ left > 0
  /\ \/ fd' = [File("tcp") EXCEPT !.named = TRUE, !.reuse = call.server] /\ Goes("setup") /\ UNCHANGED left
     \/ fd' = NoFd /\ left' = left - 1 /\ Goes("address")
  /\ UNCHANGED <<call, path, leaks>>

TcpNone == pc = "address" /\ left = 0 /\ Returns("error") /\ UNCHANGED <<call, left, fd, path, leaks>>

(* The settings and, for the servers that have to, listen.                 *)
Setup ==
  /\ pc = "setup"
  /\ LET set == [fd EXCEPT !.cloexec = TRUE, !.nonblock = TRUE]
         listens == call.server /\ Type # "sd"
     IN \/ ~listens /\ fd' = set /\ Returns("fd")
        \/ listens /\ set.kind # "char" /\ fd' = [set EXCEPT !.listening = TRUE] /\ Returns("fd")
        \/ listens /\ fd' = NoFd /\ Returns("error")
  /\ UNCHANGED <<call, left, path, leaks>>

SocketNext == Entry \/ UnixSocket \/ UnixBind \/ TcpAddress \/ TcpNone \/ Setup

SocketSpec == SocketInit /\ [][SocketNext]_socketVars

-----------------------------------------------------------------------------
(* An error leaves no file open; success gives one that is bound or        *)
(* connected, does not block, is closed by exec, and listens for a server, *)
(* except what systemd has set up; the unix server has replaced the file   *)
(* that was at its path.                                                   *)
SocketIsReady ==
  pc = "done" =>
    /\ leaks = 0 /\ (fd # NoFd <=> result = "fd")
    /\ result = "fd" =>
         /\ fd.cloexec /\ fd.nonblock /\ (fd.named \/ fd.kind = "char")
         /\ fd.listening <=> call.server /\ fd.kind # "sd"

(* The prefix of the URI decides of the kind of socket, else the default   *)
(* scheme, else tcp; character devices and systemd names are never given   *)
(* as a socket that listens, respectively to a client.                     *)
KindIsAsked ==
  result = "fd" =>
    /\ fd.kind = CASE call.uri.prefix \in ToSet(Entries) -> call.uri.prefix
                   [] call.uri.prefix \notin ToSet(Entries) /\ call.scheme \in ToSet(Entries) -> call.scheme
                   [] OTHER -> "tcp"
    /\ fd.kind = "char" => ~call.server
    /\ fd.kind = "sd" => call.server

(* rp_socket_open gives the kind of file that the URI asks for, ready for use, *)
(* and whatever call fails nothing stays open.                             *)
SocketAsAsked == SocketIsReady /\ KindIsAsked
=============================================================================
