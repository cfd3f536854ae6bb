---------------------------- MODULE GamSockets ----------------------------
(***************************************************************************)
(* The ground the gamin client library and the gam_server daemon share:    *)
(* the unix stream sockets between them, the packets that travel on the    *)
(* sockets, and whether a server process owns the listening address.       *)
(*                                                                         *)
(* A socket is a pair of FIFO channels with two ends.  `up' carries the    *)
(* client's requests, `down' the server's events; a write to a channel     *)
(* whose reading end is closed fails with EPIPE and leaves nothing behind  *)
(* (both sides run with SIGPIPE ignored), and closing an end discards what *)
(* that end had not read.  What was already written stays readable after   *)
(* the writer is gone, so end of file is seen only on an empty channel.    *)
(* Packets are kept whole: the framing of partial and piggy-backed reads   *)
(* (gamin_data_conn_data, gam_connection_data) reassembles them in order.  *)
(***************************************************************************)
EXTENDS Integers, Sequences, SequencesExt

CONSTANTS
  Socks,    \* socket objects the kernel hands out
  Paths,    \* monitored file and directory names
  NoPath,   \* the path of a packet that carries none
  SeqSpan   \* width of GAMPacket.seq: an unsigned short, 2^16 in the source

ASSUME SeqSpanAssumption == SeqSpan \in Nat \ {0}
ASSUME NoPathAssumption == NoPath \notin Paths

VARIABLES
  up,       \* client -> server channel of each socket
  down,     \* server -> client channel of each socket
  cOpen,    \* is the client end open
  sOpen,    \* is the server end open (from connect() on, accepted or not)
  srv,      \* "up": a server process listens on the address; "down"
  starting  \* forked server processes that have not reached bind() yet

sockVars == <<up, down, cOpen, sOpen>>

(* Faulty variant: the number is not cut to the field. *)
SeqOf16_Uncut(r) == r

(* GAMPacket carries the request number in 16 bits. *)
SeqOf16(r) == r % SeqSpan

ReqTypes   == {"FILE", "DIR"}
EventTypes == {"Exists", "EndExist", "Created", "Deleted", "Changed", "Moved"}

Cred == [type |-> "CRED", seq |-> 0, path |-> NoPath, noexists |-> FALSE]

Monitors ==
  [type : ReqTypes, seq : 0 .. SeqSpan - 1, path : Paths, noexists : BOOLEAN]

Requests ==
  Monitors \cup
  [type : {"CANCEL", "CRED"}, seq : 0 .. SeqSpan - 1, path : {NoPath},
   noexists : {FALSE}]

ServerByte == [type |-> "CRED", seq |-> 0, path |-> NoPath]

Packets ==
  [type : EventTypes \cup {"Ack"}, seq : 0 .. SeqSpan - 1, path : Paths]
  \cup {ServerByte}

(* The channel function ch after pkts were written on socket s, whose      *)
(* reading ends are open as told by `open'.                                *)
Written(ch, open, s, pkts) ==
  IF open[s] THEN [ch EXCEPT ![s] = @ \o pkts] ELSE ch

Free(s) == ~cOpen[s] /\ ~sOpen[s]

SockTypeOK ==
  /\ up \in [Socks -> Seq(Requests)]
  /\ down \in [Socks -> Seq(Packets)]
  /\ cOpen \in [Socks -> BOOLEAN]
  /\ sOpen \in [Socks -> BOOLEAN]
  /\ srv \in {"up", "down"}
  /\ starting \in Nat

SockInit ==
  /\ up = [s \in Socks |-> <<>>]
  /\ down = [s \in Socks |-> <<>>]
  /\ cOpen = [s \in Socks |-> FALSE]
  /\ sOpen = [s \in Socks |-> FALSE]
  /\ srv = "down"
  /\ starting = 0
=============================================================================
