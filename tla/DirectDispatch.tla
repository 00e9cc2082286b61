--------------------------- MODULE DirectDispatch ---------------------------
(***************************************************************************)
(* The upload of one TCP connection from the client to the outbound:       *)
(* DispatchDirect sniffs the first records under the inbound's read        *)
(* deadline, then the sockets go to the owner reactor, the copy loop       *)
(* writes to the outbound's socket, or the copy loop writes to the pipe    *)
(* of the regular Dispatch, which sniffs again.  A record arrives in       *)
(* Units pieces; the inbound's reader (retains) keeps the pieces of a      *)
(* record that a deadline cut, as ownerTCPReader does, or drops them, as   *)
(* AuthenticationReader does.                                              *)
(***************************************************************************)
EXTENDS Integers, Sequences

CONSTANTS
  Records,   \* bound: records the client sends
  Units      \* pieces of a record

ASSUME StreamAssumption == Records \in Nat /\ Units \in Nat \ {0}

VARIABLES
  retains,   \* the inbound's reader is ownerTCPReader
  arrived,   \* pieces at the socket so far
  taken,     \* pieces read from it so far
  part,      \* pieces of the current record the reader holds
  decoded,   \* records decoded so far
  pending,   \* the reader's rest of the request record: <<0>> or <<>>
  head,      \* the first record of the upload: 0 if there was such a rest
  phase,     \* what the inbound does with the connection
  late,      \* the read deadline has passed
  attempts,  \* attempts of the first sniffer
  cache,     \* cache of its cachedReader, then of the replayReader
  pipe,      \* the pipe of the regular Dispatch
  again,     \* its goroutine: "off", "sniffing", "routing" or "routed"
  reattempts,\* attempts of its sniffer
  recache,   \* cache of its cachedReader
  out        \* what the outbound has got

given == <<retains, head>>
reader == <<taken, part, decoded, pending>>
fallback == <<pipe, again, reattempts, recache>>
streamVars == <<arrived, given, reader, phase, late, attempts, cache, fallback, out>>

Phases == {"sniffing", "selecting", "direct", "owner", "fallback", "closed"}

StreamTypeOK ==
  /\ retains \in BOOLEAN /\ head \in {0, 1}
  /\ arrived \in 0..(Records * Units) /\ taken \in 0..arrived
  /\ part \in 0..(Units - 1) /\ decoded \in 0..Records
  /\ pending \in {<<>>, <<0>>}
  /\ {cache, pipe, recache, out} \subseteq Seq(0..Records)
  /\ phase \in Phases /\ late \in BOOLEAN
  /\ attempts \in 0..2 /\ reattempts \in 0..2
  /\ again \in {"off", "sniffing", "routing", "routed"} /\ (again # "off" => phase \in {"fallback", "closed"})

\* Sniffing is the inbound's setting; a request record may carry payload.
StreamInit ==
  /\ retains \in BOOLEAN
  /\ arrived = 0 /\ taken = 0 /\ part = 0 /\ decoded = 0
  /\ head \in {0, 1} /\ pending = IF head = 0 THEN <<0>> ELSE <<>>
  /\ phase \in {"sniffing", "selecting"}
  /\ late = FALSE /\ attempts = 0 /\ cache = <<>>
  /\ pipe = <<>> /\ again = "off" /\ reattempts = 0 /\ recache = <<>>
  /\ out = <<>>

-----------------------------------------------------------------------------
(* The socket and the inbound's reader.                                    *)

Arrive ==
  /\ arrived < Records * Units
  /\ phase # "closed"
  /\ arrived' = arrived + 1
  /\ UNCHANGED <<given, reader, phase, late, attempts, cache, fallback, out>>

WireReady == arrived - taken + part >= Units
Aligned == taken = Units * decoded + part

ReadWire(got) ==
  /\ WireReady /\ Aligned
  /\ got = <<decoded + 1>>
  /\ taken' = taken + Units - part /\ part' = 0 /\ decoded' = decoded + 1

\* ReadMultiBuffer: the rest of the request record, or a whole record.
ReadRecord(got) ==
  IF pending # <<>>
    THEN /\ got = pending /\ pending' = <<>>
         /\ UNCHANGED <<taken, part, decoded>>
    ELSE ReadWire(got) /\ UNCHANGED pending

\* What ReadRecord may return.
Reads == {<<i>> : i \in 0..Records}

\* Mutant: the pieces that were read are dropped.
ReadCutDrops ==
  /\ taken' = arrived
  /\ part' = 0
  /\ UNCHANGED <<decoded, pending>>

\* ReadMultiBuffer when the deadline passes in the middle of a record.
ReadCut ==
  /\ taken' = arrived
  /\ part' = IF retains THEN part + arrived - taken ELSE 0
  /\ UNCHANGED <<decoded, pending>>

-----------------------------------------------------------------------------
(* DispatchDirect.                                                         *)

\* Cache reads, merges and shows the sniffer what it has: a result or
\* an unknown content ends the sniffing, no clue asks for more.
Cache ==
  /\ phase = "sniffing" /\ attempts < 2
  /\ pending # <<>> \/ ~late
  /\ attempts' = attempts + 1
  /\ \E got \in Reads : ReadRecord(got) /\ cache' = cache \o got
  /\ phase' \in {"sniffing", "selecting"}
  /\ UNCHANGED <<arrived, given, late, fallback, out>>

\* A read that meets the deadline, or comes after it: its error is dropped.
CacheTimeout ==
  /\ phase = "sniffing" /\ attempts < 2
  /\ pending = <<>> /\ (late \/ ~WireReady)
  /\ IF late THEN UNCHANGED reader ELSE ReadCut
  /\ late' = TRUE
  /\ attempts' = attempts + 1
  /\ phase' \in IF cache = <<>> THEN {"sniffing"} ELSE {"sniffing", "selecting"}
  /\ UNCHANGED <<arrived, given, cache, fallback, out>>

\* Mutant: the sniffer waits for the client's first record.
SniffingWaits ==
  /\ phase = "sniffing" /\ attempts = 2 /\ cache # <<>>
  /\ phase' = "selecting"
  /\ UNCHANGED <<arrived, given, reader, late, attempts, cache, fallback, out>>

SniffingTimeout ==
  /\ phase = "sniffing" /\ attempts = 2
  /\ phase' = "selecting"
  /\ UNCHANGED <<arrived, given, reader, late, attempts, cache, fallback, out>>

\* A rule, a missing handler or a failed dial.
SelectFails ==
  /\ phase = "selecting"
  /\ phase' = "closed"
  /\ UNCHANGED <<arrived, given, reader, late, attempts, cache, fallback, out>>

OpenDirect ==
  /\ phase = "selecting"
  /\ phase' = "direct"
  /\ UNCHANGED <<arrived, given, reader, late, attempts, cache, fallback, out>>

\* Mutant: only the replay reader is asked for what it holds.
AdoptReplay ==
  /\ phase = "selecting" /\ retains
  /\ phase' = "owner"
  /\ out' = cache
  /\ cache' = <<>>
  /\ UNCHANGED <<arrived, given, reader, late, attempts, fallback>>

\* takeOwnerBuffered asks the replay reader or, if nothing was cached, the
\* inbound's; the session goes on with the pieces that one holds.
Adopt ==
  /\ phase = "selecting" /\ retains
  /\ phase' = "owner"
  /\ out' = IF cache # <<>> THEN cache ELSE pending
  /\ pending' = IF cache # <<>> THEN pending ELSE <<>>
  /\ cache' = <<>>
  /\ UNCHANGED <<arrived, given, taken, part, decoded, late, attempts, fallback>>

FallBack ==
  /\ phase = "selecting"
  /\ phase' = "fallback"
  /\ again' = IF attempts > 0 THEN "sniffing" ELSE "routing"
  /\ UNCHANGED <<arrived, given, reader, late, attempts, cache, pipe, reattempts, recache, out>>

-----------------------------------------------------------------------------
(* The transfer.                                                           *)

OwnerReads ==
  /\ phase = "owner"
  /\ \E got \in Reads : ReadWire(got) /\ out' = out \o got
  /\ UNCHANGED <<arrived, given, pending, phase, late, attempts, cache, fallback>>

Write(got) ==
  IF phase = "direct"
    THEN out' = out \o got /\ UNCHANGED pipe
    ELSE pipe' = pipe \o got /\ UNCHANGED out

\* Mutant: what was sniffed is not replayed.
CopyNothing ==
  /\ phase \in {"direct", "fallback"} /\ cache # <<>>
  /\ cache' = <<>>
  /\ UNCHANGED <<arrived, given, reader, phase, late, attempts, fallback, out>>

\* The replay reader gives its cache first.
CopyReplay ==
  /\ phase \in {"direct", "fallback"} /\ cache # <<>>
  /\ Write(cache)
  /\ cache' = <<>>
  /\ UNCHANGED <<arrived, given, reader, phase, late, attempts, again, reattempts, recache>>

CopyRecord ==
  /\ phase \in {"direct", "fallback"} /\ cache = <<>>
  /\ \E got \in Reads : ReadRecord(got) /\ Write(got)
  /\ UNCHANGED <<arrived, given, phase, late, attempts, cache, again, reattempts, recache>>

\* A record that begins in the middle does not authenticate.
CopyFails ==
  /\ phase \in {"direct", "fallback"} /\ cache = <<>> /\ pending = <<>>
  /\ ~Aligned /\ WireReady
  /\ phase' = "closed"
  /\ UNCHANGED <<arrived, given, reader, late, attempts, cache, fallback, out>>

\* The goroutine of Dispatch: Cache takes what the pipe has within 100 ms.
DispatchCache ==
  /\ phase = "fallback" /\ again = "sniffing" /\ reattempts < 2
  /\ reattempts' = reattempts + 1
  /\ recache' = recache \o pipe
  /\ pipe' = <<>>
  /\ again' \in IF recache' = <<>> THEN {"sniffing"} ELSE {"sniffing", "routing"}
  /\ UNCHANGED <<arrived, given, reader, phase, late, attempts, cache, out>>

DispatchSniffed ==
  /\ phase = "fallback" /\ again = "sniffing" /\ reattempts = 2
  /\ again' = "routing"
  /\ UNCHANGED <<arrived, given, reader, phase, late, attempts, cache, pipe, reattempts, recache, out>>

RoutedDispatch ==
  /\ phase = "fallback" /\ again = "routing"
  /\ again' = "routed"
  /\ UNCHANGED <<arrived, given, reader, phase, late, attempts, cache, pipe, reattempts, recache, out>>

\* routedDispatch without a handler interrupts the link.
DispatchFails ==
  /\ phase = "fallback" /\ again = "routing"
  /\ phase' = "closed"
  /\ UNCHANGED <<arrived, given, reader, late, attempts, cache, fallback, out>>

\* The handler reads through the cachedReader: its cache, then the pipe.
HandlerReads ==
  /\ phase = "fallback" /\ again = "routed"
  /\ recache # <<>> \/ pipe # <<>>
  /\ IF recache # <<>>
       THEN out' = out \o recache /\ recache' = <<>> /\ UNCHANGED pipe
       ELSE out' = out \o pipe /\ pipe' = <<>> /\ UNCHANGED recache
  /\ UNCHANGED <<arrived, given, reader, phase, late, attempts, cache, again, reattempts>>

Inbound ==
  \/ Cache \/ CacheTimeout \/ SniffingTimeout
  \/ SelectFails \/ OpenDirect \/ Adopt \/ FallBack
  \/ OwnerReads \/ CopyReplay \/ CopyRecord \/ CopyFails

Dispatch == DispatchCache \/ DispatchSniffed \/ RoutedDispatch \/ DispatchFails \/ HandlerReads

StreamNext == Arrive \/ Inbound \/ Dispatch

StreamSpec == StreamInit /\ [][StreamNext]_streamVars

\* Reads end at the deadline, and both goroutines go on.
StreamFairSpec == StreamSpec /\ WF_streamVars(Inbound) /\ WF_streamVars(Dispatch)

-----------------------------------------------------------------------------
\* What is held between the socket and the outbound, in the order in which
\* it is read.
Held == out \o recache \o pipe \o cache \o pending
Sent(n) == [i \in 1..(n + 1 - head) |-> i - 1 + head]

(* "Any bytes consumed while sniffing are returned through the replay      *)
(* reader so the regular dispatcher remains a lossless fallback": what was *)
(* decoded of an open connection is with the outbound or still held, in    *)
(* order, and, with a reader that keeps them, so are the pieces of a       *)
(* record that is not complete.                                            *)
Lossless ==
  phase # "closed" => Held = Sent(decoded) /\ (retains => Aligned)

(* Whichever way a connection ends, the outbound got a prefix of what the  *)
(* client sent: nothing is reordered, delivered twice or skipped.          *)
InOrder == out = SubSeq(Sent(Records), 1, Len(out))

(* A connection on which the client sends nothing, waiting for the server  *)
(* to speak, is routed all the same: sniffing ends.                        *)
SniffingEnds ==
  /\ phase = "sniffing" ~> phase # "sniffing"
  /\ again = "sniffing" ~> again # "sniffing" \/ phase = "closed"

(* With a reader that keeps the pieces, every record that arrives gets to  *)
(* the outbound unless the connection is closed, on each of the three ways. *)
RecordsGetThrough ==
  \A n \in 1..Records :
    retains /\ arrived >= n * Units ~> phase = "closed" \/ \E i \in DOMAIN out : out[i] = n
-----------------------------------------------------------------------------
(* What the first two rest on: where a record can be in each phase, and    *)
(* that the rest of the request record is read before all others.          *)
HoldersInv ==
  /\ phase \notin {"fallback", "closed"} => pipe = <<>> /\ recache = <<>>
  /\ phase \in {"sniffing", "selecting"} => out = <<>>
  /\ phase = "owner" => cache = <<>> /\ pending = <<>>
  /\ pending # <<>> => out = <<>> /\ recache = <<>> /\ pipe = <<>> /\ cache = <<>>

StreamInv == StreamTypeOK /\ HoldersInv /\ Lossless /\ InOrder
=============================================================================
