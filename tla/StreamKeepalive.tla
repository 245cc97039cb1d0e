--------------------------- MODULE StreamKeepalive ---------------------------
(***************************************************************************)
(* The response body that keeps a silent event stream alive,               *)
(* internal/gateway/stream_keepalive.go.                                   *)
(*                                                                         *)
(* Three goroutines share it: the proxy that calls Read, the goroutine     *)
(* readUpstream that fills the one buffer on demand, and whoever calls     *)
(* Close.  pending is a slice of that same buffer, not a copy, so it is    *)
(* modelled as positions in buffer.                                        *)
(*                                                                         *)
(* A byte is "cr", "lf" or "data".  The keepalive comment is its shape: a  *)
(* line of data and two line feeds.  What upstream sends, in which chunks, *)
(* when it ends and how much room each Read has are chosen freely.         *)
(***************************************************************************)
EXTENDS Integers, Sequences, FiniteSets, FiniteSetsExt

CONSTANTS
    BufferBytes,   \* streamReadBufferBytes
    ReadBytes,     \* bound: room in one Read
    MaxBytes,      \* bound: bytes upstream sends
    MaxComments    \* bound: comments in one behaviour

ASSUME KeepaliveAssumption ==
    /\ {BufferBytes, ReadBytes} \subseteq Nat \ {0}
    /\ {MaxBytes, MaxComments} \subseteq Nat

VARIABLES
    \* fields of streamKeepaliveBody
    reads, closed, buffer, pending, err, reading, framing,
    \* Read: where it is and its room; readUpstream, with the result it sends
    reader, room, fetcher, fetched,
    \* Close; the ticker's channel
    closer, tick,
    \* history: what upstream sent; what Read delivered, each byte with its
    \* position in the comment, or 0 if it is upstream's
    sent, out, comments

fetchVars == <<fetcher, fetched, buffer, sent>>
closeVars == <<closed, closer>>
keepaliveVars == <<reads, closeVars, pending, err, reading, framing, reader, room,
          fetchVars, tick, out, comments>>

-----------------------------------------------------------------------------
Bytes == {"cr", "lf", "data"}
Comment == <<"data", "lf", "lf">>    \* streamKeepaliveComment
NoBytes == [from |-> "buffer", first |-> 1, last |-> 0]

\* The bytes pending stands for when they are copied.
Pending == [i \in 1..(pending.last - pending.first + 1) |->
              IF pending.from = "comment"
              THEN Comment[pending.first + i - 1]
              ELSE buffer[pending.first + i - 1]]

NewFraming == [boundary |-> TRUE, lineData |-> FALSE, afterCR |-> FALSE]

\* One turn of the loop in observe().
observeByte(f, c) ==
    IF f.afterCR /\ c = "lf" THEN [f EXCEPT !.afterCR = FALSE]
    ELSE IF c \in {"cr", "lf"}
    THEN [boundary |-> ~f.lineData, lineData |-> FALSE, afterCR |-> c = "cr"]
    ELSE [boundary |-> FALSE, lineData |-> TRUE, afterCR |-> FALSE]

\* observe(): the state after the first n bytes of value.
observe(f, value) ==
    LET after[n \in 0..Len(value)] ==
          IF n = 0 THEN f ELSE observeByte(after[n - 1], value[n])
    IN  after[Len(value)]

KeepaliveInit ==
    /\ reads = 0
    /\ closed = FALSE
    /\ buffer = [i \in 1..BufferBytes |-> "data"]
    /\ pending = NoBytes
    /\ err = "nil"
    /\ reading = FALSE
    /\ framing = NewFraming
    /\ reader = "idle"
    /\ room = 0
    /\ fetcher = "waiting"
    /\ fetched = [count |-> 0, err |-> "nil"]
    /\ closer = "idle"
    /\ tick = FALSE
    /\ sent = <<>>
    /\ out = <<>>
    /\ comments = 0

-----------------------------------------------------------------------------
(* Read.                                                                   *)

Read(n) ==
    /\ reader = "idle"
    /\ room' = n
    /\ reader' = "loop"
    /\ UNCHANGED <<reads, closeVars, pending, err, reading, framing, fetchVars,
                   tick, out, comments>>

\* Pending bytes are copied into the caller's slice.
ReadDelivers ==
    /\ reader = "loop" /\ Pending # <<>>
    /\ LET count == Min({room, Len(Pending)})
           value == SubSeq(Pending, 1, count)
           part(i) == IF pending.from = "comment" THEN pending.first + i - 1 ELSE 0
       IN  /\ out' = out \o [i \in 1..count |-> [byte |-> value[i], part |-> part(i)]]
           /\ framing' = observe(framing, value)
           /\ pending' = [pending EXCEPT !.first = @ + count]
    /\ reader' = "idle"
    /\ UNCHANGED <<reads, closeVars, err, reading, room, fetchVars, tick,
                   comments>>

\* The upstream's error follows its last bytes.
ReadReturnsError ==
    /\ reader = "loop" /\ Pending = <<>> /\ err # "nil"
    /\ reader' = "finished"
    /\ UNCHANGED <<reads, closeVars, pending, err, reading, framing, room,
                   fetchVars, tick, out, comments>>

\* One read is demanded, unless one is under way; then Read waits.
ReadDemands ==
    /\ reader = "loop" /\ Pending = <<>> /\ err = "nil"
    /\ IF reading THEN UNCHANGED <<reads, reading>>
       ELSE reads < 1 /\ reads' = reads + 1 /\ reading' = TRUE
    /\ reader' = "select"
    /\ UNCHANGED <<closeVars, pending, err, framing, room, fetchVars, tick,
                   out, comments>>

\* Either select sees that the body is closed.
ReadSeesClosed ==
    /\ closed
    /\ \/ reader = "select"
       \/ reader = "loop" /\ Pending = <<>> /\ err = "nil" /\ ~reading
    /\ reader' = "finished"
    /\ UNCHANGED <<reads, closeVars, pending, err, reading, framing, room,
                   fetchVars, tick, out, comments>>

\* Mutant: the next read is demanded with the result of the last one.
ReadReceives_Prefetches ==
    /\ reader = "select" /\ fetcher = "sending"
    /\ pending' = [from |-> "buffer", first |-> 1, last |-> fetched.count]
    /\ err' = fetched.err
    /\ IF fetched.err = "nil" THEN reads' = 1 /\ reading' = TRUE
                             ELSE UNCHANGED reads /\ reading' = FALSE
    /\ fetcher' = "waiting"
    /\ reader' = "loop"
    /\ UNCHANGED <<closeVars, framing, room, fetched, buffer, sent, tick,
                   out, comments>>

\* The result of the read: readUpstream and Read meet on results.
ReadReceives ==
    /\ reader = "select" /\ fetcher = "sending"
    /\ reading' = FALSE
    /\ pending' = [from |-> "buffer", first |-> 1, last |-> fetched.count]
    /\ err' = fetched.err
    /\ fetcher' = "waiting"
    /\ reader' = "loop"
    /\ UNCHANGED <<reads, closeVars, framing, room, fetched, buffer, sent, tick,
                   out, comments>>

\* Mutant: a CR at the end of a line is enough.
CommentAllowed_AfterCR == framing.boundary

\* Between two events, and not where a CR may be half of CRLF.
CommentAllowed == framing.boundary /\ ~framing.afterCR

\* The ticker fired: a comment, or nothing.
ReadTicks ==
    /\ reader = "select" /\ tick
    /\ tick' = FALSE
    /\ IF CommentAllowed
       THEN /\ comments < MaxComments
            /\ pending' = [from |-> "comment", first |-> 1,
                           last |-> Len(Comment)]
            /\ comments' = comments + 1
       ELSE UNCHANGED <<pending, comments>>
    /\ reader' = "loop"
    /\ UNCHANGED <<reads, closeVars, err, reading, framing, room, fetchVars,
                   out>>

\* The ticker's channel holds one tick.
Ticks ==
    /\ ~tick /\ ~closed
    /\ tick' = TRUE
    /\ UNCHANGED <<reads, closeVars, pending, err, reading, framing, reader,
                   room, fetchVars, out, comments>>

-----------------------------------------------------------------------------
(* readUpstream.                                                           *)

FetchBegins ==
    /\ fetcher = "waiting" /\ reads = 1
    /\ reads' = 0
    /\ fetcher' = "reading"
    /\ UNCHANGED <<closeVars, pending, err, reading, framing, reader, room,
                   fetched, buffer, sent, tick, out, comments>>

\* upstream.Read fills the front of the buffer (external).
FetchReads ==
    /\ fetcher = "reading"
    /\ \E count \in 0..Min({BufferBytes, MaxBytes - Len(sent)}),
          e \in {"nil", "eof"} :
         /\ \E value \in [1..count -> Bytes] :
              /\ buffer' = [i \in 1..BufferBytes |->
                              IF i <= count THEN value[i] ELSE buffer[i]]
              /\ sent' = sent \o value
         /\ fetched' = [count |-> count, err |-> e]
    /\ fetcher' = "sending"
    /\ UNCHANGED <<reads, closeVars, pending, err, reading, framing, reader,
                   room, tick, out, comments>>

\* Mutant: a result in hand must be delivered first.
FetchStops_Undelivered ==
    /\ fetcher = "waiting" /\ closed
    /\ fetcher' = "done"
    /\ UNCHANGED <<reads, closeVars, pending, err, reading, framing, reader,
                   room, fetched, buffer, sent, tick, out, comments>>

\* Either select of readUpstream sees that the body is closed.
FetchStops ==
    /\ fetcher \in {"waiting", "sending"} /\ closed
    /\ fetcher' = "done"
    /\ UNCHANGED <<reads, closeVars, pending, err, reading, framing, reader,
                   room, fetched, buffer, sent, tick, out, comments>>

-----------------------------------------------------------------------------
(* Close.                                                                  *)

\* close(closed), the ticker stops, upstream is closed,
Close ==
    /\ closer = "idle"
    /\ closed' = TRUE
    /\ closer' = "joining"
    /\ UNCHANGED <<reads, pending, err, reading, framing, reader, room,
                   fetchVars, tick, out, comments>>

\* and the goroutine is joined.
CloseReturns ==
    /\ closer = "joining" /\ fetcher = "done"
    /\ closer' = "returned"
    /\ UNCHANGED <<reads, closed, pending, err, reading, framing, reader, room,
                   fetchVars, tick, out, comments>>

Reader == ReadDelivers \/ ReadReturnsError \/ ReadDemands \/ ReadSeesClosed
            \/ ReadReceives \/ ReadTicks
Fetcher == FetchBegins \/ FetchReads \/ FetchStops
KeepaliveNext == (\E n \in 1..ReadBytes : Read(n)) \/ Reader \/ Ticks \/ Fetcher
          \/ Close \/ CloseReturns

KeepaliveSpec == KeepaliveInit /\ [][KeepaliveNext]_keepaliveVars

\* Both goroutines run, and a select that can see closed again and again takes
\* that case eventually (Go chooses at random).  Upstream may stay silent until
\* it is closed, and nobody has to call Read or Close.
KeepaliveFairness == /\ WF_keepaliveVars(ReadDelivers \/ ReadReturnsError \/ ReadDemands)
            /\ WF_keepaliveVars(ReadReceives)
            /\ SF_keepaliveVars(ReadSeesClosed)
            /\ WF_keepaliveVars(FetchBegins)
            /\ SF_keepaliveVars(FetchStops)
            /\ WF_keepaliveVars(closed /\ FetchReads)
            /\ WF_keepaliveVars(CloseReturns)

FairKeepaliveSpec == KeepaliveSpec /\ KeepaliveFairness

-----------------------------------------------------------------------------
(* Properties.                                                             *)

\* Every variable has its type; pending is a part of what it points into.
KeepaliveTypeOK ==
    /\ reads \in 0..1
    /\ {closed, reading, tick} \subseteq BOOLEAN
    /\ buffer \in [1..BufferBytes -> Bytes]
    /\ pending.from \in {"buffer", "comment"}
    /\ pending.first \in 1..(pending.last + 1)
    /\ pending.last \in IF pending.from = "comment" THEN {Len(Comment)} ELSE 0..BufferBytes
    /\ pending = [from |-> pending.from, first |-> pending.first, last |-> pending.last]
    /\ err \in {"nil", "eof"}
    /\ framing \in [boundary: BOOLEAN, lineData: BOOLEAN, afterCR: BOOLEAN]
    /\ reader \in {"idle", "loop", "select", "finished"}
    /\ room \in Nat /\ (reader # "idle" => room > 0)
    /\ fetcher \in {"waiting", "reading", "sending", "done"}
    /\ fetched \in [count: 0..BufferBytes, err: {"nil", "eof"}]
    /\ closer \in {"idle", "joining", "returned"}
    /\ sent \in Seq(Bytes)
    /\ out \in Seq([byte: Bytes, part: 0..Len(Comment)])
    /\ comments \in Nat

\* The bytes of upstream among those delivered.
Delivered(o) ==
    LET upTo[n \in 0..Len(o)] ==
          IF n = 0 THEN <<>>
          ELSE IF o[n].part = 0 THEN Append(upTo[n - 1], o[n].byte)
          ELSE upTo[n - 1]
    IN  upTo[Len(o)]

\* Without its comments, the delivered stream is what upstream sent: no byte
\* is lost, repeated or overwritten in the shared buffer before it is copied,
\* and upstream's error is returned only after all of its bytes.
Transparent ==
    LET delivered == Delivered(out)
    IN  /\ Len(delivered) <= Len(sent)
        /\ delivered = SubSeq(sent, 1, Len(delivered))
        /\ reader = "finished" /\ ~closed => delivered = sent

\* The lines of a stream end in CR, LF or CRLF: these are the positions of the
\* characters that remain when CRLF counts as one.
Significant(s) == {i \in DOMAIN s : ~(s[i] = "lf" /\ i > 1 /\ s[i - 1] = "cr")}

\* What an event-stream parser means by "between two events": nothing yet, or
\* the last line is empty and complete.
BetweenEvents(s) ==
    LET sig == Significant(s)
        last == Max(sig)
        rest == sig \ {last}
    IN  \/ s = <<>>
        \/ /\ s[last] # "data"
           /\ rest = {} \/ s[Max(rest)] # "data"
           /\ s[Len(s)] # "cr"

\* "comments never split upstream frames" (stream_keepalive.go:25): a comment
\* starts only where the bytes before it end between two events, for every
\* way upstream delimits and chunks them and however Read is called; and it is
\* delivered whole before anything else is.
CommentsBetweenEvents ==
    \A i \in DOMAIN out : out[i].part > 0 =>
        /\ out[i].byte = Comment[out[i].part]
        /\ out[i].part = 1 => BetweenEvents(Delivered(SubSeq(out, 1, i)))
        /\ out[i].part > 1 => i > 1 /\ out[i - 1].part = out[i].part - 1
        /\ out[i].part < Len(Comment) /\ i < Len(out) =>
              out[i + 1].part = out[i].part + 1

\* Close returns, also while a read is under way or its result undelivered.
CloseTerminates == closer = "joining" ~> closer = "returned"

\* A Read that waits when the body is closed returns.
ReadUnblocked == closed /\ reader \in {"loop", "select"}
                   ~> reader \in {"idle", "finished"}

\* Neither side of a closed body waits for the other for ever.
CloseUnblocks == CloseTerminates /\ ReadUnblocked

-----------------------------------------------------------------------------
(* The inductive invariant behind Transparent and CommentsBetweenEvents    *)
(* (see GatewayProofs).                                                    *)

\* One read is under way from its demand to its result, and nothing of the
\* buffer is left to copy meanwhile.
StagesSound ==
    /\ fetcher \in {"reading", "sending"} => reading /\ reads = 0
    /\ reads = 1 => reading
    /\ reading => err = "nil" /\ (pending.from = "buffer" => Pending = <<>>)
    /\ reader = "select" => reading /\ Pending = <<>>
    /\ fetcher = "done" => closed
    /\ reader = "finished" /\ ~closed => err # "nil" /\ Pending = <<>>

\* What upstream sent is what was delivered, what is left of the buffer, and a
\* result that Read has not received; one that was dropped is missing.
BytesSound ==
    LET rest == IF fetcher = "sending" THEN SubSeq(buffer, 1, fetched.count)
                ELSE IF pending.from = "buffer" THEN Pending ELSE <<>>
        known == Delivered(out) \o rest
    IN  /\ Len(known) <= Len(sent)
        /\ known = SubSeq(sent, 1, Len(known))
        /\ fetcher # "done" => known = sent

\* What the three flags of a framing say of the bytes it has observed.
Framed(f, s) ==
    LET sig == Significant(s)
        rest == sig \ {Max(sig)}
    IN  /\ f.afterCR = (s # <<>> /\ s[Len(s)] = "cr")
        /\ f.lineData = (s # <<>> /\ s[Max(sig)] = "data")
        /\ f.boundary = \/ s = <<>>
                        \/ /\ s[Max(sig)] # "data"
                           /\ rest = {} \/ s[Max(rest)] # "data"

\* A comment takes framing from a boundary to a boundary.
CommentFraming ==
    <<NewFraming, [NewFraming EXCEPT !.boundary = FALSE, !.lineData = TRUE],
      [NewFraming EXCEPT !.boundary = FALSE], NewFraming>>

FramingSound ==
    IF pending.from = "buffer" THEN Framed(framing, Delivered(out))
    ELSE Framed(NewFraming, Delivered(out)) /\ framing = CommentFraming[pending.first]

\* The last byte delivered is that before the rest of a comment, or the end of
\* one, or upstream's.
CommentsSound ==
    IF pending.from = "comment" /\ pending.first > 1
    THEN out # <<>> /\ out[Len(out)].part = pending.first - 1
    ELSE out # <<>> => out[Len(out)].part \in {0, Len(Comment)}

KeepaliveInv ==
    /\ KeepaliveTypeOK /\ StagesSound /\ BytesSound /\ FramingSound /\ CommentsSound
    /\ CommentsBetweenEvents

=============================================================================
