------------------------------ MODULE SipMessage ------------------------------
(* How a SIP message is rewritten on its way: sipTUHelper.c, proxyHelper.c and   *)
(* the parts of the codec they stand on.  The headers of a message are a         *)
(* sequence of lines, each with a name and the values that stand on it; what is  *)
(* written behind the empty line that ends the headers is no header any more.    *)
EXTENDS Integers, Sequences, SequencesExt

CONSTANTS
    Via,        \* the names of headers that the properties tell apart
    Route,
    RecordRoute,
    Identity,   \* P-Asserted-Identity
    CallId,     \* stands for the headers every request has: From, To, Call-ID,
                \* CSeq and Max-Forwards
    Length,     \* Content-Length
    Fragment,   \* a stretch of text that is no header line
    None

ASSUME NamesDiffer ==
    /\ \A i, j \in 1..8 : i # j =>
          LET n == <<Via, Route, RecordRoute, Identity, CallId, Length, Fragment, None>>
          IN n[i] # n[j]

Names == {Via, Route, RecordRoute, Identity, CallId, Length}

Line(name, vals) == [name |-> name, vals |-> vals]

------------------------------------------------------------------------------
(* Reading: sipDecodeMsgRawHdr lists the lines of each name in their order.      *)

LinesOf(h, name)  == FlattenSeq([i \in DOMAIN h |-> IF h[i].name = name THEN <<h[i]>> ELSE <<>>])
Has(h, name)      == \E i \in DOMAIN h : h[i].name = name
FirstLine(h, name) ==
    CHOOSE i \in DOMAIN h : h[i].name = name /\ \A j \in 1..i - 1 : h[j].name # name

\* All values of one name, from top to bottom.
Values(h, name) ==
    LET lines == LinesOf(h, name)
    IN  FlattenSeq([i \in DOMAIN lines |-> lines[i].vals])

IsMultiAtOne(h, name) == Has(h, name)

\* sipMsg_isHdrMultiValue, of the first line only and of the whole message.
ManyOnTop(h, name) == Has(h, name) /\ Len(h[FirstLine(h, name)].vals) > 1
IsMulti(h, name) == Len(LinesOf(h, name)) > 1 \/ ManyOnTop(h, name)

LastOfFirstTwo(h, name) ==
    LET vals == Values(h, name) IN
    IF vals = <<>> THEN None ELSE IF Len(vals) = 1 THEN vals[1] ELSE vals[2]

\* The second value of a name, on the first line or on top of the second one.
SecondValue(h, name) ==
    IF ~IsMulti(h, name) THEN None
    ELSE IF ManyOnTop(h, name) THEN h[FirstLine(h, name)].vals[2]
    ELSE LinesOf(h, name)[2].vals[1]

\* A message that was cut in the middle is not read, and one without the headers
\* that every node looks at without asking whether they are there gets nowhere.
Readable(h) == ~Has(h, Fragment) /\ Has(h, CallId)

------------------------------------------------------------------------------
(* sipTU_sortModifyHdrList: the deletions and then the additions are put, one    *)
(* after the other, into a list sorted by the place they have in the message.    *)

Eof(h) == Len(h) + 1

PlaceToAdd(h, name) ==
    CASE Has(h, name)                     -> FirstLine(h, name)
      [] ~Has(h, name) /\ Has(h, Length)  -> FirstLine(h, Length)
      [] OTHER                            -> Eof(h)

\* "ends": the value to add has a line break of its own at its end.
Deletion(h, d) == [del |-> TRUE, top |-> d.top, name |-> d.name, val |-> None,
                   ends |-> FALSE, pos |-> FirstLine(h, d.name)]
Addition(h, a) == [del |-> FALSE, top |-> FALSE, name |-> a.name, val |-> a.val,
                   ends |-> a.ends, pos |-> PlaceToAdd(h, a.name)]

GoesBeforeUnlessSame(new, old) == new.pos < old.pos

\* sipTU_hdrModListSortHandler: does the new one go in front of the listed one?
GoesBefore(new, old) ==
    \/ new.pos < old.pos
    \/ ~new.del /\ new.name = old.name

\* osList_orderAppend.
Inserted(list, new) ==
    LET later == {i \in DOMAIN list : GoesBefore(new, list[i])} IN
    IF later = {} THEN Append(list, new)
    ELSE InsertAt(list, CHOOSE i \in later : \A j \in later : i <= j, new)

\* A header that the message does not have is not deleted.
WithDeletion(h, list, d) ==
    IF Has(h, d.name) THEN Inserted(list, Deletion(h, d)) ELSE list

ModifyList(h, dels, adds) ==
    LET n == Len(dels)
        list[i \in 0..n + Len(adds)] ==
            IF i = 0 THEN <<>>
            ELSE IF i <= n THEN WithDeletion(h, list[i - 1], dels[i])
            ELSE Inserted(list[i - 1], Addition(h, adds[i - n]))
    IN  list[n + Len(adds)]

------------------------------------------------------------------------------
(* sipTU_copyHdrs: the message is copied up to each change in turn.  "out" are    *)
(* the headers written, "from" is the first line not copied yet and "part" what  *)
(* is to be copied before it when the copy stands in the middle of a line;       *)
(* "ended" says that an empty line has been written.                             *)

\* What stays of a line when its first value is taken off.
WithoutFirst(vals) == Tail(vals)

\* What is written behind an empty line belongs to the body.
Written(c, lines) == IF c.ended THEN c.out ELSE c.out \o lines

CopiedTo(h, c, n) == Written(c, c.part \o SubSeq(h, c.from, n))

\* A whole line is skipped.  Of a line with several values the first one should
\* be skipped alone: the copy goes on from the value of the Via line, whatever
\* the name is, and so in the middle of it and with the lines after it again.
SkippedLine(h, c, x) ==
    LET rest    == WithoutFirst(h[x.pos].vals)
        skipped == [c EXCEPT !.out = CopiedTo(h, c, x.pos - 1),
                             !.from = x.pos + 1, !.part = <<>>] IN
    IF ~x.top \/ rest = <<>> THEN skipped
    ELSE IF x.name = Via THEN [skipped EXCEPT !.part = <<Line(Via, rest)>>]
    ELSE [skipped EXCEPT !.part = <<Line(Fragment, <<>>)>>, !.from = FirstLine(h, Via) + 1]

\* An addition is written where the copy stands, which is right behind the last
\* change and not at the place it was sorted by; one that has no place before the
\* end makes the copy run to the end of the message, and stands behind its body.
WrittenLine(h, c, x) ==
    IF x.pos < Eof(h)
    THEN [c EXCEPT !.out = Written(c, <<Line(x.name, <<x.val>>)>>), !.ended = @ \/ x.ends]
    ELSE [c EXCEPT !.out = CopiedTo(h, c, Len(h)), !.from = Eof(h), !.part = <<>>]

\* The headers h after deleting dels and adding adds.
Edited(h, dels, adds) ==
    LET list == ModifyList(h, dels, adds)
        copy[i \in 0..Len(list)] ==
            IF i = 0 THEN [out |-> <<>>, from |-> 1, part |-> <<>>, ended |-> FALSE]
            ELSE IF list[i].del THEN SkippedLine(h, copy[i - 1], list[i])
            ELSE WrittenLine(h, copy[i - 1], list[i])
    IN  CopiedTo(h, copy[Len(list)], Len(h))

------------------------------------------------------------------------------
(* Via and the way back: sipHdrVia.c.                                            *)

ViaOf(addr)          == [sentBy |-> addr, rport |-> FALSE, received |-> None]
ViaWithRport(addr)   == [sentBy |-> addr, rport |-> TRUE, received |-> None]

\* sipHdrVia_rspEncode: an empty rport on top is filled in with the address the
\* message came from; the other Via lines follow as they are.
ViasEncoded(h, peer) ==
    LET vias == LinesOf(h, Via)
        top  == vias[1].vals[1]
        marked == IF top.rport /\ top.received = None
                  THEN [top EXCEPT !.received = peer.ip] ELSE top
    IN  [vias EXCEPT ![1].vals[1] = marked]

PeerOfSentBy(via) == via.sentBy

\* sipHdrVia_getPeerTransport: the address of "received", the port of sent-by.
PeerOf(via) ==
    [ip |-> IF via.received = None THEN via.sentBy.ip ELSE via.received,
     port |-> via.sentBy.port]

------------------------------------------------------------------------------
(* Max-Forwards, 32 bits wide: sipTU_updateMaxForwards.                          *)

MaxU32 == 2147483647    \* stands for 2^32-1, which TLC cannot hold

\* One is taken off twice, and of a value of zero none: the error is overwritten.
Decremented(mf) ==
    CASE mf = 0 -> 0
      [] mf = 1 -> MaxU32
      [] OTHER  -> mf - 2

------------------------------------------------------------------------------
(* The messages a hop builds.                                                    *)

\* sipTU_b2bBuildRequest of a proxy: the own Via, all the Vias received, and the
\* headers with the top Via line taken out - of the received Vias the others are
\* there twice from now on.
Forwarded(h, dels, adds, own, peer) ==
    <<Line(Via, <<ViaOf(own)>>)>> \o ViasEncoded(h, peer)
        \o Edited(h, <<[name |-> Via, top |-> TRUE]>> \o dels, adds)

\* sipTU_buildProxyResponse: the answer without the top Via.
AnswerForwarded(h) == Edited(h, <<[name |-> Via, top |-> TRUE]>>, <<>>)

\* sipTU_buildUasResponse: From, To, Call-ID and CSeq as they were received.
AnswerStart(h) == LinesOf(h, CallId)

\* sipProxy_uasResponse: an answer of the hop's own.
OwnAnswer(h, peer) == AnswerStart(h) \o ViasEncoded(h, peer) \o <<Line(Length, <<0>>)>>

\* sipHdrVia_getPeerTransportFromRaw: where an answer goes, by the top Via or by
\* the second one.
PeerOfTop(h)    == PeerOf(Values(h, Via)[1])
PeerOfSecond(h) == PeerOf(SecondValue(h, Via))
===============================================================================
