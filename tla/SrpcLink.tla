------------------------------ MODULE SrpcLink ------------------------------
(***************************************************************************)
(* One direction of the link between two srpc ends: sproto's packets, cut  *)
(* into the chunks that data_write and data_read happen to move, and put   *)
(* together again by srpc_iterate, one packet in a call.                   *)
(*                                                                         *)
(* A packet is a begin tag, the rest of its header, its data and an end    *)
(* tag; the stream is a sequence of cells: two for a tag, one for the rest *)
(* of the header and one for each unit of data.  A device writes a packet  *)
(* when it is called and takes one when it has come                        *)
(* (SRPC_WITHOUT_IN_QUEUE, SRPC_WITHOUT_OUT_QUEUE); the server's build of  *)
(* the same code puts queues in between.                                   *)
(***************************************************************************)
EXTENDS Integers, Sequences

CONSTANTS
  DataSizes,    \* units of data the callers give
  LongestData,  \* SUPLA_MAX_DATA_SIZE
  ChunkSize,    \* SRPC_BUFFER_SIZE, the most that data_read brings
  BufferMax,    \* BUFFER_MAX_SIZE of the input buffer
  QueueSize,    \* SRPC_QUEUE_SIZE
  RrIds,        \* rr_id counts modulo this number (2^32)
  MostCalls,    \* bound: calls the sender makes
  MostFaults    \* bound: short writes and lost connections

HeaderSize == 3
TagCells == 2

ASSUME LinkAssumption ==
  /\ {ChunkSize, QueueSize} \subseteq Nat \ {0}
  /\ RrIds \in Nat /\ RrIds > 2
  /\ DataSizes \subseteq Nat /\ {LongestData, BufferMax, MostCalls, MostFaults} \subseteq Nat
  /\ HeaderSize + LongestData + TagCells < BufferMax

VARIABLES
  toDevice,   \* the direction: the server's build sends, or the device's
  newer,      \* what is sent has a version above SUPLA_PROTO_VERSION
  rrId,       \* next_rr_id
  outQueue,
  wire,       \* written and not read yet
  inBuffer, beginTag, inQueue,
  open,       \* srpc_iterate has not failed since the last connect
  called,     \* number of calls made
  sent,       \* the packets whose call returned a rr_id
  got,        \* the packets the other end took
  faults

linkVars == <<toDevice, newer, rrId, outQueue, wire, inBuffer, beginTag, inQueue, open,
              called, sent, got, faults>>
senderVars == <<rrId, outQueue, called, sent>>
receiverVars == <<inBuffer, beginTag, inQueue, got>>

\* A packet is whole when all of its data is its own.
Packet == [id : 1..MostCalls, rrId : 1..RrIds - 1, size : 0..LongestData, whole : BOOLEAN]

LinkTypeOK ==
  /\ {toDevice, newer, open, beginTag} \subseteq BOOLEAN
  /\ rrId \in 0..RrIds - 1 /\ called \in 0..MostCalls /\ faults \in 0..MostFaults
  /\ outQueue \in Seq(Packet) /\ Len(outQueue) <= QueueSize
  /\ inQueue \in Seq(Packet) /\ Len(inQueue) <= QueueSize
  /\ sent \in Seq(Packet) /\ got \in Seq(Packet)
  /\ Len(inBuffer) < BufferMax

LinkInit ==
  /\ toDevice \in BOOLEAN /\ newer \in BOOLEAN /\ rrId = RrIds - 2
  /\ outQueue = << >> /\ wire = << >>
  /\ inBuffer = << >> /\ beginTag = FALSE /\ inQueue = << >>
  /\ open = TRUE /\ called = 0 /\ sent = << >> /\ got = << >> /\ faults = 0

-----------------------------------------------------------------------------
(***************************************************************************)
(* The sender.                                                             *)
(***************************************************************************)
Tag == <<<<"S", 0>>, <<"U", 0>>>>
CellsOf(p) ==
  Tag \o <<<<"head", p>>>> \o [i \in 1..p.size |-> <<"data", p.id>>] \o Tag

\* sproto_sdp_init: the number of a packet is not 0, which says that a call failed.
NextRrId(r) == IF (r + 1) % RrIds = 0 THEN 1 ELSE (r + 1) % RrIds

\* data_write may take less than it is given; nobody looks at what it returns.
PutOnWire(cells) ==
  \/ wire' = wire \o cells /\ UNCHANGED faults
  \/ /\ faults < MostFaults /\ faults' = faults + 1
     /\ \E n \in 0..Len(cells) - 1 : wire' = wire \o SubSeq(cells, 1, n)

\* srpc_async__call refuses data that is too long and, with a queue, one packet too many.
\* The caller is told the packet's number, or 0.
AsyncCall(size) ==
  /\ open /\ called < MostCalls
  /\ called' = called + 1 /\ rrId' = NextRrId(rrId)
  /\ LET p == [id |-> called + 1, rrId |-> rrId', size |-> size, whole |-> TRUE]
         refused == size > LongestData \/ (toDevice /\ Len(outQueue) >= QueueSize)
     IN  /\ sent' = IF refused \/ rrId' = 0 THEN sent ELSE Append(sent, p)
         /\ outQueue' = IF toDevice /\ ~refused THEN Append(outQueue, p) ELSE outQueue
         /\ IF toDevice \/ refused THEN UNCHANGED <<wire, faults>> ELSE PutOnWire(CellsOf(p))
  /\ UNCHANGED <<toDevice, newer, receiverVars, open>>

\* The second half of srpc_iterate in a build with queues.  There SRPC_BUFFER_SIZE is above
\* the size of a packet, so the output buffer is empty again after each pass.
IterateOut ==
  /\ open /\ toDevice /\ outQueue # << >>
  /\ PutOnWire(CellsOf(Head(outQueue)))
  /\ outQueue' = Tail(outQueue)
  /\ UNCHANGED <<toDevice, newer, rrId, receiverVars, open, called, sent>>

-----------------------------------------------------------------------------
(***************************************************************************)
(* The receiver.                                                           *)
(***************************************************************************)
\* The packet of a header with what is behind it.
WithData(cells) ==
  LET p == cells[HeaderSize][2]
  IN  [p EXCEPT !.whole = \A i \in 1..p.size : cells[HeaderSize + i] = <<"data", p.id>>]

\* mutant: the end tag is not looked at
PoppedBlindly(cells, tagSeen) ==
  IF Len(cells) >= HeaderSize + TagCells /\ cells[HeaderSize][1] = "head" /\ ~newer
     /\ Len(cells) >= HeaderSize + cells[HeaderSize][2].size + TagCells
    THEN [result |-> "packet", packet |-> WithData(cells),
          size |-> HeaderSize + cells[HeaderSize][2].size + TagCells]
    ELSE [result |-> "wait", tag |-> tagSeen]

\* sproto_pop_in_sdp, on the bytes it has.
Popped(cells, tagSeen) ==
  LET tag == tagSeen \/ (Len(cells) >= TagCells /\ SubSeq(cells, 1, TagCells) = Tag)
      head == cells[HeaderSize]
      whole == HeaderSize + head[2].size + TagCells
  IN  CASE ~tag /\ Len(cells) < TagCells -> [result |-> "wait", tag |-> FALSE]
        [] ~tag /\ Len(cells) >= TagCells -> [result |-> "error"]
        [] tag /\ Len(cells) < HeaderSize + TagCells -> [result |-> "wait", tag |-> TRUE]
        [] tag /\ Len(cells) >= HeaderSize + TagCells ->
             CASE newer \/ head[1] # "head" -> [result |-> "error"]
               [] ~newer /\ head[1] = "head" /\ Len(cells) < whole ->
                    [result |-> "wait", tag |-> TRUE]
               [] OTHER ->
                    IF SubSeq(cells, whole - TagCells + 1, whole) = Tag
                      THEN [result |-> "packet", packet |-> WithData(cells), size |-> whole]
                      ELSE [result |-> "error"]

\* data_read brings n cells, and srpc_iterate fails when they do not fit and on an error.
ReadAndPop(n) ==
  /\ LET cells == inBuffer \o SubSeq(wire, 1, n)
         pop == Popped(cells, beginTag)
     IN  /\ wire' = SubSeq(wire, n + 1, Len(wire))
         /\ CASE n > 0 /\ Len(cells) >= BufferMax ->
                   open' = FALSE /\ UNCHANGED receiverVars
              [] (n = 0 \/ Len(cells) < BufferMax) /\ pop.result = "wait" ->
                   /\ inBuffer' = cells /\ beginTag' = pop.tag
                   /\ UNCHANGED <<open, inQueue, got>>
              [] (n = 0 \/ Len(cells) < BufferMax) /\ pop.result = "error" ->
                   /\ inBuffer' = << >> /\ beginTag' = FALSE /\ open' = FALSE
                   /\ UNCHANGED <<inQueue, got>>
              [] OTHER ->
                   /\ inBuffer' = SubSeq(cells, pop.size + 1, Len(cells)) /\ beginTag' = FALSE
                   /\ IF toDevice
                        THEN got' = Append(got, pop.packet) /\ UNCHANGED <<open, inQueue>>
                        ELSE IF Len(inQueue) < QueueSize
                          THEN inQueue' = Append(inQueue, pop.packet) /\ UNCHANGED <<open, got>>
                          ELSE open' = FALSE /\ UNCHANGED <<inQueue, got>>
  /\ UNCHANGED <<toDevice, newer, senderVars, faults>>

\* mutant: nothing is taken unless something came
IterateOnData(n) == open /\ n \in 1..Len(wire) /\ ReadAndPop(n)

\* data_read may bring nothing (then it returns -1); a packet that is complete is still taken.
IterateIn(n) ==
  open /\ n <= Len(wire) /\ n + Len(inBuffer) > 0 /\ ReadAndPop(n)

\* srpc_getdata in a build with an input queue, called without a rr_id.
GetData ==
  /\ inQueue # << >>
  /\ got' = Append(got, Head(inQueue)) /\ inQueue' = Tail(inQueue)
  /\ UNCHANGED <<toDevice, newer, senderVars, wire, inBuffer, beginTag, open, faults>>

\* The connection is lost and another one made.  A device goes on with the srpc it has, its
\* input buffer included; the server starts with a new one.
Reconnect ==
  /\ faults < MostFaults /\ faults' = faults + 1
  /\ open' = TRUE /\ wire' = << >> /\ outQueue' = << >>
  /\ IF toDevice THEN UNCHANGED <<inBuffer, beginTag, inQueue>>
       ELSE inBuffer' = << >> /\ beginTag' = FALSE /\ inQueue' = << >>
  /\ UNCHANGED <<toDevice, newer, rrId, called, sent, got>>

LinkNext ==
  \/ \E size \in DataSizes : AsyncCall(size)
  \/ IterateOut
  \/ \E n \in 0..ChunkSize : IterateIn(n)
  \/ GetData \/ Reconnect

\* Both ends call srpc_iterate again and again; what is written can be read.
LinkFairness ==
  /\ WF_linkVars(IterateOut) /\ WF_linkVars(GetData)
  /\ WF_linkVars(IterateIn(0))
  /\ WF_linkVars(\E n \in 1..ChunkSize : IterateIn(n))

LinkSpec == LinkInit /\ [][LinkNext]_linkVars /\ LinkFairness
-----------------------------------------------------------------------------
\* However the stream is cut, whatever short writes and lost connections took out of it, and
\* whatever the device's buffer still held: what is taken has the header of a packet that was
\* sent, in the order of the calls and once.  Without such a fault it is what was sent, whole,
\* and none is left out.  Nobody checks the data itself: after a short write a packet may be made
\* of two, but one fault does that only to a packet into which the header of another one fits.
TakenInOrder ==
  /\ \A i \in DOMAIN got : \E j \in DOMAIN sent : [got[i] EXCEPT !.whole = TRUE] = sent[j]
  /\ \A i, j \in DOMAIN got : i < j => got[i].id < got[j].id
  /\ \A i \in DOMAIN got : got[i].whole \/ faults > 1 \/ got[i].size >= HeaderSize
  /\ faults = 0 => got \o inQueue = SubSeq(sent, 1, Len(got \o inQueue))

\* And without one each packet is taken in the end, although a call of srpc_iterate takes only one:
\* nothing but a too long burst, or a version that is too new, closes the link.
EachIsTaken ==
  <>[](faults = 0 /\ open /\ ~newer) => <>[](got = sent)
=============================================================================
