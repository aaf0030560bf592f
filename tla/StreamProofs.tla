----------------------------- MODULE StreamProofs -----------------------------
(***************************************************************************)
(* Proofs about StreamAdapter, for any number of items, parts, pieces and  *)
(* items in progress at once.                                              *)
(***************************************************************************)
EXTENDS StreamAdapter, SortedSeqsProofs

-----------------------------------------------------------------------------
\* The upstream's items and the adapter's fields.

\* What an item of each kind can be.
KindOK(it) ==
  /\ it.kind = "message" =>
       /\ Len(it.pieces) <= MaxParts /\ it.stage \in {"live", "part", "done"}
       /\ it.stage = "part" => it.pieces # <<>>
  /\ it.kind = "function_call" => Len(it.pieces) = 1 /\ it.stage \in {"live", "said", "done"}
  /\ it.kind = "reasoning" => it.pieces = <<>> /\ it.stage \in {"live", "done"}

ItemsOK(its) ==
  its \in Seq(Item) /\ Len(its) <= MaxItems /\ \A i \in DOMAIN its : KindOK(its[i])

\* The parts said so far, the index the adapter gave a part, and whether it may still grow.
Slots(its) == UNION {{<<i, p>> : p \in DOMAIN its[i].pieces} : i \in DOMAIN its}
Index(its, a, s) ==
  IF its[s[1]].kind = "message" THEN a.text[<<s[1] - 1, s[2] - 1>>] ELSE a.tool[s[1] - 1]
Growing(its, s) ==
  IF its[s[1]].kind = "message" THEN its[s[1]].stage = "part" /\ s[2] = Len(its[s[1]].pieces)
  ELSE its[s[1]].stage = "live"

\* The adapter has an index for the parts said so far and for no other.
Known(its, a) ==
  /\ \A i \in 1..MaxItems, p \in 1..MaxParts :
       a.text[<<i - 1, p - 1>>] # None
         <=> i \in DOMAIN its /\ its[i].kind = "message" /\ p <= Len(its[i].pieces)
  /\ \A i \in 1..MaxItems :
       a.tool[i - 1] # None <=> i \in DOMAIN its /\ its[i].kind = "function_call"

\* Indices are given one by one and once; in the order of the response, if its items come
\* one after another.
Placed(its, a, n) ==
  /\ \A s \in Slots(its) : Index(its, a, s) \in 0..(a.next - 1)
  /\ \A s, t \in Slots(its) : Index(its, a, s) = Index(its, a, t) => s = t
  /\ \A j \in 0..(a.next - 1) : \E s \in Slots(its) : Index(its, a, s) = j
  /\ n = 1 => \A s, t \in Slots(its) : Precedes(s, t) => Index(its, a, s) < Index(its, a, t)

Busy(its) == {i \in DOMAIN its : its[i].stage # "done"}
InTurn(its, n) ==
  Cardinality(Busy(its)) <= n /\ (n = 1 => \A i \in Busy(its) : i = Len(its))

\* Blocks that may still grow are open; arguments were sent as deltas if any were said;
\* and the message is begun with its first block.
Tracks(its, a) ==
  /\ a.open \subseteq 0..(a.next - 1)
  /\ a.terminal = "none" => \A s \in Slots(its) : Index(its, a, s) \in a.open <=> Growing(its, s)
  /\ \A i \in DOMAIN its : its[i].kind = "function_call" /\ its[i].stage = "live" =>
       (i - 1 \in a.sent <=> its[i].pieces[1] > 0)
  /\ \A o \in a.sent : o + 1 \in DOMAIN its
  /\ a.sawToolUse <=> \E i \in DOMAIN its : its[i].kind = "function_call"
  /\ ~a.started => a.next = 0
  /\ a.terminal = "success" => a.open = {}

Matches(its, a, n) ==
  /\ ItemsOK(its) /\ a \in AdapterState /\ Known(its, a) /\ Placed(its, a, n)
  /\ InTurn(its, n) /\ Tracks(its, a)

-----------------------------------------------------------------------------
\* The client.

OpenOf(c) == {k \in DOMAIN c.blocks : c.blocks[k].open}

Texts == {<<>>} \union {PiecesOf(o, p, n) : o \in Outputs, p \in Parts, n \in 1..MaxPieces}
         \union {<<t>> : t \in Piece}

FrameTypes ==
  {"message_start", "content_block_start", "content_block_delta", "content_block_stop",
   "message_delta", "message_stop", "error"}
Frames == [type : FrameTypes, index : Nat \union {None},
           what : Texts \union {"text", "tool_use"} \union Endings]

\* A frame the event order allows a client in state c.
Acceptable(c, f, n) ==
     \/ f.type = "message_start" /\ c.phase = "new"
     \/ /\ f.type = "content_block_start" /\ c.phase = "started"
        /\ f.index = Len(c.blocks) /\ f.what \in {"text", "tool_use"} /\ Cardinality(OpenOf(c)) < n
     \/ f.type = "content_block_delta" /\ c.phase = "started" /\ f.index + 1 \in OpenOf(c) /\ f.what \in Texts
     \/ f.type = "content_block_stop" /\ c.phase = "started" /\ f.index + 1 \in OpenOf(c)
     \/ f.type = "message_delta" /\ c.phase = "started" /\ OpenOf(c) = {} /\ f.what \in Endings
     \/ f.type = "message_stop" /\ c.phase = "told"
     \/ f.type = "error" /\ c.phase \in {"new", "started"}

\* A client that reads the frames s, each acceptable when it comes, goes from c to d.
Reads(c, s, d, n) ==
  /\ s \in Seq(Frames)
  /\ \E r \in [0..Len(s) -> ClientState] :
       /\ r[0] = c /\ r[Len(s)] = d
       /\ \A k \in 1..Len(s) : Acceptable(r[k - 1], s[k], n) /\ r[k] = Understand(r[k - 1], s[k])

\* A client that has read all the adapter said.
Block(its, s) ==
  [kind |-> IF its[s[1]].kind = "message" THEN "text" ELSE "tool_use",
   text |-> PiecesOf(s[1] - 1, s[2] - 1, its[s[1]].pieces[s[2]])]

Follows(its, a, d, v) ==
  /\ d \in ClientState /\ Len(d.blocks) = a.next
  /\ a.terminal = "none" => d.phase = (IF a.started THEN "started" ELSE "new")
  /\ a.terminal = "success" => d.phase = "done" /\ d.ending = <<StopReason(v, a.sawToolUse), a.usage>>
  /\ a.terminal = "error" => d.phase = "failed"
  /\ OpenOf(d) = {j + 1 : j \in a.open}
  /\ \A s \in Slots(its) :
       LET b == d.blocks[Index(its, a, s) + 1] IN b.kind = Block(its, s).kind /\ b.text = Block(its, s).text

-----------------------------------------------------------------------------
\* The whole.

Verdicts ==
  /\ verdict \in Verdict \union {"none"} /\ reported \subseteq {"created", "final"}
  /\ gen \in {"reading", "ending", "ended", "gone"}
  /\ ad.terminal = "success" => verdict \in Succeeding
  /\ ad.terminal = "error" => verdict \notin Succeeding
  /\ gen = "reading" => (ad.terminal = "none" <=> verdict = "none")
  /\ gen \in {"ending", "ended"} => ad.terminal # "none"
  /\ "final" \in reported => verdict \in Succeeding /\ (ad.terminal = "success" => ad.usage = "final")

\* What the client has is never ahead of the adapter, and once it is done it is all.
ClientInv ==
  /\ client \in ClientState /\ client.phase # "confused"
  /\ client.phase \in {"told", "done"} => ad.terminal = "success"
  /\ client.phase = "failed" => ad.terminal = "error"
  /\ client.phase = "done" => Follows(items, ad, client, verdict)
  /\ gen = "gone" => outbox = <<>>

OutboxInv == gen # "gone" => \E d : Reads(client, outbox, d, lanes) /\ Follows(items, ad, d, verdict)

StreamInv ==
  /\ lanes \in 1..MaxLanes
  /\ Matches(items, ad, lanes) /\ Verdicts /\ ClientInv /\ OutboxInv

-----------------------------------------------------------------------------
\* Reading.

LEMMA SeqFacts ==
  ASSUME NEW S, NEW s \in Seq(S), s # <<>>
  PROVE  /\ Len(s) \in Nat /\ Len(s) >= 1 /\ Head(s) = s[1] /\ Head(s) \in S
         /\ Tail(s) \in Seq(S) /\ Len(Tail(s)) = Len(s) - 1
         /\ \A i \in 1..(Len(s) - 1) : Tail(s)[i] = s[i + 1]
OBVIOUS

LEMMA SeqElement ==
  ASSUME NEW S, NEW s \in Seq(S), NEW k \in DOMAIN s
  PROVE  s[k] \in S
OBVIOUS

LEMMA ReadsType ==
  ASSUME NEW c, NEW s, NEW d, NEW n, Reads(c, s, d, n)
  PROVE  c \in ClientState /\ d \in ClientState /\ s \in Seq(Frames)
BY DEF Reads

LEMMA ReadsNone ==
  ASSUME NEW c \in ClientState, NEW n
  PROVE  Reads(c, <<>>, c, n)
<1>1. <<>> \in Seq(Frames) /\ Len(<<>>) = 0
  OBVIOUS
<1> DEFINE r == [k \in 0..0 |-> c]
<1>2. r \in [0..Len(<<>>) -> ClientState] /\ r[0] = c /\ r[Len(<<>>)] = c
  BY <1>1
<1>3. \A k \in 1..Len(<<>>) : Acceptable(r[k - 1], <<>>[k], n) /\ r[k] = Understand(r[k - 1], <<>>[k])
  BY <1>1
<1> HIDE DEF r
<1> QED BY <1>1, <1>2, <1>3 DEF Reads

LEMMA NothingRead ==
  ASSUME NEW c, NEW d, NEW n, Reads(c, <<>>, d, n)
  PROVE  d = c
BY DEF Reads

Blocks == [kind : {"text", "tool_use"}, text : Seq(Piece), open : BOOLEAN]

LEMMA ClientFacts ==
  ASSUME NEW c \in ClientState
  PROVE  /\ c.blocks \in Seq(Blocks) /\ Len(c.blocks) \in Nat /\ DOMAIN c.blocks = 1..Len(c.blocks)
         /\ \A k \in DOMAIN c.blocks :
              /\ c.blocks[k] \in Blocks /\ c.blocks[k].kind \in {"text", "tool_use"}
              /\ c.blocks[k].text \in Seq(Piece) /\ c.blocks[k].open \in BOOLEAN
         /\ c.ending \in Endings \union {"none"}
         /\ c.phase \in {"new", "started", "told", "done", "failed", "confused"}
<1>1. /\ c.blocks \in Seq(Blocks) /\ c.ending \in Endings \union {"none"}
      /\ c.phase \in {"new", "started", "told", "done", "failed", "confused"}
  BY DEF ClientState, Blocks
<1>2. \A b \in Blocks : b.kind \in {"text", "tool_use"} /\ b.text \in Seq(Piece) /\ b.open \in BOOLEAN
  BY DEF Blocks
<1>3. \A k \in 1..Len(c.blocks) : c.blocks[k] \in Blocks
  BY <1>1
<1>4. Len(c.blocks) \in Nat /\ DOMAIN c.blocks = 1..Len(c.blocks)
  BY <1>1
<1> QED BY <1>1, <1>2, <1>3, <1>4

LEMMA PieceSeqs ==
  /\ Texts \subseteq Seq(Piece)
  /\ \A o \in Outputs, p \in Parts : PiecesOf(o, p, 0) = <<>>
  /\ \A o \in Outputs, p \in Parts, k \in 0..(MaxPieces - 1) :
       PiecesOf(o, p, k + 1) = PiecesOf(o, p, k) \o <<<<o, p, k + 1>>>>
  /\ \A o \in Outputs, p \in Parts, k \in 0..MaxPieces : PiecesOf(o, p, k) \in Texts
<1>0. MaxPieces \in Nat \ {0} /\ MaxItems \in Nat \ {0} /\ MaxParts \in Nat \ {0}
  BY AdapterAssumption
<1>1. ASSUME NEW o \in Outputs, NEW p \in Parts, NEW n \in 0..MaxPieces
      PROVE  PiecesOf(o, p, n) \in Seq(Piece)
  <2>1. \A k \in 1..n : <<o, p, k>> \in Piece
    BY <1>0 DEF Piece
  <2>2. n \in Nat
    OBVIOUS
  <2> QED BY <2>1, <2>2 DEF PiecesOf
<1>2. ASSUME NEW t \in Piece PROVE <<t>> \in Seq(Piece)
  OBVIOUS
<1>3. <<>> \in Seq(Piece)
  OBVIOUS
<1>4. Texts \subseteq Seq(Piece)
  <2>1. \A n \in 1..MaxPieces : n \in 0..MaxPieces
    BY <1>0
  <2> SUFFICES ASSUME NEW x \in Texts PROVE x \in Seq(Piece)
    OBVIOUS
  <2>2. CASE x = <<>>
    BY <2>2, <1>3
  <2>3. CASE \E o \in Outputs, p \in Parts, n \in 1..MaxPieces : x = PiecesOf(o, p, n)
    BY <2>3, <2>1, <1>1
  <2>4. CASE \E e \in Piece : x = <<e>>
    BY <2>4, <1>2
  <2> QED BY <2>2, <2>3, <2>4 DEF Texts
<1>5. \A o \in Outputs, p \in Parts : PiecesOf(o, p, 0) = <<>>
  BY DEF PiecesOf
<1>6. ASSUME NEW o \in Outputs, NEW p \in Parts, NEW k \in 0..(MaxPieces - 1)
      PROVE  PiecesOf(o, p, k + 1) = PiecesOf(o, p, k) \o <<<<o, p, k + 1>>>>
  <2> DEFINE a == PiecesOf(o, p, k)
             e == <<o, p, k + 1>>
             b == PiecesOf(o, p, k + 1)
  <2>1. k \in Nat /\ k \in 0..MaxPieces /\ k + 1 \in 0..MaxPieces /\ k + 1 \in 1..MaxPieces
    BY <1>0
  <2>2. a \in Seq(Piece) /\ b \in Seq(Piece) /\ e \in Piece
    BY <2>1, <1>1 DEF Piece
  <2>3. /\ Len(a) = k /\ \A i \in 1..k : a[i] = <<o, p, i>>
        /\ Len(b) = k + 1 /\ \A i \in 1..(k + 1) : b[i] = <<o, p, i>>
    BY <2>1 DEF PiecesOf
  <2> HIDE DEF a, b
  <2>4. /\ a \o <<e>> \in Seq(Piece) /\ Len(a \o <<e>>) = k + 1
        /\ \A i \in 1..k : (a \o <<e>>)[i] = a[i]
        /\ (a \o <<e>>)[k + 1] = e
    <3> HIDE DEF e
    <3> QED BY <2>1, <2>2, <2>3
  <2> DEFINE ae == a \o <<e>>
  <2> HIDE DEF ae
  <2>5. \A i \in 1..(k + 1) : ae[i] = b[i]
    <3> TAKE i \in 1..(k + 1)
    <3>1. i \in 1..k \/ i = k + 1
      BY <2>1
    <3> QED BY <3>1, <2>3, <2>4 DEF ae
  <2>6. ae \in Seq(Piece) /\ Len(ae) = Len(b)
    BY <2>3, <2>4 DEF ae
  <2>7. ae = b
    BY <2>2, <2>3, <2>5, <2>6
  <2> QED BY <2>7 DEF ae, a, b
<1>7. ASSUME NEW o \in Outputs, NEW p \in Parts, NEW k \in 0..MaxPieces PROVE PiecesOf(o, p, k) \in Texts
  <2>1. CASE k = 0
    BY <2>1, <1>5 DEF Texts
  <2>2. CASE k # 0
    <3>1. k \in 1..MaxPieces
      BY <2>2
    <3> QED BY <3>1 DEF Texts
  <2> QED BY <2>1, <2>2
<1> QED BY <1>4, <1>5, <1>6, <1>7

\* What each frame makes of the client.
LEMMA HearStart ==
  ASSUME NEW c \in ClientState, NEW f, f.type = "message_start", c.phase = "new"
  PROVE  /\ Understand(c, f) = [c EXCEPT !.phase = "started"]
         /\ Understand(c, f) \in ClientState /\ Understand(c, f).phase = "started"
<1>1. Understand(c, f) = [c EXCEPT !.phase = "started"]
  BY DEF Understand
<1> QED BY <1>1 DEF ClientState

LEMMA HearBlockStart ==
  ASSUME NEW c \in ClientState, NEW f \in Frames, f.type = "content_block_start", c.phase = "started",
         f.index = Len(c.blocks), f.what \in {"text", "tool_use"}
  PROVE  /\ Understand(c, f) =
              [c EXCEPT !.blocks = Append(c.blocks, [kind |-> f.what, text |-> <<>>, open |-> TRUE])]
         /\ Understand(c, f) \in ClientState /\ Understand(c, f).phase = "started"
<1>1. Understand(c, f) =
              [c EXCEPT !.blocks = Append(c.blocks, [kind |-> f.what, text |-> <<>>, open |-> TRUE])]
  BY ClientFacts DEF Understand
<1>2. [kind |-> f.what, text |-> <<>>, open |-> TRUE] \in Blocks
  <2>1. <<>> \in Seq(Piece)
    OBVIOUS
  <2> QED BY <2>1 DEF Blocks
<1>3. Append(c.blocks, [kind |-> f.what, text |-> <<>>, open |-> TRUE]) \in Seq(Blocks)
  BY <1>2, ClientFacts
<1> QED BY <1>1, <1>3 DEF ClientState, Blocks

LEMMA HearDelta ==
  ASSUME NEW c \in ClientState, NEW f \in Frames, f.type = "content_block_delta", c.phase = "started",
         NEW k \in OpenOf(c), f.index + 1 = k, f.what \in Texts
  PROVE  /\ Understand(c, f) = [c EXCEPT !.blocks[k].text = @ \o f.what]
         /\ Understand(c, f) \in ClientState /\ Understand(c, f).phase = "started"
<1>1. Understand(c, f) = [c EXCEPT !.blocks[k].text = @ \o f.what]
  BY ClientFacts DEF Understand, OpenOf
<1>2. c.blocks[k].text \o f.what \in Seq(Piece) /\ k \in DOMAIN c.blocks
  BY ClientFacts, PieceSeqs DEF OpenOf
<1>3. [c.blocks[k] EXCEPT !.text = @ \o f.what] \in Blocks
  <2>1. c.blocks[k] \in Blocks
    BY <1>2, ClientFacts
  <2>2. \A b \in Blocks, x \in Seq(Piece) : [b EXCEPT !.text = x] \in Blocks
    BY DEF Blocks
  <2> QED BY <1>2, <2>1, <2>2
<1>4. [c.blocks EXCEPT ![k].text = @ \o f.what] \in Seq(Blocks)
  BY <1>2, <1>3, ClientFacts
<1> QED BY <1>1, <1>4 DEF ClientState, Blocks

BlockStopped(c, k) == [c EXCEPT !.blocks[k].open = FALSE]

LEMMA HearStop ==
  ASSUME NEW c \in ClientState, NEW f \in Frames, f.type = "content_block_stop", c.phase = "started",
         NEW k \in OpenOf(c), f.index + 1 = k
  PROVE  /\ Understand(c, f) = BlockStopped(c, k)
         /\ Understand(c, f) \in ClientState /\ Understand(c, f).phase = "started"
<1>1. Understand(c, f) = [c EXCEPT !.blocks[k].open = FALSE]
  BY ClientFacts DEF Understand, OpenOf
<1>2. k \in DOMAIN c.blocks
  BY DEF OpenOf
<1>3. [c.blocks[k] EXCEPT !.open = FALSE] \in Blocks
  BY <1>2, ClientFacts DEF Blocks
<1>4. [c.blocks EXCEPT ![k].open = FALSE] \in Seq(Blocks)
  BY <1>2, <1>3, ClientFacts
<1> QED BY <1>1, <1>4 DEF BlockStopped, ClientState, Blocks

LEMMA HearEnd ==
  ASSUME NEW c \in ClientState, NEW f \in Frames
  PROVE  /\ f.type = "message_delta" /\ c.phase = "started" /\ f.what \in Endings =>
              /\ Understand(c, f) = [c EXCEPT !.phase = "told", !.ending = f.what]
              /\ Understand(c, f) \in ClientState /\ Understand(c, f).phase = "told"
         /\ f.type = "message_stop" /\ c.phase = "told" =>
              /\ Understand(c, f) = [c EXCEPT !.phase = "done"]
              /\ Understand(c, f) \in ClientState /\ Understand(c, f).phase = "done"
         /\ f.type = "error" /\ c.phase \in {"new", "started"} =>
              /\ Understand(c, f) = [c EXCEPT !.phase = "failed"]
              /\ Understand(c, f) \in ClientState /\ Understand(c, f).phase = "failed"
<1>1. /\ f.type = "message_delta" /\ c.phase = "started" =>
           Understand(c, f) = [c EXCEPT !.phase = "told", !.ending = f.what]
      /\ f.type = "message_stop" /\ c.phase = "told" => Understand(c, f) = [c EXCEPT !.phase = "done"]
      /\ f.type = "error" /\ c.phase \in {"new", "started"} =>
           Understand(c, f) = [c EXCEPT !.phase = "failed"]
  BY DEF Understand
<1>2. f.what \in Endings =>
        /\ [c EXCEPT !.phase = "told", !.ending = f.what] \in ClientState
        /\ [c EXCEPT !.phase = "told", !.ending = f.what].phase = "told"
  BY DEF ClientState
<1>3. /\ [c EXCEPT !.phase = "done"] \in ClientState /\ [c EXCEPT !.phase = "failed"] \in ClientState
      /\ [c EXCEPT !.phase = "done"].phase = "done" /\ [c EXCEPT !.phase = "failed"].phase = "failed"
  BY DEF ClientState
<1> QED BY <1>1, <1>2, <1>3

\* An acceptable frame is understood.
LEMMA UnderstandType ==
  ASSUME NEW c \in ClientState, NEW f \in Frames, NEW n, Acceptable(c, f, n)
  PROVE  Understand(c, f) \in ClientState /\ Understand(c, f).phase # "confused"
<1>1. CASE f.type = "message_start" /\ c.phase = "new"
  BY <1>1, HearStart
<1>2. CASE /\ f.type = "content_block_start" /\ c.phase = "started"
           /\ f.index = Len(c.blocks) /\ f.what \in {"text", "tool_use"}
  BY <1>2, HearBlockStart
<1>3. CASE f.type = "content_block_delta" /\ c.phase = "started" /\ f.index + 1 \in OpenOf(c) /\ f.what \in Texts
  <2>1. PICK k \in OpenOf(c) : f.index + 1 = k
    BY <1>3
  <2>2. Understand(c, f) \in ClientState /\ Understand(c, f).phase = "started"
    BY <1>3, <2>1, HearDelta
  <2> QED BY <2>2
<1>4. CASE f.type = "content_block_stop" /\ c.phase = "started" /\ f.index + 1 \in OpenOf(c)
  <2>1. PICK k \in OpenOf(c) : f.index + 1 = k
    BY <1>4
  <2>2. Understand(c, f) \in ClientState /\ Understand(c, f).phase = "started"
    BY <1>4, <2>1, HearStop
  <2> QED BY <2>2
<1>5. CASE \/ f.type = "message_delta" /\ c.phase = "started" /\ f.what \in Endings
           \/ f.type = "message_stop" /\ c.phase = "told"
           \/ f.type = "error" /\ c.phase \in {"new", "started"}
  BY <1>5, HearEnd
<1> QED BY <1>1, <1>2, <1>3, <1>4, <1>5 DEF Acceptable

LEMMA ReadsOne ==
  ASSUME NEW c \in ClientState, NEW f \in Frames, NEW n, Acceptable(c, f, n)
  PROVE  Reads(c, <<f>>, Understand(c, f), n)
<1> DEFINE u == Understand(c, f)
           r == [k \in 0..1 |-> IF k = 0 THEN c ELSE u]
<1>1. <<f>> \in Seq(Frames) /\ Len(<<f>>) = 1 /\ <<f>>[1] = f
  OBVIOUS
<1>2. u \in ClientState
  BY UnderstandType
<1> HIDE DEF u
<1>3. r \in [0..Len(<<f>>) -> ClientState] /\ r[0] = c /\ r[1] = u
  BY <1>1, <1>2
<1> HIDE DEF r
<1>4. \A k \in 1..Len(<<f>>) : k = 1
  BY <1>1
<1>5. \A k \in 1..Len(<<f>>) : Acceptable(r[k - 1], <<f>>[k], n) /\ r[k] = Understand(r[k - 1], <<f>>[k])
  BY <1>1, <1>3, <1>4 DEF u
<1>6. Reads(c, <<f>>, u, n)
  BY <1>1, <1>3, <1>5 DEF Reads
<1> QED BY <1>6 DEF u

LEMMA ReadsConcat ==
  ASSUME NEW c, NEW s, NEW d, NEW t, NEW e, NEW n, Reads(c, s, d, n), Reads(d, t, e, n)
  PROVE  Reads(c, s \o t, e, n)
<1>1. s \in Seq(Frames) /\ t \in Seq(Frames)
  BY DEF Reads
<1>2. PICK q \in [0..Len(s) -> ClientState] :
        /\ q[0] = c /\ q[Len(s)] = d
        /\ \A k \in 1..Len(s) : Acceptable(q[k - 1], s[k], n) /\ q[k] = Understand(q[k - 1], s[k])
  BY DEF Reads
<1>3. PICK r \in [0..Len(t) -> ClientState] :
        /\ r[0] = d /\ r[Len(t)] = e
        /\ \A k \in 1..Len(t) : Acceptable(r[k - 1], t[k], n) /\ r[k] = Understand(r[k - 1], t[k])
  BY DEF Reads
<1> DEFINE x == s \o t
           z == [k \in 0..(Len(s) + Len(t)) |-> IF k <= Len(s) THEN q[k] ELSE r[k - Len(s)]]
<1>4. /\ x \in Seq(Frames) /\ Len(x) = Len(s) + Len(t) /\ Len(s) \in Nat /\ Len(t) \in Nat
      /\ \A k \in 1..Len(s) : x[k] = s[k]
      /\ \A k \in 1..Len(t) : x[k + Len(s)] = t[k]
  BY <1>1
<1>5. /\ \A k \in 0..Len(s) : z[k] = q[k]
      /\ \A k \in 0..Len(t) : z[k + Len(s)] = r[k]
  <2>1. \A k \in 0..Len(s) : z[k] = q[k]
    BY <1>4
  <2>2. \A k \in 1..Len(t) : z[k + Len(s)] = r[k]
    <3> TAKE k \in 1..Len(t)
    <3>1. k + Len(s) \in 0..(Len(s) + Len(t)) /\ ~(k + Len(s) <= Len(s)) /\ (k + Len(s)) - Len(s) = k
      BY <1>4
    <3> QED BY <3>1
  <2>3. z[0 + Len(s)] = q[Len(s)] /\ 0 + Len(s) = Len(s)
    BY <1>4, <2>1
  <2> HIDE DEF z
  <2> QED BY <2>1, <2>2, <2>3, <1>2, <1>3
<1>6. z \in [0..Len(x) -> ClientState]
  <2>1. \A k \in 0..(Len(s) + Len(t)) : z[k] \in ClientState
    <3> TAKE k \in 0..(Len(s) + Len(t))
    <3>1. CASE k <= Len(s)
      BY <3>1, <1>2, <1>4
    <3>2. CASE k > Len(s)
      <4>1. k - Len(s) \in 0..Len(t) /\ ~(k <= Len(s))
        BY <3>2, <1>4
      <4>2. z[k] = r[k - Len(s)]
        BY <4>1
      <4>3. r[k - Len(s)] \in ClientState
        BY <4>1, <1>3
      <4> HIDE DEF z
      <4> QED BY <4>2, <4>3
    <3> QED BY <3>1, <3>2, <1>4
  <2> QED BY <2>1, <1>4
<1> HIDE DEF z, x
<1>7. z[0] = c /\ z[Len(x)] = e
  <2>1. 0 \in 0..Len(s) /\ Len(t) \in 0..Len(t) /\ Len(x) = Len(t) + Len(s)
    BY <1>4
  <2> QED BY <2>1, <1>2, <1>3, <1>5
<1>8. ASSUME NEW k \in 1..Len(x) PROVE Acceptable(z[k - 1], x[k], n) /\ z[k] = Understand(z[k - 1], x[k])
  <2>1. CASE k <= Len(s)
    <3>1. k \in 1..Len(s) /\ k \in 0..Len(s) /\ k - 1 \in 0..Len(s)
      BY <2>1, <1>4
    <3> QED BY <3>1, <1>2, <1>4, <1>5
  <2>2. CASE k > Len(s)
    <3> DEFINE j == k - Len(s)
    <3>1. j \in 1..Len(t) /\ j \in 0..Len(t) /\ j - 1 \in 0..Len(t) /\ j + Len(s) = k /\ (j - 1) + Len(s) = k - 1
      BY <2>2, <1>4
    <3> HIDE DEF j
    <3>2. z[k - 1] = r[j - 1] /\ z[k] = r[j] /\ x[k] = t[j]
      BY <3>1, <1>4, <1>5
    <3> QED BY <3>1, <3>2, <1>3
  <2> QED BY <2>1, <2>2, <1>4
<1>9. Reads(c, x, e, n)
  BY <1>4, <1>6, <1>7, <1>8 DEF Reads
<1> QED BY <1>9 DEF x

LEMMA ReadsFirst ==
  ASSUME NEW c, NEW s, NEW d, NEW n, Reads(c, s, d, n), s # <<>>
  PROVE  /\ Head(s) \in Frames /\ Acceptable(c, Head(s), n)
         /\ Reads(Understand(c, Head(s)), Tail(s), d, n)
<1>1. s \in Seq(Frames)
  BY DEF Reads
<1>2. PICK q \in [0..Len(s) -> ClientState] :
        /\ q[0] = c /\ q[Len(s)] = d
        /\ \A k \in 1..Len(s) : Acceptable(q[k - 1], s[k], n) /\ q[k] = Understand(q[k - 1], s[k])
  BY DEF Reads
<1>3. /\ Len(s) \in Nat /\ Len(s) >= 1 /\ Head(s) = s[1] /\ Head(s) \in Frames
      /\ Tail(s) \in Seq(Frames) /\ Len(Tail(s)) = Len(s) - 1
      /\ \A i \in 1..(Len(s) - 1) : Tail(s)[i] = s[i + 1]
  BY <1>1, SeqFacts
<1> DEFINE t == Tail(s)
           z == [k \in 0..(Len(s) - 1) |-> q[k + 1]]
<1>4. 1 \in 1..Len(s) /\ 1 - 1 = 0
  BY <1>3
<1>5. Acceptable(c, Head(s), n) /\ q[1] = Understand(c, Head(s))
  BY <1>2, <1>3, <1>4
<1>6. z \in [0..Len(t) -> ClientState] /\ \A k \in 0..Len(t) : z[k] = q[k + 1]
  BY <1>2, <1>3
<1> HIDE DEF z, t
<1>7. z[0] = Understand(c, Head(s)) /\ z[Len(t)] = d
  <2>1. 0 \in 0..Len(t) /\ 0 + 1 = 1 /\ Len(t) \in 0..Len(t) /\ Len(t) + 1 = Len(s)
    BY <1>3 DEF t
  <2> QED BY <2>1, <1>2, <1>5, <1>6
<1>8. ASSUME NEW k \in 1..Len(t) PROVE Acceptable(z[k - 1], t[k], n) /\ z[k] = Understand(z[k - 1], t[k])
  <2>1. /\ k \in 0..Len(t) /\ k - 1 \in 0..Len(t) /\ (k - 1) + 1 = k /\ k + 1 \in 1..Len(s)
        /\ (k + 1) - 1 = k /\ k \in 1..(Len(s) - 1)
    BY <1>3 DEF t
  <2>2. z[k - 1] = q[k] /\ z[k] = q[k + 1] /\ t[k] = s[k + 1]
    BY <2>1, <1>3, <1>6 DEF t
  <2> QED BY <2>1, <2>2, <1>2
<1>9. Reads(Understand(c, Head(s)), t, d, n)
  BY <1>3, <1>6, <1>7, <1>8 DEF Reads, t
<1> QED BY <1>3, <1>5, <1>9 DEF t

-----------------------------------------------------------------------------
\* Reading what the adapter says.

LEMMA OpenFacts ==
  ASSUME NEW c \in ClientState
  PROVE  /\ OpenOf(c) \subseteq 1..Len(c.blocks) /\ IsFiniteSet(OpenOf(c))
         /\ Cardinality(OpenOf(c)) \in Nat
<1>1. OpenOf(c) \subseteq 1..Len(c.blocks) /\ Len(c.blocks) \in Nat
  BY ClientFacts DEF OpenOf
<1>2. IsFiniteSet(1..Len(c.blocks))
  BY <1>1, FS_Interval
<1> QED BY <1>1, <1>2, FS_Subset, FS_CardinalityType

LEMMA ReadsStartMessage ==
  ASSUME NEW c \in ClientState, NEW a, NEW n, a.started \in BOOLEAN,
         c.phase = (IF a.started THEN "started" ELSE "new")
  PROVE  \E d \in ClientState :
           /\ Reads(c, StartMessage(a), d, n)
           /\ d.phase = "started" /\ d.blocks = c.blocks /\ d.ending = c.ending
<1>1. CASE a.started
  <2>1. StartMessage(a) = <<>>
    BY <1>1 DEF StartMessage
  <2> QED BY <1>1, <2>1, ReadsNone
<1>2. CASE ~a.started
  <2> DEFINE f == Frame("message_start", None, <<>>)
             d == Understand(c, f)
  <2>0. <<>> \in Texts
    BY DEF Texts
  <2>1. StartMessage(a) = <<f>>
    BY <1>2 DEF StartMessage
  <2>2. f \in Frames /\ f.type = "message_start"
    BY <2>0 DEF Frame, Frames, FrameTypes
  <2> HIDE DEF f
  <2>3. Reads(c, <<f>>, d, n)
    BY <1>2, <2>2, ReadsOne DEF Acceptable
  <2>4. d = [c EXCEPT !.phase = "started"] /\ d \in ClientState
    BY <1>2, <2>2, HearStart
  <2> HIDE DEF d
  <2>5. d.phase = "started" /\ d.blocks = c.blocks /\ d.ending = c.ending
    BY <2>4 DEF ClientState
  <2> QED BY <2>1, <2>3, <2>4, <2>5
<1> QED BY <1>1, <1>2

LEMMA ReadsBlockStart ==
  ASSUME NEW c \in ClientState, NEW kind \in {"text", "tool_use"}, NEW n,
         c.phase = "started", Cardinality(OpenOf(c)) < n
  PROVE  \E d \in ClientState :
           /\ Reads(c, <<Frame("content_block_start", Len(c.blocks), kind)>>, d, n)
           /\ d.phase = "started" /\ d.ending = c.ending /\ Len(d.blocks) = Len(c.blocks) + 1
           /\ \A k \in 1..Len(c.blocks) : d.blocks[k] = c.blocks[k]
           /\ d.blocks[Len(c.blocks) + 1] = [kind |-> kind, text |-> <<>>, open |-> TRUE]
           /\ OpenOf(d) = OpenOf(c) \union {Len(c.blocks) + 1}
<1> DEFINE l == Len(c.blocks)
           f == Frame("content_block_start", l, kind)
           d == Understand(c, f)
           b == [kind |-> kind, text |-> <<>>, open |-> TRUE]
<1>1. l \in Nat /\ c.blocks \in Seq(Blocks) /\ DOMAIN c.blocks = 1..l
  BY ClientFacts
<1>2. f \in Frames /\ f.type = "content_block_start" /\ f.index = l /\ f.what = kind
  BY <1>1 DEF Frame, Frames, FrameTypes
<1> HIDE DEF f
<1>3. Reads(c, <<f>>, d, n)
  BY <1>2, ReadsOne DEF Acceptable
<1>4. d = [c EXCEPT !.blocks = Append(c.blocks, b)] /\ d \in ClientState /\ d.phase = "started"
  BY <1>2, HearBlockStart
<1> HIDE DEF d
<1>5. d.blocks = Append(c.blocks, b) /\ d.ending = c.ending
  BY <1>4 DEF ClientState
<1>6. b \in Blocks
  <2>1. <<>> \in Seq(Piece)
    OBVIOUS
  <2> QED BY <2>1 DEF Blocks
<1>7. b.open = TRUE
  OBVIOUS
<1> HIDE DEF b
<1>8. /\ Len(d.blocks) = l + 1 /\ DOMAIN d.blocks = 1..(l + 1)
      /\ \A k \in 1..l : d.blocks[k] = c.blocks[k]
      /\ d.blocks[l + 1] = b
  <2> HIDE DEF l
  <2>1. l = Len(c.blocks)
    BY DEF l
  <2> QED BY <1>1, <1>5, <1>6, <2>1
<1>9. OpenOf(d) = OpenOf(c) \union {l + 1}
  <2> HIDE DEF l
  <2> QED BY <1>1, <1>7, <1>8 DEF OpenOf
<1> QED BY <1>3, <1>4, <1>5, <1>8, <1>9 DEF f, b

LEMMA ReadsDelta ==
  ASSUME NEW c \in ClientState, NEW k \in OpenOf(c), NEW x \in Texts, NEW n, c.phase = "started"
  PROVE  \E d \in ClientState :
           /\ Reads(c, <<Frame("content_block_delta", k - 1, x)>>, d, n)
           /\ d.phase = "started" /\ d.ending = c.ending /\ Len(d.blocks) = Len(c.blocks)
           /\ \A j \in 1..Len(c.blocks) : j # k => d.blocks[j] = c.blocks[j]
           /\ d.blocks[k].kind = c.blocks[k].kind /\ d.blocks[k].text = c.blocks[k].text \o x
           /\ OpenOf(d) = OpenOf(c)
<1> DEFINE f == Frame("content_block_delta", k - 1, x)
           d == Understand(c, f)
<1>1. /\ k \in 1..Len(c.blocks) /\ k - 1 \in Nat /\ (k - 1) + 1 = k /\ k \in Nat
      /\ DOMAIN c.blocks = 1..Len(c.blocks) /\ c.blocks[k] \in Blocks /\ c.blocks \in Seq(Blocks)
      /\ c.blocks[k].open
  BY ClientFacts, OpenFacts DEF OpenOf
<1>2. f \in Frames /\ f.type = "content_block_delta" /\ f.index = k - 1 /\ f.what = x
  BY <1>1 DEF Frame, Frames, FrameTypes
<1> HIDE DEF f
<1>3. Reads(c, <<f>>, d, n)
  BY <1>1, <1>2, ReadsOne DEF Acceptable
<1>4. d = [c EXCEPT !.blocks[k].text = @ \o x] /\ d \in ClientState /\ d.phase = "started"
  BY <1>1, <1>2, HearDelta
<1> HIDE DEF d
<1>5. d.blocks = [c.blocks EXCEPT ![k].text = @ \o x] /\ d.ending = c.ending
  BY <1>4 DEF ClientState
<1>6. /\ Len(d.blocks) = Len(c.blocks) /\ DOMAIN d.blocks = DOMAIN c.blocks
      /\ \A j \in 1..Len(c.blocks) : j # k => d.blocks[j] = c.blocks[j]
      /\ d.blocks[k] = [c.blocks[k] EXCEPT !.text = @ \o x]
  BY <1>1, <1>5
<1>7. /\ d.blocks[k].kind = c.blocks[k].kind /\ d.blocks[k].text = c.blocks[k].text \o x
      /\ d.blocks[k].open = c.blocks[k].open
  BY <1>1, <1>6 DEF Blocks
<1>8. OpenOf(d) = OpenOf(c)
  BY <1>1, <1>6, <1>7 DEF OpenOf
<1> QED BY <1>3, <1>4, <1>5, <1>6, <1>7, <1>8 DEF f

\* The client with the blocks of the indices S closed.
Stopped(c, S) ==
  [c EXCEPT !.blocks = [k \in DOMAIN c.blocks |->
                          IF k - 1 \in S THEN [c.blocks[k] EXCEPT !.open = FALSE] ELSE c.blocks[k]]]

LEMMA StoppedFacts ==
  ASSUME NEW c \in ClientState, NEW S
  PROVE  /\ Stopped(c, S) \in ClientState
         /\ Stopped(c, S).phase = c.phase /\ Stopped(c, S).ending = c.ending
         /\ Len(Stopped(c, S).blocks) = Len(c.blocks)
         /\ \A k \in 1..Len(c.blocks) :
              Stopped(c, S).blocks[k] =
                IF k - 1 \in S THEN [c.blocks[k] EXCEPT !.open = FALSE] ELSE c.blocks[k]
         /\ \A k \in 1..Len(c.blocks) :
              /\ Stopped(c, S).blocks[k].kind = c.blocks[k].kind
              /\ Stopped(c, S).blocks[k].text = c.blocks[k].text
         /\ OpenOf(Stopped(c, S)) = {k \in OpenOf(c) : k - 1 \notin S}
<1> DEFINE g == [k \in DOMAIN c.blocks |->
                   IF k - 1 \in S THEN [c.blocks[k] EXCEPT !.open = FALSE] ELSE c.blocks[k]]
<1>1. /\ c.blocks \in Seq(Blocks) /\ Len(c.blocks) \in Nat /\ DOMAIN c.blocks = 1..Len(c.blocks)
      /\ \A k \in 1..Len(c.blocks) : c.blocks[k] \in Blocks
  BY ClientFacts
<1>2. \A b \in Blocks :
        /\ [b EXCEPT !.open = FALSE] \in Blocks /\ [b EXCEPT !.open = FALSE].kind = b.kind
        /\ [b EXCEPT !.open = FALSE].text = b.text /\ [b EXCEPT !.open = FALSE].open = FALSE
  BY DEF Blocks
<1>3. \A k \in 1..Len(c.blocks) :
        g[k] = IF k - 1 \in S THEN [c.blocks[k] EXCEPT !.open = FALSE] ELSE c.blocks[k]
  BY <1>1
<1>5. DOMAIN g = 1..Len(c.blocks) /\ g = [k \in 1..Len(c.blocks) |-> g[k]]
  BY <1>1
<1>6. Stopped(c, S) = [c EXCEPT !.blocks = g]
  BY DEF Stopped
<1> HIDE DEF g
<1>4. \A k \in 1..Len(c.blocks) :
        /\ g[k] \in Blocks /\ g[k].kind = c.blocks[k].kind /\ g[k].text = c.blocks[k].text
        /\ k - 1 \in S => g[k].open = FALSE
        /\ k - 1 \notin S => g[k] = c.blocks[k]
  <2> TAKE k \in 1..Len(c.blocks)
  <2>1. CASE k - 1 \in S
    <3>1. g[k] = [c.blocks[k] EXCEPT !.open = FALSE]
      BY <2>1, <1>3
    <3>2. c.blocks[k] \in Blocks
      BY <1>1
    <3> QED BY <2>1, <3>1, <3>2, <1>2
  <2>2. CASE k - 1 \notin S
    BY <2>2, <1>1, <1>3
  <2> QED BY <2>1, <2>2
<1>8. g \in Seq(Blocks) /\ Len(g) = Len(c.blocks)
  <2>1. g \in [1..Len(c.blocks) -> Blocks]
    BY <1>4, <1>5
  <2> QED BY <2>1, <1>1
<1>9. /\ Stopped(c, S) \in ClientState /\ Stopped(c, S).blocks = g
      /\ Stopped(c, S).phase = c.phase /\ Stopped(c, S).ending = c.ending
  BY <1>6, <1>8 DEF ClientState, Blocks
<1>10. OpenOf(Stopped(c, S)) = {k \in OpenOf(c) : k - 1 \notin S}
  BY <1>1, <1>4, <1>5, <1>9 DEF OpenOf
<1> QED BY <1>3, <1>4, <1>8, <1>9, <1>10

LEMMA ReadsStops ==
  ASSUME NEW c \in ClientState, NEW q \in Seq(Nat), Increasing(q), NEW n, c.phase = "started",
         \A i \in 1..Len(q) : q[i] + 1 \in OpenOf(c)
  PROVE  Reads(c, [k \in DOMAIN q |-> Frame("content_block_stop", q[k], <<>>)], Stopped(c, ToSet(q)), n)
<1> DEFINE x == [k \in DOMAIN q |-> Frame("content_block_stop", q[k], <<>>)]
           T(k) == {q[i] : i \in 1..k}
           r == [k \in 0..Len(q) |-> Stopped(c, T(k))]
<1>1. /\ Len(q) \in Nat /\ DOMAIN q = 1..Len(q) /\ \A k \in 1..Len(q) : q[k] \in Nat
      /\ \A i, j \in 1..Len(q) : i < j => q[i] < q[j]
  BY IncreasingMeans
<1>2. \A k \in 1..Len(q) : /\ x[k] \in Frames /\ x[k].type = "content_block_stop"
                           /\ x[k].index = q[k]
  <2>1. <<>> \in Texts
    BY DEF Texts
  <2>2. ASSUME NEW j \in Nat
        PROVE  /\ Frame("content_block_stop", j, <<>>) \in Frames
               /\ Frame("content_block_stop", j, <<>>).type = "content_block_stop"
               /\ Frame("content_block_stop", j, <<>>).index = j
    BY <2>1 DEF Frame, Frames, FrameTypes
  <2>3. \A k \in 1..Len(q) : x[k] = Frame("content_block_stop", q[k], <<>>)
    BY <1>1
  <2> HIDE DEF x
  <2> QED BY <2>2, <2>3, <1>1
<1>3. x \in Seq(Frames) /\ Len(x) = Len(q)
  <2>0. DOMAIN x = 1..Len(q) /\ x = [k \in 1..Len(q) |-> x[k]]
    BY <1>1
  <2> HIDE DEF x
  <2>1. x \in [1..Len(q) -> Frames]
    BY <2>0, <1>2
  <2>2. x \in Seq(Frames)
    BY <2>1, <1>1
  <2> QED BY <2>0, <2>2, <1>1
<1>4. r \in [0..Len(x) -> ClientState]
  <2>1. \A k \in 0..Len(q) : Stopped(c, T(k)) \in ClientState
    <3> HIDE DEF T
    <3> QED BY StoppedFacts
  <2> HIDE DEF T, x
  <2> QED BY <1>3, <2>1
<1>5. r[0] = c
  <2>1. T(0) = {}
    OBVIOUS
  <2>2. Stopped(c, {}) = c
    <3>1. Stopped(c, {}) = [c EXCEPT !.blocks = [k \in DOMAIN c.blocks |-> c.blocks[k]]]
      BY DEF Stopped
    <3>2. [k \in DOMAIN c.blocks |-> c.blocks[k]] = c.blocks
      BY ClientFacts
    <3>3. [c EXCEPT !.blocks = c.blocks] = c
      BY DEF ClientState
    <3> QED BY <3>1, <3>2, <3>3
  <2>3. r[0] = Stopped(c, T(0))
    BY <1>1
  <2> QED BY <2>1, <2>2, <2>3
<1>6. r[Len(x)] = Stopped(c, ToSet(q))
  <2>1. T(Len(q)) = ToSet(q)
    BY <1>1 DEF ToSet
  <2>2. r[Len(q)] = Stopped(c, T(Len(q)))
    BY <1>1
  <2> HIDE DEF T, r, x
  <2> QED BY <2>1, <2>2, <1>3
<1>7. ASSUME NEW k \in 1..Len(x)
      PROVE  Acceptable(r[k - 1], x[k], n) /\ r[k] = Understand(r[k - 1], x[k])
  <2> DEFINE e == Stopped(c, T(k - 1))
             m == q[k] + 1
  <2>1. /\ k \in 1..Len(q) /\ k - 1 \in 0..Len(q) /\ k \in 0..Len(q)
    BY <1>1, <1>3
  <2>2. r[k - 1] = e /\ r[k] = Stopped(c, T(k))
    <3> HIDE DEF T
    <3> QED BY <2>1
  <2>3. q[k] \notin T(k - 1)
    <3>1. \A i \in 1..(k - 1) : q[i] < q[k] /\ q[i] \in Nat /\ q[k] \in Nat
      BY <2>1, <1>1
    <3> QED BY <3>1
  <2>4. T(k) = T(k - 1) \union {q[k]}
    <3>1. \A i \in 1..k : i \in 1..(k - 1) \/ i = k
      BY <2>1
    <3>2. \A i \in 1..(k - 1) : i \in 1..k
      BY <2>1
    <3>3. k \in 1..k
      BY <2>1
    <3> QED BY <3>1, <3>2, <3>3
  <2>5. m \in OpenOf(c) /\ m - 1 = q[k] /\ m \in 1..Len(c.blocks) /\ m \in Nat
    BY <2>1, <1>1, OpenFacts
  <2>6. /\ e \in ClientState /\ e.phase = "started" /\ e.ending = c.ending
        /\ Len(e.blocks) = Len(c.blocks) /\ m \in OpenOf(e)
    <3> HIDE DEF T, m
    <3> QED BY <2>3, <2>5, StoppedFacts
  <2> HIDE DEF r, x, e
  <2>7. Acceptable(e, x[k], n)
    BY <2>1, <2>6, <1>2 DEF Acceptable
  <2>8. Understand(e, x[k]) = BlockStopped(e, m)
    <3>1. x[k] \in Frames /\ x[k].type = "content_block_stop" /\ x[k].index + 1 = m
      BY <2>1, <1>2
    <3>2. e \in ClientState /\ e.phase = "started" /\ m \in OpenOf(e)
      BY <2>6
    <3> DEFINE f == x[k]
    <3>3. f \in Frames /\ f.type = "content_block_stop" /\ f.index + 1 = m
      BY <3>1
    <3> HIDE DEF m, f
    <3>4. Understand(e, f) = BlockStopped(e, m)
      BY ONLY <3>2, <3>3, HearStop
    <3> QED BY <3>4 DEF f
  <2>9. Stopped(c, T(k)) = BlockStopped(e, m)
    <3> HIDE DEF m, T
    <3> DEFINE D == DOMAIN c.blocks
               g == [j \in D |-> IF j - 1 \in T(k - 1) THEN [c.blocks[j] EXCEPT !.open = FALSE] ELSE c.blocks[j]]
               h == [j \in D |-> IF j - 1 \in T(k) THEN [c.blocks[j] EXCEPT !.open = FALSE] ELSE c.blocks[j]]
    <3>1. e = [c EXCEPT !.blocks = g] /\ Stopped(c, T(k)) = [c EXCEPT !.blocks = h]
      BY DEF Stopped, e
    <3>2. D = 1..Len(c.blocks) /\ m \in D /\ \A j \in D : j \in Nat
      BY <2>5, ClientFacts
    <3>3. \A j \in D : j - 1 \in T(k) <=> (j - 1 \in T(k - 1) \/ j = m)
      BY <2>4, <2>5, <3>2
    <3>4. h = [g EXCEPT ![m] = [g[m] EXCEPT !.open = FALSE]]
      <4>1. g[m] = c.blocks[m] /\ h[m] = [c.blocks[m] EXCEPT !.open = FALSE]
        BY <2>3, <2>5, <3>2, <3>3
      <4>2. \A j \in D : j # m => h[j] = g[j]
        BY <3>3
      <4>3. h = [j \in D |-> h[j]] /\ DOMAIN g = D
        OBVIOUS
      <4> HIDE DEF g, h
      <4> QED BY <4>1, <4>2, <4>3, <3>2
    <3>5. e.blocks = g
      <4> HIDE DEF g
      <4> QED BY <3>1 DEF ClientState
    <3> HIDE DEF g, h, D
    <3>6. [e EXCEPT !.blocks = [g EXCEPT ![m] = [g[m] EXCEPT !.open = FALSE]]]
             = [c EXCEPT !.blocks = h]
      BY <3>1, <3>4 DEF ClientState
    <3> QED BY <3>1, <3>5, <3>6 DEF BlockStopped
  <2> QED BY <2>2, <2>7, <2>8, <2>9
<1> HIDE DEF r, x
<1>8. Reads(c, x, Stopped(c, ToSet(q)), n)
  BY <1>3, <1>4, <1>5, <1>6, <1>7 DEF Reads
<1> QED BY <1>8 DEF x

\* A client that has read what an adapter in state a said, and no terminal event yet.
Synced(a, c) ==
  /\ a \in AdapterState /\ c \in ClientState
  /\ a.open \subseteq 0..(a.next - 1) /\ (~a.started => a.next = 0)
  /\ Len(c.blocks) = a.next /\ c.phase = (IF a.started THEN "started" ELSE "new")
  /\ OpenOf(c) = {j + 1 : j \in a.open}

LEMMA AdapterFields ==
  ASSUME NEW a \in AdapterState
  PROVE  /\ a.started \in BOOLEAN /\ a.terminal \in {"none", "success", "error"} /\ a.next \in Nat
         /\ a.open \in SUBSET Nat /\ a.text \in [Outputs \X Parts -> Nat \union {None}]
         /\ a.tool \in [Outputs -> Nat \union {None}] /\ a.sent \in SUBSET Outputs
         /\ a.sawToolUse \in BOOLEAN /\ a.usage \in {"zero", "created", "final"}
BY DEF AdapterState

LEMMA SyncedOpen ==
  ASSUME NEW a, NEW c, Synced(a, c)
  PROVE  /\ a.next \in Nat /\ a.open \in SUBSET Nat /\ IsFiniteSet(a.open)
         /\ \A j \in a.open : a.started /\ j < a.next /\ j + 1 \in OpenOf(c) /\ j + 1 \in 1..a.next
         /\ \A k \in OpenOf(c) : k - 1 \in a.open
<1>1. a.next \in Nat /\ a.open \in SUBSET Nat
  BY AdapterFields DEF Synced
<1>2. a.open \subseteq 0..(a.next - 1)
  BY DEF Synced
<1>3. IsFiniteSet(a.open)
  <2>1. IsFiniteSet(0..(a.next - 1))
    BY <1>1, FS_Interval
  <2> QED BY <1>2, <2>1, FS_Subset
<1>4. \A j \in a.open : a.started /\ j < a.next /\ j + 1 \in OpenOf(c) /\ j + 1 \in 1..a.next
  BY <1>1, <1>2 DEF Synced
<1>5. \A k \in OpenOf(c) : k - 1 \in a.open
  <2> TAKE k \in OpenOf(c)
  <2>1. PICK j \in a.open : k = j + 1
    BY DEF Synced
  <2>2. j \in Nat
    BY <1>1
  <2> QED BY <2>1, <2>2
<1> QED BY <1>1, <1>3, <1>4, <1>5

\* What is new to a client that had n blocks: a block, more of the text of a block, or nothing.
BlockAdded(c, d, n, kind) ==
  /\ \A k \in 1..n : d.blocks[k] = c.blocks[k]
  /\ d.blocks[n + 1] = [kind |-> kind, text |-> <<>>, open |-> TRUE]
TextAdded(c, d, n, j, x) ==
  /\ \A k \in 1..n : k # j + 1 => d.blocks[k] = c.blocks[k]
  /\ d.blocks[j + 1].kind = c.blocks[j + 1].kind
  /\ d.blocks[j + 1].text = c.blocks[j + 1].text \o x
SameTexts(c, d, n) ==
  \A k \in 1..n : d.blocks[k].kind = c.blocks[k].kind /\ d.blocks[k].text = c.blocks[k].text

LEMMA Opening ==
  ASSUME NEW a, NEW c, Synced(a, c), NEW kind \in {"text", "tool_use"}, NEW n, Cardinality(OpenOf(c)) < n,
         NEW b \in AdapterState, b.started, b.next = a.next + 1, b.open = a.open \union {a.next}
  PROVE  \E d : /\ Reads(c, Append(StartMessage(a), Frame("content_block_start", a.next, kind)), d, n)
                /\ Synced(b, d) /\ BlockAdded(c, d, a.next, kind)
<1>1. /\ c \in ClientState /\ a \in AdapterState /\ a.started \in BOOLEAN /\ a.next \in Nat
      /\ Len(c.blocks) = a.next /\ c.phase = (IF a.started THEN "started" ELSE "new")
      /\ OpenOf(c) = {j + 1 : j \in a.open} /\ a.open \subseteq 0..(a.next - 1)
  BY AdapterFields DEF Synced
<1>2. PICK e \in ClientState :
           /\ Reads(c, StartMessage(a), e, n)
           /\ e.phase = "started" /\ e.blocks = c.blocks /\ e.ending = c.ending
  <2>1. c \in ClientState /\ a.started \in BOOLEAN /\ c.phase = (IF a.started THEN "started" ELSE "new")
    BY <1>1
  <2> QED BY ONLY <2>1, ReadsStartMessage
<1>3. OpenOf(e) = OpenOf(c)
  BY <1>2 DEF OpenOf
<1>4. PICK d \in ClientState :
           /\ Reads(e, <<Frame("content_block_start", Len(e.blocks), kind)>>, d, n)
           /\ d.phase = "started" /\ d.ending = e.ending /\ Len(d.blocks) = Len(e.blocks) + 1
           /\ \A k \in 1..Len(e.blocks) : d.blocks[k] = e.blocks[k]
           /\ d.blocks[Len(e.blocks) + 1] = [kind |-> kind, text |-> <<>>, open |-> TRUE]
           /\ OpenOf(d) = OpenOf(e) \union {Len(e.blocks) + 1}
  <2>1. e \in ClientState /\ kind \in {"text", "tool_use"} /\ e.phase = "started" /\ Cardinality(OpenOf(e)) < n
    BY <1>2, <1>3
  <2> QED BY ONLY <2>1, ReadsBlockStart
<1> DEFINE f == Frame("content_block_start", a.next, kind)
<1>5. Reads(c, StartMessage(a) \o <<f>>, d, n)
  BY <1>1, <1>2, <1>4, ReadsConcat
<1>6. StartMessage(a) \o <<f>> = Append(StartMessage(a), f)
  <2>1. StartMessage(a) \in Seq(Frames) /\ <<f>> \in Seq(Frames)
    BY <1>1, <1>2, <1>4, ReadsType
  <2>2. f \in Frames
    BY <2>1
  <2> HIDE DEF f
  <2> QED BY <2>1, <2>2
<1>7. Synced(b, d)
  <2>1. OpenOf(d) = {j + 1 : j \in b.open}
    BY <1>1, <1>2, <1>3, <1>4
  <2>2. b.open \subseteq 0..(b.next - 1) /\ b.next = Len(d.blocks)
    BY <1>1, <1>2, <1>4
  <2> QED BY <2>1, <2>2, <1>4 DEF Synced
<1>8. Reads(c, Append(StartMessage(a), f), d, n)
  BY <1>5, <1>6
<1>9. \A k \in 1..a.next : d.blocks[k] = c.blocks[k]
  BY <1>1, <1>2, <1>4
<1>10. d.blocks[a.next + 1] = [kind |-> kind, text |-> <<>>, open |-> TRUE]
  BY <1>1, <1>2, <1>4
<1> QED BY <1>7, <1>8, <1>9, <1>10 DEF BlockAdded

LEMMA Saying ==
  ASSUME NEW a, NEW c, Synced(a, c), NEW j \in a.open, NEW x \in Texts, NEW n
  PROVE  \E d : /\ Reads(c, <<Frame("content_block_delta", j, x)>>, d, n)
                /\ Synced(a, d) /\ TextAdded(c, d, a.next, j, x)
<1>1. /\ j \in Nat /\ j + 1 \in OpenOf(c) /\ (j + 1) - 1 = j /\ a.started
  BY SyncedOpen
<1>2. c \in ClientState /\ c.phase = "started" /\ Len(c.blocks) = a.next
  BY <1>1 DEF Synced
<1> DEFINE k == j + 1
<1> HIDE DEF k
<1>3. k \in OpenOf(c) /\ k - 1 = j
  BY <1>1 DEF k
<1>4. PICK d \in ClientState :
           /\ Reads(c, <<Frame("content_block_delta", k - 1, x)>>, d, n)
           /\ d.phase = "started" /\ d.ending = c.ending /\ Len(d.blocks) = Len(c.blocks)
           /\ \A i \in 1..Len(c.blocks) : i # k => d.blocks[i] = c.blocks[i]
           /\ d.blocks[k].kind = c.blocks[k].kind /\ d.blocks[k].text = c.blocks[k].text \o x
           /\ OpenOf(d) = OpenOf(c)
  BY <1>2, <1>3, ReadsDelta
<1>5. Synced(a, d)
  BY <1>1, <1>2, <1>4 DEF Synced
<1> QED BY <1>2, <1>3, <1>4, <1>5 DEF k, TextAdded

LEMMA Closing ==
  ASSUME NEW a, NEW c, Synced(a, c), NEW S, NEW n
  PROVE  \E d : /\ Reads(c, Close(a, S).frames, d, n)
                /\ Synced(Close(a, S).ad, d) /\ SameTexts(c, d, a.next)
<1> DEFINE T == S \intersect a.open
           q == Ascending(T)
           b == [a EXCEPT !.open = @ \ S]
<1>1. /\ a.next \in Nat /\ a.open \in SUBSET Nat /\ IsFiniteSet(a.open)
      /\ \A j \in a.open : a.started /\ j < a.next /\ j + 1 \in OpenOf(c) /\ j + 1 \in 1..a.next
      /\ \A k \in OpenOf(c) : k - 1 \in a.open
  BY SyncedOpen
<1>2. T \in SUBSET Nat /\ IsFiniteSet(T)
  BY <1>1, FS_Subset
<1>3. Close(a, S).frames = [k \in DOMAIN q |-> Frame("content_block_stop", q[k], <<>>)] /\ Close(a, S).ad = b
  BY DEF Close, Out
<1>4. Lists(q, T)
  <2> HIDE DEF T
  <2> QED BY <1>2, AscendingLists
<1>5. q \in Seq(Nat) /\ Increasing(q) /\ ToSet(q) = T
  BY <1>4, <1>2, ListsFacts
<1>6. /\ a \in AdapterState /\ c \in ClientState /\ Len(c.blocks) = a.next
      /\ c.phase = (IF a.started THEN "started" ELSE "new")
      /\ OpenOf(c) = {j + 1 : j \in a.open} /\ a.open \subseteq 0..(a.next - 1) /\ (~a.started => a.next = 0)
  BY DEF Synced
<1>7. /\ b \in AdapterState /\ b.open = a.open \ S /\ b.next = a.next /\ b.started = a.started
  BY <1>6 DEF AdapterState
<1> HIDE DEF q, b
<1>8. CASE a.started
  <2>1. c.phase = "started"
    BY <1>6, <1>8
  <2>2. \A i \in 1..Len(q) : q[i] + 1 \in OpenOf(c)
    BY <1>1, <1>5, ToSetFacts
  <2> DEFINE d == Stopped(c, ToSet(q))
  <2>3. Reads(c, Close(a, S).frames, d, n)
    BY <1>3, <1>5, <1>6, <2>1, <2>2, ReadsStops
  <2>4. /\ d \in ClientState /\ d.phase = c.phase /\ Len(d.blocks) = Len(c.blocks)
        /\ \A k \in 1..Len(c.blocks) : d.blocks[k].kind = c.blocks[k].kind /\ d.blocks[k].text = c.blocks[k].text
        /\ OpenOf(d) = {k \in OpenOf(c) : k - 1 \notin ToSet(q)}
    BY <1>6, StoppedFacts
  <2> HIDE DEF d
  <2>5. OpenOf(d) = {j + 1 : j \in b.open}
    <3>1. ASSUME NEW k \in OpenOf(d) PROVE k \in {j + 1 : j \in b.open}
      <4>1. k \in OpenOf(c) /\ k - 1 \notin T /\ k - 1 \in a.open
        BY <2>4, <1>1, <1>5
      <4>2. PICK j \in a.open : k = j + 1
        BY <4>1, <1>6
      <4>3. j \in Nat /\ k - 1 = j
        BY <4>2, <1>1
      <4> QED BY <4>1, <4>2, <4>3, <1>7
    <3>2. ASSUME NEW j \in b.open PROVE j + 1 \in OpenOf(d)
      <4>1. j \in a.open /\ j \notin T /\ j \in Nat /\ (j + 1) - 1 = j
        BY <1>1, <1>7
      <4> QED BY <4>1, <2>4, <1>1, <1>5
    <3> QED BY <3>1, <3>2
  <2>6. Synced(b, d)
    BY <1>6, <1>7, <2>4, <2>5 DEF Synced
  <2> QED BY <1>3, <1>6, <2>3, <2>4, <2>6 DEF SameTexts
<1>9. CASE ~a.started
  <2>1. a.open = {}
    BY <1>1, <1>9
  <2>2. T = {} /\ b.open = a.open
    BY <2>1, <1>7
  <2>3. q = <<>>
    <3>1. ToSet(q) = {} /\ Len(q) \in Nat
      BY <1>5, <2>2
    <3>2. Len(q) = 0
      <4>1. Len(q) >= 1 => 1 \in 1..Len(q)
        BY <3>1
      <4>2. \A i \in 1..Len(q) : q[i] \in ToSet(q)
        BY <1>5, ToSetFacts
      <4> QED BY <3>1, <4>1, <4>2
    <3> QED BY <1>5, <3>2, EmptyFacts
  <2>4. Close(a, S).frames = <<>>
    <3>1. DOMAIN q = {}
      BY <2>3
    <3>2. [k \in {} |-> Frame("content_block_stop", q[k], <<>>)] = <<>>
      OBVIOUS
    <3> QED BY <1>3, <3>1, <3>2
  <2>5. Reads(c, Close(a, S).frames, c, n)
    BY <1>6, <2>4, ReadsNone
  <2>6. Synced(b, c)
    BY <1>6, <1>7, <2>2 DEF Synced
  <2> QED BY <1>3, <2>5, <2>6 DEF SameTexts
<1> QED BY <1>6, <1>8, <1>9, AdapterFields

-----------------------------------------------------------------------------
\* The items and their parts.

LEMMA ItemFacts ==
  ASSUME NEW its, ItemsOK(its)
  PROVE  /\ Len(its) \in Nat /\ DOMAIN its = 1..Len(its) /\ Len(its) <= MaxItems
         /\ \A i \in DOMAIN its :
              /\ i \in Nat /\ i \in 1..MaxItems /\ i - 1 \in Outputs
              /\ its[i] \in Item /\ KindOK(its[i])
              /\ its[i].kind \in {"message", "function_call", "reasoning"}
              /\ its[i].stage \in {"live", "part", "said", "done"}
              /\ its[i].pieces \in Seq(0..MaxPieces) /\ Len(its[i].pieces) \in Nat
              /\ DOMAIN its[i].pieces = 1..Len(its[i].pieces) /\ Len(its[i].pieces) <= MaxParts
<1>0. MaxPieces \in Nat \ {0} /\ MaxItems \in Nat \ {0} /\ MaxParts \in Nat \ {0}
  BY AdapterAssumption
<1>1. its \in Seq(Item) /\ Len(its) <= MaxItems /\ \A i \in DOMAIN its : KindOK(its[i])
  BY DEF ItemsOK
<1>2. Len(its) \in Nat /\ DOMAIN its = 1..Len(its) /\ \A i \in 1..Len(its) : its[i] \in Item
  BY <1>1
<1>3. \A it \in Item :
        /\ it.kind \in {"message", "function_call", "reasoning"}
        /\ it.stage \in {"live", "part", "said", "done"}
        /\ it.pieces \in Seq(0..MaxPieces)
  BY DEF Item
<1>4. \A q \in Seq(0..MaxPieces) : Len(q) \in Nat /\ DOMAIN q = 1..Len(q) /\ (q = <<>> => Len(q) = 0)
  OBVIOUS
<1>5. ASSUME NEW i \in DOMAIN its
      PROVE  i \in Nat /\ i \in 1..MaxItems /\ i - 1 \in Outputs
  BY <1>0, <1>1, <1>2 DEF Outputs
<1>6. ASSUME NEW i \in DOMAIN its PROVE Len(its[i].pieces) <= MaxParts
  <2>1. its[i] \in Item /\ KindOK(its[i])
    BY <1>1, <1>2
  <2>2. /\ its[i].kind \in {"message", "function_call", "reasoning"}
        /\ its[i].pieces = <<>> => Len(its[i].pieces) = 0
    BY <2>1, <1>3, <1>4
  <2>3. 0 <= MaxParts /\ 1 <= MaxParts
    BY <1>0
  <2>4. its[i].kind = "message" => Len(its[i].pieces) <= MaxParts
    BY <2>1 DEF KindOK
  <2>5. its[i].kind = "function_call" => Len(its[i].pieces) = 1
    BY <2>1 DEF KindOK
  <2>6. its[i].kind = "reasoning" => Len(its[i].pieces) = 0
    BY <2>1, <2>2 DEF KindOK
  <2> QED BY <2>2, <2>3, <2>4, <2>5, <2>6
<1> QED BY <1>1, <1>2, <1>3, <1>4, <1>5, <1>6

LEMMA SlotFacts ==
  ASSUME NEW its, ItemsOK(its)
  PROVE  /\ \A s \in Slots(its) :
              /\ s[1] \in DOMAIN its /\ s[2] \in DOMAIN its[s[1]].pieces /\ s = <<s[1], s[2]>>
              /\ s[1] \in 1..MaxItems /\ s[2] \in 1..MaxParts
              /\ s[1] - 1 \in Outputs /\ s[2] - 1 \in Parts
              /\ its[s[1]].pieces[s[2]] \in 0..MaxPieces
              /\ its[s[1]].kind \in {"message", "function_call"}
         /\ \A i \in DOMAIN its : \A p \in DOMAIN its[i].pieces : <<i, p>> \in Slots(its)
<1>0. MaxParts \in Nat \ {0}
  BY AdapterAssumption
<1>1. ASSUME NEW s \in Slots(its)
      PROVE  /\ s[1] \in DOMAIN its /\ s[2] \in DOMAIN its[s[1]].pieces /\ s = <<s[1], s[2]>>
  BY DEF Slots
<1>2. ASSUME NEW s \in Slots(its)
      PROVE  /\ s[1] \in 1..MaxItems /\ s[2] \in 1..MaxParts
             /\ s[1] - 1 \in Outputs /\ s[2] - 1 \in Parts
             /\ its[s[1]].pieces[s[2]] \in 0..MaxPieces
             /\ its[s[1]].kind \in {"message", "function_call"}
  <2> DEFINE i == s[1]
             p == s[2]
             q == its[i].pieces
  <2>1. i \in DOMAIN its /\ p \in DOMAIN q
    BY <1>1
  <2>2. /\ i \in 1..MaxItems /\ i - 1 \in Outputs /\ KindOK(its[i])
        /\ its[i].kind \in {"message", "function_call", "reasoning"}
        /\ q \in Seq(0..MaxPieces) /\ DOMAIN q = 1..Len(q) /\ Len(q) <= MaxParts /\ Len(q) \in Nat
    BY <2>1, ItemFacts
  <2>3. q[p] \in 0..MaxPieces
    <3>1. q \in Seq(0..MaxPieces) /\ p \in DOMAIN q
      BY <2>1, <2>2
    <3> HIDE DEF q, p, i
    <3> QED BY <3>1, SeqElement
  <2>4. p \in 1..MaxParts /\ p - 1 \in Parts
    <3> HIDE DEF q
    <3> QED BY <2>1, <2>2, <1>0 DEF Parts
  <2>5. its[i].kind # "reasoning"
    <3>1. q # <<>>
      <4> HIDE DEF q, p
      <4> QED BY <2>1
    <3> QED BY <3>1, <2>2 DEF KindOK
  <2> QED BY <2>2, <2>3, <2>4, <2>5
<1>3. ASSUME NEW i \in DOMAIN its, NEW p \in DOMAIN its[i].pieces PROVE <<i, p>> \in Slots(its)
  BY DEF Slots
<1> QED BY <1>1, <1>2, <1>3

LEMMA FollowsSynced ==
  ASSUME NEW its, NEW a, NEW n, NEW c, NEW v, Matches(its, a, n), a.terminal = "none", Follows(its, a, c, v)
  PROVE  Synced(a, c)
BY DEF Matches, Tracks, Follows, Synced

\* What a change of the items leaves as it was: the slots and, of each item, the kind.
SameSlots(its, its2) ==
  /\ Len(its) <= Len(its2)
  /\ \A i \in DOMAIN its : its2[i].kind = its[i].kind /\ Len(its2[i].pieces) = Len(its[i].pieces)
  /\ \A i \in DOMAIN its2 : i \notin DOMAIN its => Len(its2[i].pieces) = 0

LEMMA KeepSlots ==
  ASSUME NEW its, NEW its2, ItemsOK(its), ItemsOK(its2), SameSlots(its, its2),
         NEW a, NEW b, b.text = a.text, b.tool = a.tool, b.next = a.next, NEW n
  PROVE  /\ Slots(its2) = Slots(its)
         /\ \A s \in Slots(its) : Index(its2, b, s) = Index(its, a, s)
         /\ Known(its, a) => Known(its2, b)
         /\ Placed(its, a, n) => Placed(its2, b, n)
         /\ (\E i \in DOMAIN its : its[i].kind = "function_call")
              <=> (\E i \in DOMAIN its2 : its2[i].kind = "function_call")
<1>1. /\ Len(its) \in Nat /\ DOMAIN its = 1..Len(its)
      /\ Len(its2) \in Nat /\ DOMAIN its2 = 1..Len(its2)
      /\ \A i \in DOMAIN its : i \in DOMAIN its2
  BY ItemFacts DEF SameSlots
<1>2. ASSUME NEW i \in DOMAIN its
      PROVE  its2[i].kind = its[i].kind /\ DOMAIN its2[i].pieces = DOMAIN its[i].pieces
  BY <1>1, ItemFacts DEF SameSlots
<1>3. ASSUME NEW i \in DOMAIN its2, i \notin DOMAIN its
      PROVE  /\ its2[i].kind # "function_call" /\ Len(its2[i].pieces) = 0
             /\ DOMAIN its2[i].pieces = {}
  <2>1. Len(its2[i].pieces) = 0
    BY <1>3 DEF SameSlots
  <2>2. KindOK(its2[i]) /\ DOMAIN its2[i].pieces = 1..Len(its2[i].pieces)
    BY ItemFacts
  <2> QED BY <2>1, <2>2 DEF KindOK
<1>4. Slots(its2) = Slots(its)
  <2>1. ASSUME NEW s \in Slots(its) PROVE s \in Slots(its2)
    <3>1. s[1] \in DOMAIN its /\ s[2] \in DOMAIN its[s[1]].pieces /\ s = <<s[1], s[2]>>
      BY SlotFacts
    <3>2. s[1] \in DOMAIN its2 /\ s[2] \in DOMAIN its2[s[1]].pieces
      BY <3>1, <1>1, <1>2
    <3> QED BY <3>1, <3>2, SlotFacts
  <2>2. ASSUME NEW s \in Slots(its2) PROVE s \in Slots(its)
    <3>1. s[1] \in DOMAIN its2 /\ s[2] \in DOMAIN its2[s[1]].pieces /\ s = <<s[1], s[2]>>
      BY SlotFacts
    <3>2. s[1] \in DOMAIN its
      BY <3>1, <1>3
    <3>3. s[2] \in DOMAIN its[s[1]].pieces
      BY <3>1, <3>2, <1>2
    <3> QED BY <3>1, <3>2, <3>3, SlotFacts
  <2> QED BY <2>1, <2>2
<1>5. ASSUME NEW s \in Slots(its) PROVE Index(its2, b, s) = Index(its, a, s)
  <2>1. s[1] \in DOMAIN its
    BY SlotFacts
  <2> QED BY <2>1, <1>2 DEF Index
<1>6. ASSUME Known(its, a) PROVE Known(its2, b)
  <2>1. ASSUME NEW i \in 1..MaxItems, NEW p \in 1..MaxParts
        PROVE  b.text[<<i - 1, p - 1>>] # None
                 <=> i \in DOMAIN its2 /\ its2[i].kind = "message" /\ p <= Len(its2[i].pieces)
    <3>1. a.text[<<i - 1, p - 1>>] # None
            <=> i \in DOMAIN its /\ its[i].kind = "message" /\ p <= Len(its[i].pieces)
      BY <1>6 DEF Known
    <3>2. CASE i \in DOMAIN its
      BY <3>1, <3>2, <1>1 DEF SameSlots
    <3>3. CASE i \notin DOMAIN its
      <4>1. i \in DOMAIN its2 => ~(p <= Len(its2[i].pieces))
        BY <3>3, <1>3
      <4> QED BY <3>1, <3>3, <4>1
    <3> QED BY <3>2, <3>3
  <2>2. ASSUME NEW i \in 1..MaxItems
        PROVE  b.tool[i - 1] # None <=> i \in DOMAIN its2 /\ its2[i].kind = "function_call"
    <3>1. a.tool[i - 1] # None <=> i \in DOMAIN its /\ its[i].kind = "function_call"
      BY <1>6 DEF Known
    <3> QED BY <3>1, <1>1, <1>2, <1>3
  <2> QED BY <2>1, <2>2 DEF Known
<1>7. ASSUME Placed(its, a, n) PROVE Placed(its2, b, n)
  BY <1>4, <1>5, <1>7 DEF Placed
<1>8. (\E i \in DOMAIN its : its[i].kind = "function_call")
        <=> (\E i \in DOMAIN its2 : its2[i].kind = "function_call")
  BY <1>1, <1>2, <1>3
<1> QED BY <1>4, <1>5, <1>6, <1>7, <1>8

LEMMA ItemsChange ==
  ASSUME NEW its, ItemsOK(its), NEW i \in DOMAIN its, NEW item \in Item, KindOK(item)
  PROVE  /\ ItemsOK([its EXCEPT ![i] = item]) /\ Len([its EXCEPT ![i] = item]) = Len(its)
         /\ DOMAIN [its EXCEPT ![i] = item] = DOMAIN its /\ [its EXCEPT ![i] = item][i] = item
         /\ \A j \in DOMAIN its : j # i => [its EXCEPT ![i] = item][j] = its[j]
<1> DEFINE its2 == [its EXCEPT ![i] = item]
<1>1. its \in Seq(Item) /\ Len(its) <= MaxItems /\ \A j \in DOMAIN its : KindOK(its[j])
  BY DEF ItemsOK
<1>2. /\ its2 \in Seq(Item) /\ Len(its2) = Len(its) /\ DOMAIN its2 = DOMAIN its /\ its2[i] = item
      /\ \A j \in DOMAIN its : j # i => its2[j] = its[j]
  BY <1>1
<1> HIDE DEF its2
<1>3. ItemsOK(its2)
  BY <1>1, <1>2 DEF ItemsOK
<1> QED BY <1>2, <1>3 DEF its2

LEMMA ItemsGrow ==
  ASSUME NEW its, ItemsOK(its), Len(its) < MaxItems, NEW item \in Item, KindOK(item)
  PROVE  /\ ItemsOK(Append(its, item)) /\ Len(Append(its, item)) = Len(its) + 1
         /\ DOMAIN Append(its, item) = DOMAIN its \union {Len(its) + 1} /\ Len(its) + 1 \notin DOMAIN its
         /\ Append(its, item)[Len(its) + 1] = item
         /\ \A j \in DOMAIN its : Append(its, item)[j] = its[j]
<1> DEFINE its2 == Append(its, item)
<1>0. MaxItems \in Nat
  BY AdapterAssumption
<1>1. its \in Seq(Item) /\ Len(its) <= MaxItems /\ \A j \in DOMAIN its : KindOK(its[j])
  BY DEF ItemsOK
<1>2. /\ its2 \in Seq(Item) /\ Len(its2) = Len(its) + 1 /\ DOMAIN its2 = 1..(Len(its) + 1)
      /\ its2[Len(its) + 1] = item
      /\ \A j \in DOMAIN its : its2[j] = its[j]
  BY <1>1
<1>3. DOMAIN its2 = DOMAIN its \union {Len(its) + 1} /\ Len(its) + 1 \notin DOMAIN its /\ Len(its) \in Nat
  <2>1. DOMAIN its = 1..Len(its) /\ Len(its) \in Nat
    BY <1>1
  <2> HIDE DEF its2
  <2> QED BY <2>1, <1>2
<1> HIDE DEF its2
<1>4. ItemsOK(its2)
  BY <1>0, <1>1, <1>2, <1>3 DEF ItemsOK
<1> QED BY <1>2, <1>3, <1>4 DEF its2

LEMMA BusyFacts ==
  ASSUME NEW its, ItemsOK(its)
  PROVE  Busy(its) \subseteq DOMAIN its /\ IsFiniteSet(Busy(its)) /\ Cardinality(Busy(its)) \in Nat
<1>1. Len(its) \in Nat /\ DOMAIN its = 1..Len(its) /\ Busy(its) \subseteq DOMAIN its
  BY ItemFacts DEF Busy
<1>2. IsFiniteSet(1..Len(its))
  BY <1>1, FS_Interval
<1> QED BY <1>1, <1>2, FS_Subset, FS_CardinalityType

LEMMA FewerBusy ==
  ASSUME NEW its, NEW its2, NEW n \in Nat, ItemsOK(its), ItemsOK(its2), InTurn(its, n), Len(its2) = Len(its),
         Busy(its2) \subseteq Busy(its)
  PROVE  InTurn(its2, n)
<1>1. Cardinality(Busy(its2)) <= Cardinality(Busy(its)) /\ Cardinality(Busy(its2)) \in Nat
  BY BusyFacts, FS_Subset
<1>2. Cardinality(Busy(its)) <= n /\ Cardinality(Busy(its)) \in Nat
  BY BusyFacts DEF InTurn
<1>3. Cardinality(Busy(its2)) <= n
  BY <1>1, <1>2
<1> QED BY <1>3 DEF InTurn

\* The place of a part is an index of its own.
PlacesApart(its, a) ==
  /\ \A s \in Slots(its) : /\ Index(its, a, s) \in Nat /\ Index(its, a, s) < a.next
                           /\ Index(its, a, s) + 1 \in 1..a.next
  /\ \A s, t \in Slots(its) : s # t => Index(its, a, s) # Index(its, a, t)
                                         /\ Index(its, a, s) + 1 # Index(its, a, t) + 1

LEMMA PlaceFacts ==
  ASSUME NEW its, NEW a, NEW n, Matches(its, a, n)
  PROVE  /\ ItemsOK(its) /\ a \in AdapterState /\ a.next \in Nat
         /\ \A s \in Slots(its) : /\ Index(its, a, s) \in Nat /\ Index(its, a, s) < a.next
                                  /\ Index(its, a, s) + 1 \in 1..a.next
         /\ \A s, t \in Slots(its) : s # t => Index(its, a, s) # Index(its, a, t)
                                                /\ Index(its, a, s) + 1 # Index(its, a, t) + 1
         /\ \A j \in a.open : \E s \in Slots(its) : Index(its, a, s) = j
<1>1. ItemsOK(its) /\ a \in AdapterState /\ a.next \in Nat /\ a.open \subseteq 0..(a.next - 1)
  BY AdapterFields DEF Matches, Tracks
<1>2. ASSUME NEW s \in Slots(its)
      PROVE  /\ Index(its, a, s) \in Nat /\ Index(its, a, s) < a.next
             /\ Index(its, a, s) + 1 \in 1..a.next
  <2>1. Index(its, a, s) \in 0..(a.next - 1)
    BY DEF Matches, Placed
  <2> QED BY <2>1, <1>1
<1>3. \A s, t \in Slots(its) : Index(its, a, s) = Index(its, a, t) => s = t
  BY DEF Matches, Placed
<1>4. ASSUME NEW s \in Slots(its), NEW t \in Slots(its), s # t
      PROVE  Index(its, a, s) # Index(its, a, t) /\ Index(its, a, s) + 1 # Index(its, a, t) + 1
  BY <1>2, <1>3, <1>4
<1>5. \A j \in a.open : \E s \in Slots(its) : Index(its, a, s) = j
  BY <1>1 DEF Matches, Placed
<1> QED BY <1>1, <1>2, <1>4, <1>5

\* An item moves on: no part more, and the blocks of its parts are open as long as they grow.
Moves(its, a, c, i, item, b, d) ==
  /\ i \in DOMAIN its /\ its[i].stage # "done" /\ item \in Item /\ KindOK(item)
  /\ item.kind = its[i].kind /\ Len(item.pieces) = Len(its[i].pieces)
  /\ b \in AdapterState /\ b.text = a.text /\ b.tool = a.tool /\ b.next = a.next /\ b.started = a.started
  /\ b.sawToolUse = a.sawToolUse /\ b.terminal = "none" /\ b.open \subseteq a.open
  /\ \A s \in Slots(its) :
       /\ s[1] # i => (Index(its, a, s) \in b.open <=> Index(its, a, s) \in a.open)
       /\ s[1] = i => (Index(its, a, s) \in b.open <=> Growing([its EXCEPT ![i] = item], s))
  /\ \A o \in Outputs : o # i - 1 => (o \in b.sent <=> o \in a.sent)
  /\ item.kind = "function_call" /\ item.stage = "live" => (i - 1 \in b.sent <=> item.pieces[1] > 0)
  /\ Synced(b, d)
  /\ \A s \in Slots(its) :
       /\ d.blocks[Index(its, a, s) + 1].kind = c.blocks[Index(its, a, s) + 1].kind
       /\ s[1] # i => d.blocks[Index(its, a, s) + 1].text = c.blocks[Index(its, a, s) + 1].text
       /\ s[1] = i => d.blocks[Index(its, a, s) + 1].text = PiecesOf(i - 1, s[2] - 1, item.pieces[s[2]])

LEMMA ItemMoves ==
  ASSUME NEW its, NEW a, NEW n \in Nat, NEW c, NEW v, NEW w,
         Matches(its, a, n), a.terminal = "none", Follows(its, a, c, v),
         NEW i, NEW item, NEW b, NEW d, Moves(its, a, c, i, item, b, d)
  PROVE  Matches([its EXCEPT ![i] = item], b, n) /\ Follows([its EXCEPT ![i] = item], b, d, w)
<1> DEFINE its2 == [its EXCEPT ![i] = item]
<1>0. /\ i \in DOMAIN its /\ its[i].stage # "done" /\ item \in Item /\ KindOK(item)
      /\ item.kind = its[i].kind /\ Len(item.pieces) = Len(its[i].pieces)
      /\ b \in AdapterState /\ b.text = a.text /\ b.tool = a.tool /\ b.next = a.next /\ b.started = a.started
      /\ b.sawToolUse = a.sawToolUse /\ b.terminal = "none" /\ b.open \subseteq a.open /\ Synced(b, d)
  BY DEF Moves
<1>1. ItemsOK(its) /\ Known(its, a) /\ Placed(its, a, n) /\ InTurn(its, n) /\ Tracks(its, a)
  BY DEF Matches
<1>2. /\ ItemsOK(its2) /\ Len(its2) = Len(its) /\ DOMAIN its2 = DOMAIN its /\ its2[i] = item
      /\ \A j \in DOMAIN its : j # i => its2[j] = its[j]
  BY <1>0, <1>1, ItemsChange
<1>3. \A s \in Slots(its) : s[1] = i => (Index(its, a, s) \in b.open <=> Growing(its2, s))
  BY DEF Moves
<1> HIDE DEF its2
<1>4. SameSlots(its, its2)
  <2>1. Len(its) <= Len(its2)
    BY <1>0, <1>1, <1>2, ItemFacts
  <2> QED BY <1>0, <2>1, <1>2 DEF SameSlots
<1>5. /\ Slots(its2) = Slots(its)
      /\ \A s \in Slots(its) : Index(its2, b, s) = Index(its, a, s)
      /\ Known(its2, b) /\ Placed(its2, b, n)
      /\ (\E j \in DOMAIN its : its[j].kind = "function_call")
            <=> (\E j \in DOMAIN its2 : its2[j].kind = "function_call")
  BY <1>0, <1>1, <1>2, <1>4, KeepSlots
<1>6. InTurn(its2, n)
  <2>1. Busy(its2) \subseteq Busy(its)
    BY <1>0, <1>2 DEF Busy
  <2> QED BY <1>0, <2>1, <1>1, <1>2, FewerBusy
<1>7. \A s \in Slots(its) : s[1] \in DOMAIN its
  BY <1>0, <1>1, SlotFacts
<1>8. Tracks(its2, b)
  <2>1. b.open \subseteq 0..(b.next - 1) /\ (~b.started => b.next = 0)
    BY <1>0, <1>1 DEF Tracks
  <2>2. ASSUME NEW s \in Slots(its2) PROVE Index(its2, b, s) \in b.open <=> Growing(its2, s)
    <3>1. s \in Slots(its) /\ Index(its2, b, s) = Index(its, a, s)
      BY <1>0, <1>5
    <3>2. CASE s[1] = i
      BY <1>0, <3>1, <3>2, <1>3
    <3>3. CASE s[1] # i
      <4>1. its2[s[1]] = its[s[1]]
        BY <1>0, <3>1, <3>3, <1>2, <1>7
      <4>2. Growing(its2, s) <=> Growing(its, s)
        BY <1>0, <4>1 DEF Growing
      <4>3. Index(its, a, s) \in a.open <=> Growing(its, s)
        BY <1>0, <3>1, <1>1 DEF Tracks
      <4> QED BY <3>1, <3>3, <4>2, <4>3 DEF Moves
    <3> QED BY <1>0, <3>2, <3>3
  <2>3. ASSUME NEW j \in DOMAIN its2, its2[j].kind = "function_call", its2[j].stage = "live"
        PROVE  j - 1 \in b.sent <=> its2[j].pieces[1] > 0
    <3>1. CASE j = i
      BY <3>1, <2>3, <1>2 DEF Moves
    <3>2. CASE j # i
      <4>1. its2[j] = its[j] /\ j \in DOMAIN its
        BY <1>0, <3>2, <1>2
      <4>2. j - 1 \in a.sent <=> its[j].pieces[1] > 0
        BY <1>0, <4>1, <2>3, <1>1 DEF Tracks
      <4>3. j - 1 \in Outputs /\ j - 1 # i - 1
        BY <1>0, <3>2, <4>1, <1>1, ItemFacts
      <4> QED BY <4>1, <4>2, <4>3 DEF Moves
    <3> QED BY <1>0, <3>1, <3>2
  <2>4. b.sawToolUse <=> \E j \in DOMAIN its2 : its2[j].kind = "function_call"
    BY <1>0, <1>1, <1>5 DEF Tracks
  <2>5. ASSUME NEW o \in b.sent PROVE o + 1 \in DOMAIN its2
    <3>1. o \in Outputs /\ i \in Nat
      BY <1>0, <1>1, AdapterFields, ItemFacts
    <3>2. CASE o = i - 1
      BY <3>1, <3>2, <1>0, <1>2
    <3>3. CASE o # i - 1
      <4>1. o \in a.sent
        BY <3>1, <3>3 DEF Moves
      <4> QED BY <4>1, <1>1, <1>2 DEF Tracks
    <3> QED BY <3>2, <3>3
  <2> QED BY <1>0, <2>1, <2>2, <2>3, <2>4, <2>5 DEF Tracks
<1>9. Matches(its2, b, n)
  BY <1>0, <1>2, <1>5, <1>6, <1>8 DEF Matches
<1>10. ASSUME NEW s \in Slots(its2)
       PROVE  /\ d.blocks[Index(its2, b, s) + 1].kind = Block(its2, s).kind
              /\ d.blocks[Index(its2, b, s) + 1].text = Block(its2, s).text
  <2>1. s \in Slots(its) /\ Index(its2, b, s) = Index(its, a, s)
    BY <1>0, <1>5
  <2>2. /\ c.blocks[Index(its, a, s) + 1].kind = Block(its, s).kind
        /\ c.blocks[Index(its, a, s) + 1].text = Block(its, s).text
    BY <1>0, <2>1 DEF Follows
  <2>3. CASE s[1] = i
    <3>1. Block(its2, s).kind = Block(its, s).kind
      BY <1>0, <2>3, <1>2 DEF Block
    <3>2. Block(its2, s).text = PiecesOf(i - 1, s[2] - 1, item.pieces[s[2]])
      BY <1>0, <2>3, <1>2 DEF Block
    <3> QED BY <2>1, <2>2, <2>3, <3>1, <3>2 DEF Moves
  <2>4. CASE s[1] # i
    <3>1. its2[s[1]] = its[s[1]]
      BY <1>0, <2>1, <2>4, <1>2, <1>7
    <3>2. Block(its2, s) = Block(its, s)
      BY <1>0, <3>1 DEF Block
    <3> QED BY <2>1, <2>2, <2>4, <3>2 DEF Moves
  <2> QED BY <1>0, <2>3, <2>4
<1>11. Follows(its2, b, d, w)
  BY <1>0, <1>10 DEF Follows, Synced
<1> QED BY <1>0, <1>9, <1>11 DEF its2

\* An item has one block open at most, and only while it is in progress.
LEMMA OneGrows ==
  ASSUME NEW its, ItemsOK(its), NEW s \in Slots(its), Growing(its, s)
  PROVE  /\ s[1] \in Busy(its)
         /\ its[s[1]].kind = "message" => its[s[1]].stage = "part"
         /\ \A t \in Slots(its) : Growing(its, t) /\ t[1] = s[1] => t = s
<1>1. \A t \in Slots(its) : /\ t[1] \in DOMAIN its /\ t[2] \in DOMAIN its[t[1]].pieces /\ t = <<t[1], t[2]>>
                            /\ its[t[1]].kind \in {"message", "function_call"}
  BY SlotFacts
<1>2. s[1] \in Busy(its) /\ (its[s[1]].kind = "message" => its[s[1]].stage = "part")
  BY <1>1 DEF Busy, Growing
<1>3. ASSUME NEW t \in Slots(its), Growing(its, t), t[1] = s[1] PROVE t = s
  <2>1. CASE its[s[1]].kind = "message"
    <3>1. t[2] = Len(its[s[1]].pieces) /\ s[2] = Len(its[s[1]].pieces)
      BY <1>3, <2>1 DEF Growing
    <3> QED BY <3>1, <1>1, <1>3
  <2>2. CASE its[s[1]].kind = "function_call"
    <3>1. KindOK(its[s[1]]) /\ DOMAIN its[s[1]].pieces = 1..Len(its[s[1]].pieces)
      BY <1>1, ItemFacts
    <3>4. Len(its[s[1]].pieces) = 1
      BY <2>2, <3>1 DEF KindOK
    <3>2. DOMAIN its[s[1]].pieces = {1}
      BY <3>1, <3>4
    <3>3. t[2] = 1 /\ s[2] = 1
      BY <1>1, <1>3, <3>2
    <3> QED BY <3>3, <1>1, <1>3
  <2> QED BY <2>1, <2>2, <1>1
<1> QED BY <1>2, <1>3

LEMMA OpenBlocksFew ==
  ASSUME NEW its, NEW a, NEW n, NEW c, Matches(its, a, n), a.terminal = "none", Synced(a, c),
         NEW B, Busy(its) \subseteq B \union {i \in DOMAIN its : \A s \in Slots(its) : s[1] = i => ~Growing(its, s)},
         IsFiniteSet(B)
  PROVE  Cardinality(OpenOf(c)) <= Cardinality(B)
<1> DEFINE O == OpenOf(c)
           at(k) == CHOOSE s \in Slots(its) : Index(its, a, s) = k - 1
           f == [k \in O |-> at(k)[1]]
<1>1. ItemsOK(its)
  BY DEF Matches
<1>2. ASSUME NEW k \in O PROVE at(k) \in Slots(its) /\ Index(its, a, at(k)) = k - 1 /\ Growing(its, at(k))
  <2>1. k - 1 \in a.open
    BY SyncedOpen
  <2>2. at(k) \in Slots(its) /\ Index(its, a, at(k)) = k - 1
    BY <2>1, PlaceFacts
  <2>3. \A s \in Slots(its) : Index(its, a, s) \in a.open => Growing(its, s)
    BY DEF Matches, Tracks
  <2> HIDE DEF at
  <2> QED BY <2>1, <2>2, <2>3
<1>3. \A k \in O : f[k] = at(k)[1]
  OBVIOUS
<1> HIDE DEF at
<1>4. ASSUME NEW k \in O PROVE f[k] \in B
  <2>1. at(k)[1] \in Busy(its) /\ at(k) \in Slots(its) /\ Growing(its, at(k))
    BY <1>1, <1>2, OneGrows
  <2>2. at(k)[1] \in B
    BY <2>1
  <2> QED BY <2>2, <1>3
<1>5. f \in [O -> B]
  BY <1>4
<1> HIDE DEF f
<1>6. ASSUME NEW k \in O, NEW l \in O, f[k] = f[l] PROVE k = l
  <2>1. at(k)[1] = at(l)[1]
    BY <1>3, <1>6
  <2>2. at(k) = at(l)
    BY <2>1, <1>1, <1>2, OneGrows
  <2>3. k - 1 = l - 1
    BY <2>2, <1>2
  <2>4. k \in Nat /\ l \in Nat
    <3>1. c \in ClientState
      BY DEF Synced
    <3>2. O \subseteq 1..Len(c.blocks) /\ Len(c.blocks) \in Nat
      BY <3>1, OpenFacts, ClientFacts
    <3> HIDE DEF O
    <3> QED BY <3>2
  <2> QED BY <2>3, <2>4
<1>7. f \in Injection(O, B)
  BY <1>5, <1>6 DEF Injection, IsInjective
<1> QED BY <1>7, FS_Injection

\* A new part: its block takes the next index.
OpensSlot(its, a, c, its2, s0, b, d, n) ==
  /\ ItemsOK(its2) /\ InTurn(its2, n) /\ Slots(its2) = Slots(its) \union {s0} /\ s0 \notin Slots(its)
  /\ b \in AdapterState /\ Known(its2, b) /\ b.next = a.next + 1 /\ b.terminal = "none" /\ b.started
  /\ b.open = a.open \union {a.next}
  /\ \A s \in Slots(its) :
       /\ Index(its2, b, s) = Index(its, a, s) /\ (Growing(its2, s) <=> Growing(its, s))
       /\ Block(its2, s) = Block(its, s)
  /\ Index(its2, b, s0) = a.next /\ Growing(its2, s0)
  /\ n = 1 => ~Precedes(s0, s0) /\ \A s \in Slots(its) : Precedes(s, s0) /\ ~Precedes(s0, s)
  /\ \A i \in DOMAIN its2 : its2[i].kind = "function_call" /\ its2[i].stage = "live" =>
       (i - 1 \in b.sent <=> its2[i].pieces[1] > 0)
  /\ \A o \in b.sent : o + 1 \in DOMAIN its2
  /\ b.sawToolUse <=> \E i \in DOMAIN its2 : its2[i].kind = "function_call"
  /\ Synced(b, d) /\ \A k \in 1..a.next : d.blocks[k] = c.blocks[k]
  /\ d.blocks[a.next + 1].kind = Block(its2, s0).kind /\ d.blocks[a.next + 1].text = Block(its2, s0).text

LEMMA SlotOpens ==
  ASSUME NEW its, NEW a, NEW n \in Nat, NEW c, NEW v, NEW w,
         Matches(its, a, n), a.terminal = "none", Follows(its, a, c, v),
         NEW its2, NEW s0, NEW b, NEW d, OpensSlot(its, a, c, its2, s0, b, d, n)
  PROVE  Matches(its2, b, n) /\ Follows(its2, b, d, w)
<1>0. OpensSlot(its, a, c, its2, s0, b, d, n)
  OBVIOUS
<1>1. /\ ItemsOK(its) /\ a \in AdapterState /\ a.next \in Nat
      /\ \A s \in Slots(its) : /\ Index(its, a, s) \in Nat /\ Index(its, a, s) < a.next
                               /\ Index(its, a, s) + 1 \in 1..a.next
      /\ \A s, t \in Slots(its) : s # t => Index(its, a, s) # Index(its, a, t)
  BY PlaceFacts
<1>2. a.open \subseteq 0..(a.next - 1) /\ \A s \in Slots(its) : Index(its, a, s) \in a.open <=> Growing(its, s)
  BY DEF Matches, Tracks, OpensSlot
<1>3. Placed(its2, b, n)
  <2>1. \A s \in Slots(its2) : Index(its2, b, s) \in 0..(b.next - 1)
    BY <1>1 DEF OpensSlot
  <2>2. \A s, t \in Slots(its2) : Index(its2, b, s) = Index(its2, b, t) => s = t
    <3> SUFFICES ASSUME NEW s \in Slots(its2), NEW t \in Slots(its2), Index(its2, b, s) = Index(its2, b, t), s # t
                 PROVE  FALSE
      OBVIOUS
    <3>1. CASE s = s0
      <4>1. t \in Slots(its)
        BY <3>1 DEF OpensSlot
      <4>2. Index(its2, b, t) < a.next /\ Index(its2, b, t) \in Nat
        BY <4>1, <1>1 DEF OpensSlot
      <4> QED BY <3>1, <4>2, <1>1 DEF OpensSlot
    <3>2. CASE t = s0
      <4>1. s \in Slots(its)
        BY <3>2 DEF OpensSlot
      <4>2. Index(its2, b, s) < a.next /\ Index(its2, b, s) \in Nat
        BY <4>1, <1>1 DEF OpensSlot
      <4> QED BY <3>2, <4>2, <1>1 DEF OpensSlot
    <3>3. CASE s # s0 /\ t # s0
      BY <3>3, <1>1 DEF OpensSlot
    <3> QED BY <3>1, <3>2, <3>3 DEF OpensSlot
  <2>3. ASSUME NEW j \in 0..(b.next - 1) PROVE \E s \in Slots(its2) : Index(its2, b, s) = j
    <3>1. CASE j = a.next
      BY <3>1 DEF OpensSlot
    <3>2. CASE j # a.next
      <4>1. j \in 0..(a.next - 1)
        BY <3>2, <1>1 DEF OpensSlot
      <4>2. \E s \in Slots(its) : Index(its, a, s) = j
        BY <4>1 DEF Matches, Placed, OpensSlot
      <4> QED BY <4>2 DEF OpensSlot
    <3> QED BY <3>1, <3>2 DEF OpensSlot
  <2>4. ASSUME n = 1, NEW s \in Slots(its2), NEW t \in Slots(its2), Precedes(s, t)
        PROVE  Index(its2, b, s) < Index(its2, b, t)
    <3>1. s # s0
      BY <2>4 DEF OpensSlot
    <3>2. CASE t = s0
      BY <3>1, <3>2, <1>1 DEF OpensSlot
    <3>3. CASE t # s0
      <4>1. Index(its, a, s) < Index(its, a, t)
        BY <2>4, <3>1, <3>3 DEF Matches, Placed, OpensSlot
      <4> QED BY <3>1, <3>3, <4>1 DEF OpensSlot
    <3> QED BY <3>2, <3>3 DEF OpensSlot
  <2> QED BY <2>1, <2>2, <2>3, <2>4 DEF Placed, OpensSlot
<1>4. Tracks(its2, b)
  <2>1. b.open \subseteq 0..(b.next - 1)
    BY <1>1, <1>2 DEF OpensSlot
  <2>2. ASSUME NEW s \in Slots(its2) PROVE Index(its2, b, s) \in b.open <=> Growing(its2, s)
    <3>1. CASE s = s0
      BY <3>1 DEF OpensSlot
    <3>2. CASE s # s0
      <4>1. Index(its, a, s) # a.next
        BY <3>2, <1>1 DEF OpensSlot
      <4> QED BY <3>2, <4>1, <1>2 DEF OpensSlot
    <3> QED BY <3>1, <3>2 DEF OpensSlot
  <2> QED BY <2>1, <2>2 DEF Tracks, OpensSlot
<1>5. Matches(its2, b, n)
  BY <1>3, <1>4 DEF Matches, OpensSlot
<1>6. ASSUME NEW s \in Slots(its2)
      PROVE  /\ d.blocks[Index(its2, b, s) + 1].kind = Block(its2, s).kind
             /\ d.blocks[Index(its2, b, s) + 1].text = Block(its2, s).text
  <2>1. CASE s = s0
    BY <2>1 DEF OpensSlot
  <2>2. CASE s # s0
    <3>1. d.blocks[Index(its, a, s) + 1] = c.blocks[Index(its, a, s) + 1]
      BY <2>2, <1>1 DEF OpensSlot
    <3>2. /\ c.blocks[Index(its, a, s) + 1].kind = Block(its, s).kind
          /\ c.blocks[Index(its, a, s) + 1].text = Block(its, s).text
      BY <2>2 DEF Follows, OpensSlot
    <3> QED BY <2>2, <3>1, <3>2 DEF OpensSlot
  <2> QED BY <2>1, <2>2 DEF OpensSlot
<1>7. Follows(its2, b, d, w)
  BY <1>6 DEF Follows, Synced, OpensSlot
<1> QED BY <1>5, <1>7 DEF OpensSlot

-----------------------------------------------------------------------------
\* What the adapter makes of each event, before the verdict.

Answered(its2, t, c, n) ==
  /\ Matches(its2, t.ad, n) /\ t.ad.terminal = "none"
  /\ \E d : Reads(c, t.frames, d, n) /\ Follows(its2, t.ad, d, "none")

LEMMA CreatedAnswered ==
  ASSUME NEW its, NEW a, NEW n \in Nat, NEW c, Matches(its, a, n), a.terminal = "none",
         Follows(its, a, c, "none"), NEW x \in {"usage", "none"}
  PROVE  Answered(its, OnEvent(a, Event("created", 0, 0, x)), c, n)
<1> DEFINE b == [a EXCEPT !.started = TRUE, !.usage = IF x = "usage" THEN "created" ELSE @]
           t == OnEvent(a, Event("created", 0, 0, x))
<1>1. t.ad = b /\ t.frames = StartMessage(a)
  BY DEF OnEvent, Event, Out, Succeeding
<1>2. /\ b \in AdapterState /\ b.text = a.text /\ b.tool = a.tool /\ b.next = a.next /\ b.open = a.open
      /\ b.sent = a.sent /\ b.started = TRUE /\ b.terminal = "none" /\ b.sawToolUse = a.sawToolUse
  BY DEF AdapterState, Matches
<1> HIDE DEF b, t
<1>3. ItemsOK(its) /\ SameSlots(its, its)
  BY ItemFacts DEF Matches, SameSlots
<1>4. /\ \A s \in Slots(its) : Index(its, b, s) = Index(its, a, s)
      /\ Known(its, b) /\ Placed(its, b, n)
  BY <1>2, <1>3, KeepSlots DEF Matches
<1>5. Matches(its, b, n)
  BY <1>2, <1>4 DEF Matches, Tracks
<1>6. Synced(a, c) /\ c \in ClientState /\ a.started \in BOOLEAN /\ c.phase = (IF a.started THEN "started" ELSE "new")
  BY FollowsSynced, AdapterFields DEF Synced
<1>7. PICK d \in ClientState :
           /\ Reads(c, StartMessage(a), d, n)
           /\ d.phase = "started" /\ d.blocks = c.blocks /\ d.ending = c.ending
  <2>1. c \in ClientState /\ a.started \in BOOLEAN /\ c.phase = (IF a.started THEN "started" ELSE "new")
    BY <1>6
  <2> QED BY ONLY <2>1, ReadsStartMessage
<1>8. OpenOf(d) = OpenOf(c)
  BY <1>7 DEF OpenOf
<1>9. Follows(its, b, d, "none")
  BY <1>2, <1>4, <1>7, <1>8 DEF Follows
<1> QED BY <1>1, <1>2, <1>5, <1>7, <1>9 DEF Answered, t

LEMMA MoreBusy ==
  ASSUME NEW its, ItemsOK(its), NEW n \in Nat, Cardinality(Busy(its)) < n, Len(its) < MaxItems,
         NEW item \in Item, KindOK(item)
  PROVE  InTurn(Append(its, item), n)
<1> DEFINE its2 == Append(its, item)
           l == Len(its) + 1
<1>1. /\ ItemsOK(its2) /\ Len(its2) = l /\ DOMAIN its2 = DOMAIN its \union {l} /\ l \notin DOMAIN its
      /\ its2[l] = item /\ \A j \in DOMAIN its : its2[j] = its[j]
  BY ItemsGrow
<1> HIDE DEF its2, l
<1>2. IsFiniteSet(Busy(its)) /\ Cardinality(Busy(its)) \in Nat
  BY BusyFacts
<1>3. Busy(its2) \subseteq Busy(its) \union {l}
  BY <1>1 DEF Busy
<1>4. IsFiniteSet(Busy(its) \union {l}) /\ Cardinality(Busy(its) \union {l}) <= Cardinality(Busy(its)) + 1
      /\ Cardinality(Busy(its) \union {l}) \in Nat
  <2>1. /\ IsFiniteSet(Busy(its) \union {l})
        /\ Cardinality(Busy(its) \union {l}) =
             IF l \in Busy(its) THEN Cardinality(Busy(its)) ELSE Cardinality(Busy(its)) + 1
    BY <1>2, FS_AddElement
  <2> QED BY <2>1, <1>2
<1>5. Cardinality(Busy(its2)) <= Cardinality(Busy(its) \union {l}) /\ Cardinality(Busy(its2)) \in Nat
  BY <1>1, <1>3, <1>4, FS_Subset, BusyFacts
<1>6. n = 1 => \A i \in Busy(its2) : i = Len(its2)
  <2>1. n = 1 => Cardinality(Busy(its)) = 0
    BY <1>2
  <2>2. n = 1 => Busy(its) = {}
    BY <2>1, <1>2, FS_EmptySet
  <2> QED BY <2>2, <1>1, <1>3
<1>7. Cardinality(Busy(its2)) <= n
  BY <1>2, <1>4, <1>5
<1> QED BY <1>6, <1>7 DEF InTurn, its2

LEMMA AddQuietAnswered ==
  ASSUME NEW its, NEW a, NEW n \in Nat, NEW c, Matches(its, a, n), a.terminal = "none",
         Follows(its, a, c, "none"), NEW kind \in {"message", "reasoning"},
         Cardinality(Busy(its)) < n, Len(its) < MaxItems
  PROVE  Answered(Append(its, [kind |-> kind, stage |-> "live", pieces |-> <<>>]),
                  OnEvent(a, Event("item.added", Len(its), 0, kind)), c, n)
<1> DEFINE item == [kind |-> kind, stage |-> "live", pieces |-> <<>>]
           its2 == Append(its, item)
           l == Len(its) + 1
           t == OnEvent(a, Event("item.added", Len(its), 0, kind))
<1>1. t.ad = a /\ t.frames = <<>>
  BY DEF OnEvent, Event, Out, Succeeding
<1>2. item \in Item /\ KindOK(item) /\ item.kind = kind /\ Len(item.pieces) = 0
  <2>0. MaxParts \in Nat
    BY AdapterAssumption
  <2>1. <<>> \in Seq(0..MaxPieces) /\ Len(<<>>) = 0
    BY EmptyFacts
  <2>2. item \in Item
    BY <2>1 DEF Item
  <2>3. KindOK(item)
    BY <2>0, <2>1 DEF KindOK
  <2> QED BY <2>1, <2>2, <2>3
<1>3. ItemsOK(its) /\ Synced(a, c)
  BY FollowsSynced DEF Matches
<1> HIDE DEF item
<1>4. /\ ItemsOK(its2) /\ Len(its2) = l /\ DOMAIN its2 = DOMAIN its \union {l} /\ l \notin DOMAIN its
      /\ its2[l] = item /\ \A j \in DOMAIN its : its2[j] = its[j]
  BY <1>2, <1>3, ItemsGrow
<1>5. InTurn(its2, n)
  BY <1>2, <1>3, MoreBusy
<1> HIDE DEF its2, t
<1>6. SameSlots(its, its2)
  <2>1. Len(its) <= Len(its2)
    BY <1>3, <1>4, ItemFacts
  <2> HIDE DEF l
  <2> QED BY <2>1, <1>2, <1>4 DEF SameSlots
<1>7. /\ Slots(its2) = Slots(its)
      /\ \A s \in Slots(its) : Index(its2, a, s) = Index(its, a, s)
      /\ Known(its2, a) /\ Placed(its2, a, n)
      /\ (\E i \in DOMAIN its : its[i].kind = "function_call")
           <=> (\E i \in DOMAIN its2 : its2[i].kind = "function_call")
  BY <1>3, <1>4, <1>6, KeepSlots DEF Matches
<1>8. \A s \in Slots(its) : its2[s[1]] = its[s[1]]
  BY <1>3, <1>4, SlotFacts
<1>9. \A s \in Slots(its) : (Growing(its2, s) <=> Growing(its, s)) /\ Block(its2, s) = Block(its, s)
  BY <1>8 DEF Growing, Block
<1>10. Tracks(its2, a)
  <2>1. item.kind # "function_call"
    BY <1>2
  <2>2. Tracks(its, a)
    BY DEF Matches
  <2> HIDE DEF l
  <2> QED BY <2>1, <2>2, <1>4, <1>7, <1>9 DEF Tracks
<1>11. Matches(its2, a, n)
  BY <1>4, <1>5, <1>7, <1>10 DEF Matches
<1>12. Follows(its2, a, c, "none")
  BY <1>7, <1>9 DEF Follows
<1>13. Reads(c, <<>>, c, n)
  BY <1>3, ReadsNone DEF Synced
<1> QED BY <1>1, <1>11, <1>12, <1>13 DEF Answered, t, its2, item

LEMMA SayTextAnswered ==
  ASSUME NEW its, NEW a, NEW n \in Nat, NEW c, Matches(its, a, n), a.terminal = "none",
         Follows(its, a, c, "none"),
         NEW i \in DOMAIN its, its[i].kind = "message", its[i].stage = "part",
         NEW l, l = Len(its[i].pieces), NEW k, k = its[i].pieces[l] + 1, k <= MaxPieces
  PROVE  Answered([its EXCEPT ![i] = [its[i] EXCEPT !.pieces[l] = k]],
                  OnEvent(a, Event("text.delta", i - 1, l - 1, <<<<i - 1, l - 1, k>>>>)), c, n)
<1> DEFINE item == [its[i] EXCEPT !.pieces[l] = k]
           x == <<<<i - 1, l - 1, k>>>>
           t == OnEvent(a, Event("text.delta", i - 1, l - 1, x))
           s0 == <<i, l>>
           j == a.text[<<i - 1, l - 1>>]
<1>0. MaxPieces \in Nat
  BY AdapterAssumption
<1>1. ItemsOK(its) /\ Synced(a, c) /\ Known(its, a) /\ Tracks(its, a)
  BY FollowsSynced DEF Matches
<1>2. /\ its[i] \in Item /\ KindOK(its[i]) /\ i - 1 \in Outputs /\ i \in 1..MaxItems
      /\ its[i].pieces \in Seq(0..MaxPieces) /\ DOMAIN its[i].pieces = 1..Len(its[i].pieces)
      /\ Len(its[i].pieces) \in Nat /\ Len(its[i].pieces) <= MaxParts
  BY <1>1, ItemFacts
<1>3. its[i].pieces # <<>>
  BY <1>2 DEF KindOK
<1>4. l \in 1..MaxParts /\ l \in DOMAIN its[i].pieces /\ l - 1 \in Parts
  <2>1. l \in Nat /\ l # 0 /\ l <= MaxParts
    BY <1>2, <1>3, EmptyFacts
  <2>2. MaxParts \in Nat
    BY AdapterAssumption
  <2> QED BY <1>2, <2>1, <2>2 DEF Parts
<1>5. its[i].pieces[l] \in 0..MaxPieces
  BY <1>2, <1>4, SeqElement
<1>6. k \in 0..MaxPieces /\ k \in 1..MaxPieces /\ k - 1 = its[i].pieces[l] /\ k - 1 \in 0..(MaxPieces - 1)
      /\ (k - 1) + 1 = k
  BY <1>0, <1>5
<1>7. /\ item \in Item /\ item.kind = "message" /\ item.stage = "part" /\ Len(item.pieces) = l
      /\ item.pieces = [its[i].pieces EXCEPT ![l] = k]
      /\ item.pieces[l] = k /\ \A p \in DOMAIN its[i].pieces : p # l => item.pieces[p] = its[i].pieces[p]
      /\ item.pieces # <<>>
  <2>1. \A it \in Item, q \in Seq(0..MaxPieces) :
          /\ [it EXCEPT !.pieces = q] \in Item /\ [it EXCEPT !.pieces = q].pieces = q
          /\ [it EXCEPT !.pieces = q].kind = it.kind /\ [it EXCEPT !.pieces = q].stage = it.stage
    BY DEF Item
  <2> DEFINE q == [its[i].pieces EXCEPT ![l] = k]
  <2>2. /\ q \in Seq(0..MaxPieces) /\ Len(q) = l /\ q[l] = k
        /\ \A p \in DOMAIN its[i].pieces : p # l => q[p] = its[i].pieces[p]
    BY <1>2, <1>4, <1>6
  <2>3. item = [its[i] EXCEPT !.pieces = q]
    OBVIOUS
  <2> HIDE DEF q, item
  <2>4. /\ item \in Item /\ item.pieces = q /\ item.kind = "message" /\ item.stage = "part"
    BY <2>1, <2>2, <2>3, <1>2
  <2>5. q # <<>>
    BY <2>2, <1>4, EmptyFacts
  <2> QED BY <2>2, <2>4, <2>5 DEF q
<1> HIDE DEF item
<1>8. KindOK(item)
  BY <1>4, <1>7 DEF KindOK
<1>9. s0 \in Slots(its) /\ s0[1] = i /\ s0[2] = l /\ \A s \in Slots(its) : s = <<s[1], s[2]>> /\ s[2] \in DOMAIN its[s[1]].pieces
  BY <1>1, <1>4, SlotFacts
<1>10. Index(its, a, s0) = j
  BY <1>9 DEF Index
<1>11. j \in a.open /\ j # None
  <2>1. Growing(its, s0)
    BY <1>9 DEF Growing
  <2>2. j \in a.open
    BY <2>1, <1>1, <1>9, <1>10 DEF Tracks
  <2>3. j # None
    <3>1. l <= Len(its[i].pieces)
      BY <1>2
    <3> HIDE DEF j
    <3> QED BY <3>1, <1>1, <1>2, <1>4 DEF Known, j
  <2> QED BY <2>2, <2>3
<1>12. t.ad = a /\ t.frames = <<Frame("content_block_delta", j, x)>>
  <2>1. t = TextDelta(a, Event("text.delta", i - 1, l - 1, x))
    BY DEF OnEvent, Event, Succeeding
  <2>2. OpenTextBlock(a, i - 1, l - 1) = Out(a, <<>>)
    BY <1>11 DEF OpenTextBlock
  <2> HIDE DEF x
  <2>3. t = Out(a, Append(<<>>, Frame("content_block_delta", j, x)))
    <3> HIDE DEF t
    <3> QED BY <2>1, <2>2 DEF TextDelta, Out, Event
  <2>4. Append(<<>>, Frame("content_block_delta", j, x)) = <<Frame("content_block_delta", j, x)>>
    BY DEF Frame
  <2> QED BY <2>3, <2>4 DEF Out
<1>13. x \in Texts
  <2>1. <<i - 1, l - 1, k>> \in Piece
    BY <1>2, <1>4, <1>6 DEF Piece
  <2> QED BY <2>1 DEF Texts
<1> HIDE DEF x, j, t
<1>14. PICK d : /\ Reads(c, <<Frame("content_block_delta", j, x)>>, d, n)
                /\ Synced(a, d) /\ TextAdded(c, d, a.next, j, x)
  <2>1. Synced(a, c) /\ j \in a.open /\ x \in Texts
    BY <1>1, <1>11, <1>13
  <2> QED BY ONLY <2>1, Saying
<1>15. PlacesApart(its, a)
  BY PlaceFacts DEF PlacesApart
<1> HIDE DEF s0
<1>16. ASSUME NEW s \in Slots(its), s # s0
       PROVE  d.blocks[Index(its, a, s) + 1] = c.blocks[Index(its, a, s) + 1]
  BY <1>9, <1>10, <1>14, <1>15, <1>16 DEF PlacesApart, TextAdded
<1>17. ASSUME NEW s \in Slots(its), s[1] = i
       PROVE  /\ d.blocks[Index(its, a, s) + 1].kind = c.blocks[Index(its, a, s) + 1].kind
              /\ d.blocks[Index(its, a, s) + 1].text = PiecesOf(i - 1, s[2] - 1, item.pieces[s[2]])
  <2>1. c.blocks[Index(its, a, s) + 1].text = PiecesOf(i - 1, s[2] - 1, its[i].pieces[s[2]])
    BY <1>17 DEF Follows, Block
  <2>2. CASE s = s0
    <3>1. PiecesOf(i - 1, l - 1, (k - 1) + 1) = PiecesOf(i - 1, l - 1, k - 1) \o <<<<i - 1, l - 1, (k - 1) + 1>>>>
      BY <1>2, <1>4, <1>6, PieceSeqs
    <3>2. PiecesOf(i - 1, l - 1, k) = PiecesOf(i - 1, l - 1, its[i].pieces[l]) \o x
      BY <3>1, <1>6 DEF x
    <3>3. Index(its, a, s) = j /\ s[2] = l
      BY <2>2, <1>9, <1>10
    <3>4. d.blocks[j + 1].text = PiecesOf(i - 1, l - 1, k)
      BY <2>1, <3>2, <3>3, <1>14 DEF TextAdded
    <3> QED BY <3>3, <3>4, <1>7, <1>14 DEF TextAdded
  <2>3. CASE s # s0
    <3>1. s[2] # l /\ s[2] \in DOMAIN its[i].pieces
      BY <2>3, <1>9, <1>17 DEF s0
    <3> QED BY <2>1, <2>3, <3>1, <1>7, <1>16
  <2> QED BY <2>2, <2>3
<1>18. ASSUME NEW s \in Slots(its), s[1] # i
       PROVE  /\ d.blocks[Index(its, a, s) + 1].kind = c.blocks[Index(its, a, s) + 1].kind
              /\ d.blocks[Index(its, a, s) + 1].text = c.blocks[Index(its, a, s) + 1].text
  BY <1>9, <1>16, <1>18
<1>19. ASSUME NEW s \in Slots(its), s[1] = i
       PROVE  Index(its, a, s) \in a.open <=> Growing([its EXCEPT ![i] = item], s)
  <2>1. [its EXCEPT ![i] = item][i] = item
    OBVIOUS
  <2>2. Growing(its, s) <=> Growing([its EXCEPT ![i] = item], s)
    BY <2>1, <1>7, <1>19 DEF Growing
  <2> QED BY <2>2, <1>1 DEF Tracks
<1>20. a \in AdapterState
  BY <1>1 DEF Synced
<1>21. Moves(its, a, c, i, item, a, d)
  <2>1. item.kind = its[i].kind /\ Len(item.pieces) = Len(its[i].pieces)
    BY <1>7
  <2> QED BY <2>1, <1>7, <1>8, <1>14, <1>17, <1>18, <1>19, <1>20 DEF Moves
<1>22. /\ Matches([its EXCEPT ![i] = item], a, n)
       /\ Follows([its EXCEPT ![i] = item], a, d, "none")
  BY <1>21, ItemMoves
<1> QED BY <1>12, <1>14, <1>22 DEF Answered, item, t, x

\* The block of a call whose arguments are not complete.
LEMMA CallFacts ==
  ASSUME NEW its, NEW a, NEW n, Matches(its, a, n), a.terminal = "none",
         NEW i \in DOMAIN its, its[i].kind = "function_call"
  PROVE  /\ i - 1 \in Outputs /\ 0 \in Parts /\ Len(its[i].pieces) = 1 /\ DOMAIN its[i].pieces = {1}
         /\ its[i].pieces[1] \in 0..MaxPieces
         /\ <<i, 1>> \in Slots(its) /\ \A s \in Slots(its) : s[1] = i => s = <<i, 1>> /\ s[2] = 1
         /\ Index(its, a, <<i, 1>>) = a.tool[i - 1] /\ a.tool[i - 1] # None /\ a.tool[i - 1] \in Nat
         /\ a.tool[i - 1] \in a.open <=> its[i].stage = "live"
<1>1. ItemsOK(its) /\ Known(its, a) /\ Tracks(its, a) /\ a \in AdapterState
  BY DEF Matches
<1>2. /\ KindOK(its[i]) /\ i - 1 \in Outputs /\ i \in 1..MaxItems /\ its[i].pieces \in Seq(0..MaxPieces)
      /\ DOMAIN its[i].pieces = 1..Len(its[i].pieces)
  BY <1>1, ItemFacts
<1>3. Len(its[i].pieces) = 1
  BY <1>2 DEF KindOK
<1>4. DOMAIN its[i].pieces = {1} /\ 1 \in DOMAIN its[i].pieces
  BY <1>2, <1>3
<1>5. its[i].pieces[1] \in 0..MaxPieces
  BY <1>2, <1>4, SeqElement
<1>6. <<i, 1>> \in Slots(its)
  BY <1>1, <1>4, SlotFacts
<1>7. \A s \in Slots(its) : s[1] = i => s = <<i, 1>> /\ s[2] = 1
  BY <1>1, <1>4, SlotFacts
<1>8. Index(its, a, <<i, 1>>) = a.tool[i - 1]
  BY DEF Index
<1>9. a.tool[i - 1] # None /\ a.tool[i - 1] \in Nat
  BY <1>1, <1>2, AdapterFields DEF Known
<1>10. Growing(its, <<i, 1>>) <=> its[i].stage = "live"
  BY DEF Growing
<1>11. a.tool[i - 1] \in a.open <=> its[i].stage = "live"
  BY <1>1, <1>6, <1>8, <1>10 DEF Tracks
<1>12. 0 \in Parts
  BY AdapterAssumption DEF Parts
<1> QED BY <1>2, <1>3, <1>4, <1>5, <1>6, <1>7, <1>8, <1>9, <1>11, <1>12

\* An item of the same kind and as many parts.
LEMMA StageUpdated ==
  ASSUME NEW it \in Item, NEW stage \in {"live", "part", "said", "done"}
  PROVE  /\ [it EXCEPT !.stage = stage] \in Item /\ [it EXCEPT !.stage = stage].kind = it.kind
         /\ [it EXCEPT !.stage = stage].pieces = it.pieces /\ [it EXCEPT !.stage = stage].stage = stage
BY DEF Item

LEMMA PiecesUpdated ==
  ASSUME NEW it \in Item, NEW q \in Seq(0..MaxPieces)
  PROVE  /\ [it EXCEPT !.pieces = q] \in Item /\ [it EXCEPT !.pieces = q].pieces = q
         /\ [it EXCEPT !.pieces = q].kind = it.kind /\ [it EXCEPT !.pieces = q].stage = it.stage
BY DEF Item

LEMMA SayArgumentsAnswered ==
  ASSUME NEW its, NEW a, NEW n \in Nat, NEW c, Matches(its, a, n), a.terminal = "none",
         Follows(its, a, c, "none"),
         NEW i \in DOMAIN its, its[i].kind = "function_call", its[i].stage = "live",
         NEW k, k = its[i].pieces[1] + 1, k <= MaxPieces
  PROVE  Answered([its EXCEPT ![i] = [its[i] EXCEPT !.pieces[1] = k]],
                  OnEvent(a, Event("arguments.delta", i - 1, 0, <<<<i - 1, 0, k>>>>)), c, n)
<1> DEFINE item == [its[i] EXCEPT !.pieces[1] = k]
           x == <<<<i - 1, 0, k>>>>
           t == OnEvent(a, Event("arguments.delta", i - 1, 0, x))
           j == a.tool[i - 1]
           b == [a EXCEPT !.sent = @ \union {i - 1}]
<1>0. MaxPieces \in Nat
  BY AdapterAssumption
<1>1. ItemsOK(its) /\ Synced(a, c) /\ Known(its, a) /\ Tracks(its, a)
  BY FollowsSynced DEF Matches
<1>2. /\ its[i] \in Item /\ KindOK(its[i]) /\ i - 1 \in Outputs /\ i \in 1..MaxItems
      /\ its[i].pieces \in Seq(0..MaxPieces)
  BY <1>1, ItemFacts
<1>3. /\ 0 \in Parts /\ Len(its[i].pieces) = 1 /\ DOMAIN its[i].pieces = {1}
      /\ its[i].pieces[1] \in 0..MaxPieces
      /\ <<i, 1>> \in Slots(its) /\ \A s \in Slots(its) : s[1] = i => s = <<i, 1>> /\ s[2] = 1
      /\ Index(its, a, <<i, 1>>) = j /\ j # None /\ j \in Nat /\ j \in a.open
  BY CallFacts
<1>4. k \in 0..MaxPieces /\ k \in 1..MaxPieces /\ k - 1 = its[i].pieces[1] /\ k - 1 \in 0..(MaxPieces - 1)
      /\ (k - 1) + 1 = k /\ k > 0
  BY <1>0, <1>3
<1>5. /\ item \in Item /\ item.kind = "function_call" /\ item.stage = "live" /\ Len(item.pieces) = 1
      /\ item.pieces[1] = k
  <2> DEFINE q == [its[i].pieces EXCEPT ![1] = k]
  <2>2. q \in Seq(0..MaxPieces) /\ Len(q) = 1 /\ q[1] = k
    BY <1>2, <1>3, <1>4
  <2>3. item = [its[i] EXCEPT !.pieces = q]
    OBVIOUS
  <2> HIDE DEF q, item
  <2>4. /\ item \in Item /\ item.pieces = q /\ item.kind = "function_call" /\ item.stage = "live"
    BY <2>2, <2>3, <1>2, PiecesUpdated
  <2> QED BY <2>2, <2>4
<1> HIDE DEF item
<1>6. KindOK(item)
  BY <1>5 DEF KindOK
<1>7. t.ad = b /\ t.frames = <<Frame("content_block_delta", j, x)>>
  <2>1. t = ArgumentsDelta(a, Event("arguments.delta", i - 1, 0, x))
    BY DEF OnEvent, Event, Succeeding
  <2> HIDE DEF t, x
  <2> QED BY <2>1, <1>3 DEF ArgumentsDelta, Out, Event
<1>8. x \in Texts
  <2>1. <<i - 1, 0, k>> \in Piece
    BY <1>2, <1>3, <1>4 DEF Piece
  <2> QED BY <2>1 DEF Texts
<1>9. /\ b \in AdapterState /\ b.text = a.text /\ b.tool = a.tool /\ b.next = a.next /\ b.started = a.started
      /\ b.sawToolUse = a.sawToolUse /\ b.terminal = "none" /\ b.open = a.open
      /\ b.sent = a.sent \union {i - 1}
  BY <1>1, <1>2 DEF AdapterState, Synced
<1> HIDE DEF x, j, t, b
<1>10. PICK d : /\ Reads(c, <<Frame("content_block_delta", j, x)>>, d, n)
                /\ Synced(a, d) /\ TextAdded(c, d, a.next, j, x)
  <2>1. Synced(a, c) /\ j \in a.open /\ x \in Texts
    BY <1>1, <1>3, <1>8
  <2> QED BY ONLY <2>1, Saying
<1>11. Synced(b, d)
  BY <1>9, <1>10 DEF Synced
<1>12. PlacesApart(its, a)
  BY PlaceFacts DEF PlacesApart
<1>13. ASSUME NEW s \in Slots(its), s[1] # i
       PROVE  d.blocks[Index(its, a, s) + 1] = c.blocks[Index(its, a, s) + 1]
  <2>1. s # <<i, 1>>
    BY <1>13
  <2> QED BY <2>1, <1>3, <1>10, <1>12 DEF PlacesApart, TextAdded
<1>14. ASSUME NEW s \in Slots(its), s[1] = i
       PROVE  /\ d.blocks[Index(its, a, s) + 1].kind = c.blocks[Index(its, a, s) + 1].kind
              /\ d.blocks[Index(its, a, s) + 1].text = PiecesOf(i - 1, s[2] - 1, item.pieces[s[2]])
  <2>1. Index(its, a, s) = j /\ s[2] = 1 /\ s[2] - 1 = 0
    BY <1>3, <1>14
  <2>2. c.blocks[j + 1].text = PiecesOf(i - 1, 0, its[i].pieces[1])
    BY <1>14, <2>1 DEF Follows, Block
  <2>3. PiecesOf(i - 1, 0, (k - 1) + 1) = PiecesOf(i - 1, 0, k - 1) \o <<<<i - 1, 0, (k - 1) + 1>>>>
    BY <1>2, <1>3, <1>4, PieceSeqs
  <2>4. PiecesOf(i - 1, 0, k) = PiecesOf(i - 1, 0, its[i].pieces[1]) \o x
    BY <2>3, <1>4 DEF x
  <2>5. d.blocks[j + 1].text = PiecesOf(i - 1, 0, k)
    BY <2>2, <2>4, <1>10 DEF TextAdded
  <2> QED BY <2>1, <2>5, <1>5, <1>10 DEF TextAdded
<1>15. ASSUME NEW s \in Slots(its), s[1] = i
       PROVE  Index(its, a, s) \in b.open <=> Growing([its EXCEPT ![i] = item], s)
  <2>1. [its EXCEPT ![i] = item][i] = item
    OBVIOUS
  <2>2. Growing([its EXCEPT ![i] = item], s)
    BY <2>1, <1>5, <1>15 DEF Growing
  <2> QED BY <2>2, <1>3, <1>9, <1>15
<1>16. Moves(its, a, c, i, item, b, d)
  <2>1. item.kind = its[i].kind /\ Len(item.pieces) = Len(its[i].pieces)
    BY <1>3, <1>5
  <2> QED BY <2>1, <1>4, <1>5, <1>6, <1>9, <1>11, <1>13, <1>14, <1>15 DEF Moves
<1>17. /\ Matches([its EXCEPT ![i] = item], b, n)
       /\ Follows([its EXCEPT ![i] = item], b, d, "none")
  BY <1>16, ItemMoves
<1> QED BY <1>7, <1>9, <1>10, <1>17 DEF Answered, item, t, x

\* Closing the blocks of an item that does not grow any more.
LEMMA ClosingMoves ==
  ASSUME NEW its, NEW a, NEW n \in Nat, NEW c, Matches(its, a, n), a.terminal = "none",
         Follows(its, a, c, "none"),
         NEW i \in DOMAIN its, its[i].stage # "done", NEW item \in Item, KindOK(item), item.kind = its[i].kind,
         Len(item.pieces) = Len(its[i].pieces), item.stage \in {"live", "said", "done"},
         item.kind = "function_call" => item.stage # "live",
         NEW S, \A s \in Slots(its) : s[1] # i => Index(its, a, s) \notin S,
         \A s \in Slots(its) : s[1] = i /\ Growing(its, s) => Index(its, a, s) \in S,
         NEW d, Synced(Close(a, S).ad, d),
         \A s \in Slots(its) :
           /\ d.blocks[Index(its, a, s) + 1].kind = c.blocks[Index(its, a, s) + 1].kind
           /\ s[1] # i => d.blocks[Index(its, a, s) + 1].text = c.blocks[Index(its, a, s) + 1].text
           /\ s[1] = i => d.blocks[Index(its, a, s) + 1].text = PiecesOf(i - 1, s[2] - 1, item.pieces[s[2]])
  PROVE  /\ Matches([its EXCEPT ![i] = item], Close(a, S).ad, n)
         /\ Follows([its EXCEPT ![i] = item], Close(a, S).ad, d, "none")
         /\ Close(a, S).ad.terminal = "none"
<1> DEFINE b == Close(a, S).ad
<1>1. ItemsOK(its) /\ Tracks(its, a) /\ a \in AdapterState
  BY DEF Matches
<1>2. /\ b \in AdapterState /\ b.text = a.text /\ b.tool = a.tool /\ b.next = a.next /\ b.started = a.started
      /\ b.sawToolUse = a.sawToolUse /\ b.terminal = "none" /\ b.open = a.open \ S /\ b.sent = a.sent
  BY <1>1 DEF AdapterState, Close, Out
<1> HIDE DEF b
<1>3. \A s \in Slots(its) : s[1] # i => (Index(its, a, s) \in b.open <=> Index(its, a, s) \in a.open)
  BY <1>2
<1>4. ASSUME NEW s \in Slots(its), s[1] = i
      PROVE  Index(its, a, s) \in b.open <=> Growing([its EXCEPT ![i] = item], s)
  <2>1. [its EXCEPT ![i] = item][i] = item
    OBVIOUS
  <2>2. ~Growing([its EXCEPT ![i] = item], s)
    <3>1. its[i].kind \in {"message", "function_call"}
      BY <1>1, <1>4, SlotFacts
    <3> QED BY <2>1, <3>1, <1>4 DEF Growing
  <2>3. Index(its, a, s) \in a.open => Index(its, a, s) \in S
    BY <1>1, <1>4 DEF Tracks
  <2> QED BY <2>2, <2>3, <1>2
<1>5. Moves(its, a, c, i, item, b, d)
  BY <1>2, <1>3, <1>4 DEF Moves, b
<1>6. Matches([its EXCEPT ![i] = item], b, n) /\ Follows([its EXCEPT ![i] = item], b, d, "none")
  BY <1>5, ItemMoves
<1> QED BY <1>2, <1>6 DEF b

LEMMA PartFacts ==
  ASSUME NEW its, NEW a, NEW n, Matches(its, a, n), a.terminal = "none",
         NEW i \in DOMAIN its, its[i].kind = "message", NEW l \in DOMAIN its[i].pieces
  PROVE  /\ <<i, l>> \in Slots(its) /\ i - 1 \in Outputs /\ l - 1 \in Parts
         /\ Index(its, a, <<i, l>>) = a.text[<<i - 1, l - 1>>]
         /\ a.text[<<i - 1, l - 1>>] # None /\ a.text[<<i - 1, l - 1>>] \in Nat
<1>1. ItemsOK(its) /\ Known(its, a) /\ a \in AdapterState
  BY DEF Matches
<1>2. <<i, l>> \in Slots(its) /\ <<i, l>>[1] = i /\ <<i, l>>[2] = l
  BY <1>1, SlotFacts
<1>3. i \in 1..MaxItems /\ l \in 1..MaxParts /\ i - 1 \in Outputs /\ l - 1 \in Parts
  BY <1>1, <1>2, SlotFacts
<1>4. Index(its, a, <<i, l>>) = a.text[<<i - 1, l - 1>>]
  BY DEF Index
<1>5. l <= Len(its[i].pieces)
  BY <1>1, ItemFacts
<1>6. a.text[<<i - 1, l - 1>>] # None
  BY <1>1, <1>3, <1>5 DEF Known
<1>7. a.text[<<i - 1, l - 1>>] \in Nat
  <2>1. a.text \in [Outputs \X Parts -> Nat \union {None}] /\ <<i - 1, l - 1>> \in Outputs \X Parts
    BY <1>1, <1>3, AdapterFields
  <2> QED BY <2>1, <1>6
<1> QED BY <1>2, <1>3, <1>4, <1>6, <1>7

LEMMA PartDoneAnswered ==
  ASSUME NEW its, NEW a, NEW n \in Nat, NEW c, Matches(its, a, n), a.terminal = "none",
         Follows(its, a, c, "none"),
         NEW i \in DOMAIN its, its[i].kind = "message", its[i].stage = "part"
  PROVE  Answered([its EXCEPT ![i] = [its[i] EXCEPT !.stage = "live"]],
                  OnEvent(a, Event("part.done", i - 1, Len(its[i].pieces) - 1, <<>>)), c, n)
<1> DEFINE item == [its[i] EXCEPT !.stage = "live"]
           l == Len(its[i].pieces)
           S == {a.text[<<i - 1, l - 1>>]}
           t == OnEvent(a, Event("part.done", i - 1, l - 1, <<>>))
<1>1. ItemsOK(its) /\ Synced(a, c) /\ Tracks(its, a)
  BY FollowsSynced DEF Matches
<1>2. /\ its[i] \in Item /\ KindOK(its[i]) /\ its[i].pieces \in Seq(0..MaxPieces)
      /\ DOMAIN its[i].pieces = 1..l /\ l \in Nat
  BY <1>1, ItemFacts
<1>3. its[i].pieces # <<>>
  BY <1>2 DEF KindOK
<1>4. l \in DOMAIN its[i].pieces
  <2>1. l # 0
    BY <1>2, <1>3, EmptyFacts
  <2> QED BY <2>1, <1>2
<1>5. /\ item \in Item /\ item.kind = "message" /\ item.stage = "live" /\ item.pieces = its[i].pieces
  BY <1>2, StageUpdated
<1> HIDE DEF item
<1>6. KindOK(item)
  BY <1>2, <1>5 DEF KindOK
<1>7. t = Close(a, S)
  BY DEF OnEvent, Event, Succeeding
<1> HIDE DEF t
<1>8. PICK d : /\ Reads(c, Close(a, S).frames, d, n)
               /\ Synced(Close(a, S).ad, d) /\ SameTexts(c, d, a.next)
  BY <1>1, Closing
<1>9. PlacesApart(its, a)
  BY PlaceFacts DEF PlacesApart
<1> HIDE DEF l
<1>10. <<i, l>> \in Slots(its) /\ Index(its, a, <<i, l>>) = a.text[<<i - 1, l - 1>>]
  BY <1>4, PartFacts
<1>11. \A s \in Slots(its) : s[1] # i => Index(its, a, s) \notin S
  BY <1>9, <1>10 DEF PlacesApart
<1>12. ASSUME NEW s \in Slots(its), s[1] = i, Growing(its, s) PROVE Index(its, a, s) \in S
  <2>1. s[2] = l /\ s = <<s[1], s[2]>>
    BY <1>1, <1>12, SlotFacts DEF Growing, l
  <2> QED BY <2>1, <1>10, <1>12
<1>13. ASSUME NEW s \in Slots(its)
       PROVE  /\ d.blocks[Index(its, a, s) + 1].kind = c.blocks[Index(its, a, s) + 1].kind
              /\ s[1] # i => d.blocks[Index(its, a, s) + 1].text = c.blocks[Index(its, a, s) + 1].text
              /\ s[1] = i => d.blocks[Index(its, a, s) + 1].text = PiecesOf(i - 1, s[2] - 1, item.pieces[s[2]])
  <2>1. /\ d.blocks[Index(its, a, s) + 1].kind = c.blocks[Index(its, a, s) + 1].kind
        /\ d.blocks[Index(its, a, s) + 1].text = c.blocks[Index(its, a, s) + 1].text
    BY <1>8, <1>9 DEF PlacesApart, SameTexts
  <2>2. c.blocks[Index(its, a, s) + 1].text = PiecesOf(s[1] - 1, s[2] - 1, its[s[1]].pieces[s[2]])
    BY DEF Follows, Block
  <2> QED BY <2>1, <2>2, <1>5
<1>14. item.kind = its[i].kind /\ Len(item.pieces) = Len(its[i].pieces) /\ its[i].stage # "done"
  BY <1>5
<1> HIDE DEF S
<1>15. /\ Matches([its EXCEPT ![i] = item], Close(a, S).ad, n)
       /\ Follows([its EXCEPT ![i] = item], Close(a, S).ad, d, "none")
       /\ Close(a, S).ad.terminal = "none"
  BY <1>5, <1>6, <1>8, <1>11, <1>12, <1>13, <1>14, ClosingMoves
<1> QED BY <1>7, <1>8, <1>15 DEF Answered, item, t, l

LEMMA ItemDoneAnswered ==
  ASSUME NEW its, NEW a, NEW n \in Nat, NEW c, Matches(its, a, n), a.terminal = "none",
         Follows(its, a, c, "none"),
         NEW i \in DOMAIN its, its[i].stage # "done"
  PROVE  Answered([its EXCEPT ![i] = [its[i] EXCEPT !.stage = "done"]],
                  OnEvent(a, Event("item.done", i - 1, 0, <<>>)), c, n)
<1> DEFINE item == [its[i] EXCEPT !.stage = "done"]
           S == BlocksOf(a, i - 1)
           t == OnEvent(a, Event("item.done", i - 1, 0, <<>>))
<1>1. ItemsOK(its) /\ Synced(a, c) /\ Tracks(its, a) /\ Known(its, a) /\ a \in AdapterState
  BY FollowsSynced DEF Matches
<1>2. /\ its[i] \in Item /\ KindOK(its[i]) /\ its[i].pieces \in Seq(0..MaxPieces)
      /\ i \in 1..MaxItems /\ DOMAIN its[i].pieces = 1..Len(its[i].pieces) /\ Len(its[i].pieces) \in Nat
  BY <1>1, ItemFacts
<1>3. /\ item \in Item /\ item.kind = its[i].kind /\ item.stage = "done" /\ item.pieces = its[i].pieces
  BY <1>2, StageUpdated
<1> HIDE DEF item
<1>4. KindOK(item)
  BY <1>2, <1>3 DEF KindOK
<1>5. t = Close(a, S)
  BY DEF OnEvent, Event, Succeeding
<1> HIDE DEF t, S
<1>6. PICK d : /\ Reads(c, Close(a, S).frames, d, n)
               /\ Synced(Close(a, S).ad, d) /\ SameTexts(c, d, a.next)
  BY <1>1, Closing
<1>7. PlacesApart(its, a)
  BY PlaceFacts DEF PlacesApart
<1>8. ASSUME NEW j \in S PROVE \E s \in Slots(its) : s[1] = i /\ Index(its, a, s) = j
  <2>1. CASE \E p \in Parts : j = a.text[<<i - 1, p>>] /\ j # None
    <3>1. PICK p \in Parts : j = a.text[<<i - 1, p>>] /\ j # None
      BY <2>1
    <3>2. p + 1 \in 1..MaxParts /\ (p + 1) - 1 = p
      BY AdapterAssumption DEF Parts
    <3>3. its[i].kind = "message" /\ p + 1 <= Len(its[i].pieces)
      BY <3>1, <3>2, <1>1, <1>2 DEF Known
    <3>4. p + 1 \in DOMAIN its[i].pieces
      BY <3>2, <3>3, <1>2
    <3>5. <<i, p + 1>> \in Slots(its) /\ Index(its, a, <<i, p + 1>>) = a.text[<<i - 1, (p + 1) - 1>>]
      BY <3>3, <3>4, PartFacts
    <3>6. <<i, p + 1>>[1] = i
      OBVIOUS
    <3> QED BY <3>1, <3>2, <3>5, <3>6
  <2>2. CASE j = a.tool[i - 1] /\ j # None
    <3>1. its[i].kind = "function_call"
      BY <2>2, <1>1, <1>2 DEF Known
    <3>2. <<i, 1>> \in Slots(its) /\ Index(its, a, <<i, 1>>) = a.tool[i - 1] /\ <<i, 1>>[1] = i
      BY <3>1, CallFacts
    <3> QED BY <2>2, <3>2
  <2> QED BY <2>1, <2>2 DEF S, BlocksOf
<1>9. ASSUME NEW s \in Slots(its), s[1] # i PROVE Index(its, a, s) \notin S
  <2> SUFFICES ASSUME Index(its, a, s) \in S PROVE FALSE
    OBVIOUS
  <2>1. PICK r \in Slots(its) : r[1] = i /\ Index(its, a, r) = Index(its, a, s)
    BY <1>8
  <2> QED BY <2>1, <1>7, <1>9 DEF PlacesApart
<1>10. ASSUME NEW s \in Slots(its), s[1] = i, Growing(its, s) PROVE Index(its, a, s) \in S
  <2>1. s[2] - 1 \in Parts
    BY <1>1, SlotFacts
  <2>2. Index(its, a, s) \in Nat /\ Index(its, a, s) # None
    BY <1>7 DEF PlacesApart, None
  <2> QED BY <2>1, <2>2, <1>10 DEF S, BlocksOf, Index
<1>11. ASSUME NEW s \in Slots(its)
       PROVE  /\ d.blocks[Index(its, a, s) + 1].kind = c.blocks[Index(its, a, s) + 1].kind
              /\ s[1] # i => d.blocks[Index(its, a, s) + 1].text = c.blocks[Index(its, a, s) + 1].text
              /\ s[1] = i => d.blocks[Index(its, a, s) + 1].text = PiecesOf(i - 1, s[2] - 1, item.pieces[s[2]])
  <2>1. /\ d.blocks[Index(its, a, s) + 1].kind = c.blocks[Index(its, a, s) + 1].kind
        /\ d.blocks[Index(its, a, s) + 1].text = c.blocks[Index(its, a, s) + 1].text
    BY <1>6, <1>7 DEF PlacesApart, SameTexts
  <2>2. c.blocks[Index(its, a, s) + 1].text = PiecesOf(s[1] - 1, s[2] - 1, its[s[1]].pieces[s[2]])
    BY DEF Follows, Block
  <2> QED BY <2>1, <2>2, <1>3
<1>12. item.kind = its[i].kind /\ Len(item.pieces) = Len(its[i].pieces) /\ its[i].stage # "done"
  BY <1>3
<1>13. /\ Matches([its EXCEPT ![i] = item], Close(a, S).ad, n)
       /\ Follows([its EXCEPT ![i] = item], Close(a, S).ad, d, "none")
       /\ Close(a, S).ad.terminal = "none"
  BY <1>3, <1>4, <1>6, <1>9, <1>10, <1>11, <1>12, ClosingMoves
<1> QED BY <1>5, <1>6, <1>13 DEF Answered, item, t

LEMMA CompleteArgumentsAnswered ==
  ASSUME NEW its, NEW a, NEW n \in Nat, NEW c, Matches(its, a, n), a.terminal = "none",
         Follows(its, a, c, "none"),
         NEW i \in DOMAIN its, its[i].kind = "function_call", its[i].stage = "live",
         NEW m \in 0..MaxPieces, its[i].pieces[1] \in {0, m}
  PROVE  Answered([its EXCEPT ![i] = [its[i] EXCEPT !.stage = "said", !.pieces = <<m>>]],
                  OnEvent(a, Event("arguments.done", i - 1, 0, PiecesOf(i - 1, 0, m))), c, n)
<1> DEFINE item == [its[i] EXCEPT !.stage = "said", !.pieces = <<m>>]
           x == PiecesOf(i - 1, 0, m)
           t == OnEvent(a, Event("arguments.done", i - 1, 0, x))
           j == a.tool[i - 1]
           S == {j}
<1>1. ItemsOK(its) /\ Synced(a, c) /\ Known(its, a) /\ Tracks(its, a)
  BY FollowsSynced DEF Matches
<1>2. its[i] \in Item /\ i - 1 \in Outputs
  BY <1>1, ItemFacts
<1>3. /\ 0 \in Parts /\ Len(its[i].pieces) = 1
      /\ <<i, 1>> \in Slots(its) /\ \A s \in Slots(its) : s[1] = i => s = <<i, 1>> /\ s[2] = 1
      /\ Index(its, a, <<i, 1>>) = j /\ j # None /\ j \in Nat /\ j \in a.open
  BY CallFacts
<1>4. /\ item \in Item /\ item.kind = "function_call" /\ item.stage = "said" /\ Len(item.pieces) = 1
      /\ item.pieces[1] = m
  <2>1. <<m>> \in Seq(0..MaxPieces) /\ Len(<<m>>) = 1 /\ <<m>>[1] = m
    OBVIOUS
  <2>2. item \in Item /\ item.kind = its[i].kind /\ item.stage = "said" /\ item.pieces = <<m>>
    BY <2>1, <1>2 DEF Item
  <2> QED BY <2>1, <2>2
<1> HIDE DEF item
<1>5. KindOK(item)
  BY <1>4 DEF KindOK
<1>6. x \in Texts /\ (x = <<>> <=> m = 0)
  <2>1. x \in Texts
    BY <1>2, <1>3, PieceSeqs
  <2>2. Len(x) = m
    BY DEF PiecesOf
  <2>3. x \in Seq(Piece)
    BY <2>1, PieceSeqs
  <2> HIDE DEF x
  <2> QED BY <2>1, <2>2, <2>3, EmptyFacts
<1>7. t = IF i - 1 \notin a.sent /\ x # <<>>
          THEN Out(Close(a, S).ad, <<Frame("content_block_delta", j, x)>> \o Close(a, S).frames)
          ELSE Close(a, S)
  <2>1. t = ArgumentsDone(a, Event("arguments.done", i - 1, 0, x))
    BY DEF OnEvent, Event, Succeeding
  <2> HIDE DEF t, x
  <2> QED BY <2>1, <1>3 DEF ArgumentsDone, Event
<1>8. i - 1 \in a.sent <=> its[i].pieces[1] > 0
  BY <1>1 DEF Tracks
<1>9. PlacesApart(its, a)
  BY PlaceFacts DEF PlacesApart
<1>10. c.blocks[j + 1].text = PiecesOf(i - 1, 0, its[i].pieces[1])
  <2>1. c.blocks[Index(its, a, <<i, 1>>) + 1].text = Block(its, <<i, 1>>).text
    BY <1>3 DEF Follows
  <2> QED BY <2>1, <1>3 DEF Block
<1> HIDE DEF x, t
<1>11. \E d : /\ Reads(c, t.frames, d, n) /\ Synced(Close(a, S).ad, d) /\ t.ad = Close(a, S).ad
              /\ \A k \in 1..a.next : d.blocks[k].kind = c.blocks[k].kind
              /\ \A k \in 1..a.next : k # j + 1 => d.blocks[k].text = c.blocks[k].text
              /\ d.blocks[j + 1].text = x
  <2> HIDE DEF j
  <2>0. j + 1 \in 1..a.next
    BY <1>1, <1>3, SyncedOpen
  <2>1. CASE i - 1 \notin a.sent /\ x # <<>>
    <3>1. PICK e : /\ Reads(c, <<Frame("content_block_delta", j, x)>>, e, n)
                   /\ Synced(a, e) /\ TextAdded(c, e, a.next, j, x)
      <4>1. Synced(a, c) /\ j \in a.open /\ x \in Texts
        BY <1>1, <1>3, <1>6
      <4> QED BY ONLY <4>1, Saying
    <3>2. PICK d : Reads(e, Close(a, S).frames, d, n) /\ Synced(Close(a, S).ad, d) /\ SameTexts(e, d, a.next)
      BY <3>1, Closing
    <3>3. /\ t.ad = Close(a, S).ad
          /\ t.frames = <<Frame("content_block_delta", j, x)>> \o Close(a, S).frames
      BY <2>1, <1>7 DEF Out
    <3>4. Reads(c, t.frames, d, n)
      BY <3>1, <3>2, <3>3, ReadsConcat
    <3>5. its[i].pieces[1] = 0
      BY <2>1, <1>8
    <3>6. c.blocks[j + 1].text = <<>>
      BY <3>5, <1>2, <1>3, <1>10, PieceSeqs
    <3>7. <<>> \o x = x
      BY <1>6, PieceSeqs
    <3>8. e.blocks[j + 1].text = x
      BY <3>1, <3>6, <3>7 DEF TextAdded
    <3>9. \A k \in 1..a.next : d.blocks[k].kind = c.blocks[k].kind
      BY <3>1, <3>2 DEF TextAdded, SameTexts
    <3>10. \A k \in 1..a.next : k # j + 1 => d.blocks[k].text = c.blocks[k].text
      BY <3>1, <3>2 DEF TextAdded, SameTexts
    <3>11. d.blocks[j + 1].text = x
      BY <2>0, <3>2, <3>8 DEF SameTexts
    <3> QED BY <3>2, <3>3, <3>4, <3>9, <3>10, <3>11
  <2>2. CASE ~(i - 1 \notin a.sent /\ x # <<>>)
    <3>1. PICK d : Reads(c, Close(a, S).frames, d, n) /\ Synced(Close(a, S).ad, d) /\ SameTexts(c, d, a.next)
      BY <1>1, Closing
    <3>2. t = Close(a, S)
      BY <2>2, <1>7
    <3>3. its[i].pieces[1] = m
      BY <2>2, <1>6, <1>8
    <3>4. d.blocks[j + 1].text = x
      BY <2>0, <3>1, <3>3, <1>10 DEF SameTexts, x
    <3> QED BY <3>1, <3>2, <3>4 DEF SameTexts
  <2> QED BY <2>1, <2>2
<1>12. PICK d : /\ Reads(c, t.frames, d, n) /\ Synced(Close(a, S).ad, d) /\ t.ad = Close(a, S).ad
                /\ \A k \in 1..a.next : d.blocks[k].kind = c.blocks[k].kind
                /\ \A k \in 1..a.next : k # j + 1 => d.blocks[k].text = c.blocks[k].text
                /\ d.blocks[j + 1].text = x
  BY <1>11
<1> HIDE DEF j
<1>13. \A s \in Slots(its) : s[1] # i => Index(its, a, s) \notin S /\ Index(its, a, s) + 1 # j + 1
  BY <1>3, <1>9 DEF PlacesApart
<1>14. \A s \in Slots(its) : s[1] = i /\ Growing(its, s) => Index(its, a, s) \in S
  BY <1>3
<1>15. ASSUME NEW s \in Slots(its)
       PROVE  /\ d.blocks[Index(its, a, s) + 1].kind = c.blocks[Index(its, a, s) + 1].kind
              /\ s[1] # i => d.blocks[Index(its, a, s) + 1].text = c.blocks[Index(its, a, s) + 1].text
              /\ s[1] = i => d.blocks[Index(its, a, s) + 1].text = PiecesOf(i - 1, s[2] - 1, item.pieces[s[2]])
  <2>1. Index(its, a, s) + 1 \in 1..a.next
    BY <1>9 DEF PlacesApart
  <2>2. s[1] # i => d.blocks[Index(its, a, s) + 1].text = c.blocks[Index(its, a, s) + 1].text
    BY <2>1, <1>12, <1>13
  <2>3. s[1] = i => d.blocks[Index(its, a, s) + 1].text = PiecesOf(i - 1, s[2] - 1, item.pieces[s[2]])
    <3>1. s[1] = i => Index(its, a, s) = j /\ s[2] = 1 /\ s[2] - 1 = 0
      BY <1>3
    <3> QED BY <3>1, <1>4, <1>12 DEF x
  <2> QED BY <2>1, <2>2, <2>3, <1>12
<1>16. item.kind = its[i].kind /\ Len(item.pieces) = Len(its[i].pieces) /\ its[i].stage # "done"
  BY <1>3, <1>4
<1> HIDE DEF S
<1>17. /\ Matches([its EXCEPT ![i] = item], Close(a, S).ad, n)
       /\ Follows([its EXCEPT ![i] = item], Close(a, S).ad, d, "none")
       /\ Close(a, S).ad.terminal = "none"
  BY <1>4, <1>5, <1>12, <1>13, <1>14, <1>15, <1>16, ClosingMoves
<1> QED BY <1>12, <1>17 DEF Answered, item, t, x

\* The adapter with a block more, of a call or of a text part.
WithCall(a, T) ==
  [a EXCEPT !.started = TRUE, !.next = @ + 1, !.tool = T, !.open = @ \union {a.next}, !.sawToolUse = TRUE]
WithText(a, T) ==
  [a EXCEPT !.started = TRUE, !.next = @ + 1, !.text = T, !.open = @ \union {a.next}]

ToolIndices == [Outputs -> Nat \union {None}]
TextIndices == [Outputs \X Parts -> Nat \union {None}]

Grown(a, b, text, tool, saw) ==
  /\ b \in AdapterState /\ b.text = text /\ b.tool = tool /\ b.next = a.next + 1 /\ b.started = TRUE
  /\ b.open = a.open \union {a.next} /\ b.sawToolUse = saw /\ b.terminal = a.terminal /\ b.sent = a.sent

LEMMA CallUpdated ==
  ASSUME NEW a \in AdapterState, NEW T \in ToolIndices, NEW b, b = WithCall(a, T)
  PROVE  Grown(a, b, a.text, T, TRUE)
<1>1. /\ b.text = a.text /\ b.tool = T /\ b.next = a.next + 1 /\ b.started = TRUE
      /\ b.open = a.open \union {a.next} /\ b.sawToolUse = TRUE /\ b.terminal = a.terminal /\ b.sent = a.sent
      /\ b.usage = a.usage
      /\ b = [started |-> b.started, terminal |-> b.terminal, next |-> b.next, open |-> b.open, text |-> b.text,
              tool |-> b.tool, sent |-> b.sent, sawToolUse |-> b.sawToolUse, usage |-> b.usage]
  BY DEF AdapterState, WithCall
<1>2. b \in AdapterState
  <2>1. /\ b.started \in BOOLEAN /\ b.terminal \in {"none", "success", "error"} /\ b.next \in Nat
        /\ b.open \in SUBSET Nat /\ b.text \in [Outputs \X Parts -> Nat \union {None}]
        /\ b.tool \in [Outputs -> Nat \union {None}] /\ b.sent \in SUBSET Outputs
        /\ b.sawToolUse \in BOOLEAN /\ b.usage \in {"zero", "created", "final"}
    <3>1. /\ a.next \in Nat /\ a.open \in SUBSET Nat /\ a.terminal \in {"none", "success", "error"}
          /\ a.text \in [Outputs \X Parts -> Nat \union {None}] /\ a.tool \in [Outputs -> Nat \union {None}]
          /\ a.sent \in SUBSET Outputs /\ a.sawToolUse \in BOOLEAN /\ a.usage \in {"zero", "created", "final"}
      BY AdapterFields
    <3>2. a.next + 1 \in Nat
      BY <3>1
    <3>3. a.open \union {a.next} \in SUBSET Nat
      BY <3>1
    <3> QED BY <3>1, <3>2, <3>3, <1>1 DEF ToolIndices, TextIndices
  <2> QED BY <1>1, <2>1 DEF AdapterState
<1> QED BY <1>1, <1>2 DEF Grown

LEMMA TextUpdated ==
  ASSUME NEW a \in AdapterState, NEW T \in TextIndices, NEW b, b = WithText(a, T)
  PROVE  Grown(a, b, T, a.tool, a.sawToolUse)
<1>1. /\ b.text = T /\ b.tool = a.tool /\ b.next = a.next + 1 /\ b.started = TRUE
      /\ b.open = a.open \union {a.next} /\ b.sawToolUse = a.sawToolUse /\ b.terminal = a.terminal
      /\ b.sent = a.sent /\ b.usage = a.usage
      /\ b = [started |-> b.started, terminal |-> b.terminal, next |-> b.next, open |-> b.open, text |-> b.text,
              tool |-> b.tool, sent |-> b.sent, sawToolUse |-> b.sawToolUse, usage |-> b.usage]
  BY DEF AdapterState, WithText
<1>2. b \in AdapterState
  <2>1. /\ b.started \in BOOLEAN /\ b.terminal \in {"none", "success", "error"} /\ b.next \in Nat
        /\ b.open \in SUBSET Nat /\ b.text \in [Outputs \X Parts -> Nat \union {None}]
        /\ b.tool \in [Outputs -> Nat \union {None}] /\ b.sent \in SUBSET Outputs
        /\ b.sawToolUse \in BOOLEAN /\ b.usage \in {"zero", "created", "final"}
    <3>1. /\ a.next \in Nat /\ a.open \in SUBSET Nat /\ a.terminal \in {"none", "success", "error"}
          /\ a.text \in [Outputs \X Parts -> Nat \union {None}] /\ a.tool \in [Outputs -> Nat \union {None}]
          /\ a.sent \in SUBSET Outputs /\ a.sawToolUse \in BOOLEAN /\ a.usage \in {"zero", "created", "final"}
      BY AdapterFields
    <3>2. a.next + 1 \in Nat
      BY <3>1
    <3>3. a.open \union {a.next} \in SUBSET Nat
      BY <3>1
    <3> QED BY <3>1, <3>2, <3>3, <1>1 DEF ToolIndices, TextIndices
  <2> QED BY <1>1, <2>1 DEF AdapterState
<1> QED BY <1>1, <1>2 DEF Grown

LEMMA AddCallAnswered ==
  ASSUME NEW its, NEW a, NEW n \in Nat, NEW c, Matches(its, a, n), a.terminal = "none",
         Follows(its, a, c, "none"), Cardinality(Busy(its)) < n, Len(its) < MaxItems
  PROVE  Answered(Append(its, [kind |-> "function_call", stage |-> "live", pieces |-> <<0>>]),
                  OnEvent(a, Event("item.added", Len(its), 0, "function_call")), c, n)
<1> DEFINE item == [kind |-> "function_call", stage |-> "live", pieces |-> <<0>>]
           its2 == Append(its, item)
           l == Len(its) + 1
           o == Len(its)
           t == OnEvent(a, Event("item.added", o, 0, "function_call"))
           b == [a EXCEPT !.started = TRUE, !.next = @ + 1, !.tool[o] = a.next,
                          !.open = @ \union {a.next}, !.sawToolUse = TRUE]
           s0 == <<l, 1>>
<1>0. MaxItems \in Nat /\ MaxPieces \in Nat
  BY AdapterAssumption
<1>1. /\ ItemsOK(its) /\ Synced(a, c) /\ a \in AdapterState /\ Known(its, a) /\ Tracks(its, a)
      /\ a.next \in Nat /\ a.tool \in [Outputs -> Nat \union {None}]
  BY FollowsSynced, AdapterFields DEF Matches
<1>2. item \in Item /\ KindOK(item) /\ item.kind = "function_call" /\ item.stage = "live"
      /\ item.pieces = <<0>> /\ item.pieces[1] = 0 /\ DOMAIN item.pieces = {1}
  <2>1. <<0>> \in Seq(0..MaxPieces) /\ Len(<<0>>) = 1 /\ <<0>>[1] = 0 /\ DOMAIN <<0>> = {1}
    BY <1>0
  <2>2. item \in Item
    BY <2>1 DEF Item
  <2>3. KindOK(item)
    BY <2>1 DEF KindOK
  <2> QED BY <2>1, <2>2, <2>3
<1> HIDE DEF item
<1>3. /\ ItemsOK(its2) /\ Len(its2) = l /\ DOMAIN its2 = DOMAIN its \union {l} /\ l \notin DOMAIN its
      /\ its2[l] = item /\ \A j \in DOMAIN its : its2[j] = its[j]
  BY <1>1, <1>2, ItemsGrow
<1>4. InTurn(its2, n)
  BY <1>1, <1>2, MoreBusy
<1>5. o \in Outputs /\ o = l - 1 /\ l \in 1..MaxItems /\ o + 1 = l /\ l \in Nat /\ DOMAIN its = 1..o /\ o \in Nat
  <2>1. Len(its) \in Nat /\ DOMAIN its = 1..Len(its)
    BY <1>1, ItemFacts
  <2> QED BY <2>1, <1>0 DEF Outputs
<1>6. a.tool[o] = None
  BY <1>1, <1>3, <1>5 DEF Known
<1>7. /\ t.ad = b
      /\ t.frames = Append(StartMessage(a), Frame("content_block_start", a.next, "tool_use"))
  <2>1. t = OpenToolBlock(a, o)
    BY DEF OnEvent, Event, Succeeding
  <2> HIDE DEF t
  <2> QED BY <2>1, <1>6 DEF OpenToolBlock, Out
<1>8. /\ b \in AdapterState /\ b.text = a.text /\ b.tool = [a.tool EXCEPT ![o] = a.next] /\ b.next = a.next + 1
      /\ b.started = TRUE /\ b.open = a.open \union {a.next} /\ b.sawToolUse = TRUE /\ b.terminal = "none"
      /\ b.sent = a.sent
  <2> DEFINE T == [a.tool EXCEPT ![o] = a.next]
  <2>1. T \in ToolIndices
    BY <1>1, <1>5 DEF ToolIndices
  <2>2. b = WithCall(a, T)
    BY DEF WithCall
  <2> HIDE DEF T, b
  <2>3. /\ b \in AdapterState /\ b.text = a.text /\ b.tool = T /\ b.next = a.next + 1 /\ b.started = TRUE
        /\ b.open = a.open \union {a.next} /\ b.sawToolUse = TRUE /\ b.terminal = a.terminal /\ b.sent = a.sent
    <3>1. a \in AdapterState
      BY <1>1
    <3>2. Grown(a, b, a.text, T, TRUE)
      BY ONLY <3>1, <2>1, <2>2, CallUpdated
    <3> QED BY <3>2 DEF Grown
  <2> QED BY <2>3 DEF T
<1>9. b.tool[o] = a.next /\ \A x \in Outputs : x # o => b.tool[x] = a.tool[x]
  BY <1>1, <1>5, <1>8
<1> HIDE DEF its2, l, o, t, b
<1>10. Slots(its2) = Slots(its) \union {s0}
  <2>1. ASSUME NEW s \in Slots(its2) PROVE s \in Slots(its) \union {s0}
    <3>1. s[1] \in DOMAIN its2 /\ s[2] \in DOMAIN its2[s[1]].pieces /\ s = <<s[1], s[2]>>
      BY <1>3, SlotFacts
    <3>2. CASE s[1] = l
      <4>1. s[2] = 1
        BY <3>1, <3>2, <1>2, <1>3
      <4> QED BY <3>1, <3>2, <4>1
    <3>3. CASE s[1] # l
      <4>1. s[1] \in DOMAIN its /\ s[2] \in DOMAIN its[s[1]].pieces
        BY <3>1, <3>3, <1>3
      <4>2. <<s[1], s[2]>> \in Slots(its)
        BY <4>1, <1>1, SlotFacts
      <4> QED BY <3>1, <4>2
    <3> QED BY <3>2, <3>3
  <2>2. ASSUME NEW s \in Slots(its) PROVE s \in Slots(its2)
    <3>1. s[1] \in DOMAIN its /\ s[2] \in DOMAIN its[s[1]].pieces /\ s = <<s[1], s[2]>>
      BY <1>1, SlotFacts
    <3>2. s[1] \in DOMAIN its2 /\ s[2] \in DOMAIN its2[s[1]].pieces
      BY <3>1, <1>3
    <3>3. <<s[1], s[2]>> \in Slots(its2)
      BY <3>2, <1>3, SlotFacts
    <3> QED BY <3>1, <3>3
  <2>3. s0 \in Slots(its2)
    BY <1>2, <1>3, SlotFacts
  <2> QED BY <2>1, <2>2, <2>3
<1>11. \A s \in Slots(its) : /\ s[1] \in DOMAIN its /\ s[1] # l /\ its2[s[1]] = its[s[1]] /\ s[1] - 1 \in Outputs
                             /\ s[1] - 1 # o /\ s[1] \in Nat /\ s[1] < l
  <2> SUFFICES ASSUME NEW s \in Slots(its)
               PROVE  /\ s[1] \in DOMAIN its /\ s[1] # l /\ its2[s[1]] = its[s[1]] /\ s[1] - 1 \in Outputs
                      /\ s[1] - 1 # o /\ s[1] \in Nat /\ s[1] < l
    OBVIOUS
  <2>1. s[1] \in DOMAIN its /\ s[1] - 1 \in Outputs
    BY <1>1, SlotFacts
  <2> QED BY <2>1, <1>3, <1>5
<1>12. /\ \A s \in Slots(its) : Index(its2, b, s) = Index(its, a, s)
       /\ \A s \in Slots(its) : Growing(its2, s) <=> Growing(its, s)
       /\ \A s \in Slots(its) : Block(its2, s) = Block(its, s)
  <2> SUFFICES ASSUME NEW s \in Slots(its)
               PROVE  /\ Index(its2, b, s) = Index(its, a, s) /\ (Growing(its2, s) <=> Growing(its, s))
                      /\ Block(its2, s) = Block(its, s)
    OBVIOUS
  <2>1. Index(its2, b, s) = Index(its, a, s)
    BY <1>8, <1>9, <1>11 DEF Index
  <2>2. (Growing(its2, s) <=> Growing(its, s)) /\ Block(its2, s) = Block(its, s)
    BY <1>11 DEF Growing, Block
  <2> QED BY <2>1, <2>2
<1>13. s0[1] = l /\ s0[2] = 1
  OBVIOUS
<1> HIDE DEF s0
<1>14. /\ Index(its2, b, s0) = a.next /\ Growing(its2, s0) /\ s0 \notin Slots(its)
       /\ Block(its2, s0).kind = "tool_use" /\ Block(its2, s0).text = <<>>
  <2>1. its2[s0[1]].kind = "function_call" /\ its2[s0[1]].stage = "live" /\ its2[s0[1]].pieces[s0[2]] = 0
    BY <1>2, <1>3, <1>13
  <2>2. Index(its2, b, s0) = a.next
    BY <2>1, <1>5, <1>9, <1>13 DEF Index
  <2>3. Growing(its2, s0)
    BY <2>1 DEF Growing
  <2>4. s0 \notin Slots(its)
    BY <1>11, <1>13
  <2>5. PiecesOf(s0[1] - 1, s0[2] - 1, 0) = <<>>
    BY DEF PiecesOf
  <2> QED BY <2>1, <2>2, <2>3, <2>4, <2>5 DEF Block
<1>15. n = 1 => ~Precedes(s0, s0) /\ \A s \in Slots(its) : Precedes(s, s0) /\ ~Precedes(s0, s)
  BY <1>5, <1>11, <1>13 DEF Precedes
<1>16. Known(its2, b)
  <2>1. ASSUME NEW i \in 1..MaxItems, NEW p \in 1..MaxParts
        PROVE  b.text[<<i - 1, p - 1>>] # None
                 <=> i \in DOMAIN its2 /\ its2[i].kind = "message" /\ p <= Len(its2[i].pieces)
    <3>1. a.text[<<i - 1, p - 1>>] # None
            <=> i \in DOMAIN its /\ its[i].kind = "message" /\ p <= Len(its[i].pieces)
      BY <1>1 DEF Known
    <3>2. CASE i = l
      BY <3>1, <3>2, <1>2, <1>3, <1>8
    <3>3. CASE i # l
      BY <3>1, <3>3, <1>3, <1>8
    <3> QED BY <3>2, <3>3
  <2>2. ASSUME NEW i \in 1..MaxItems
        PROVE  b.tool[i - 1] # None <=> i \in DOMAIN its2 /\ its2[i].kind = "function_call"
    <3>1. a.tool[i - 1] # None <=> i \in DOMAIN its /\ its[i].kind = "function_call"
      BY <1>1 DEF Known
    <3>2. CASE i = l
      <4>1. b.tool[i - 1] = a.next /\ a.next # None
        BY <3>2, <1>1, <1>5, <1>9 DEF None
      <4> QED BY <3>2, <4>1, <1>2, <1>3
    <3>3. CASE i # l
      <4>1. i - 1 \in Outputs /\ i - 1 # o
        BY <3>3, <1>0, <1>5 DEF Outputs
      <4> QED BY <3>1, <3>3, <4>1, <1>3, <1>9
    <3> QED BY <3>2, <3>3
  <2> QED BY <2>1, <2>2 DEF Known
<1>17. ASSUME NEW i \in DOMAIN its2, its2[i].kind = "function_call", its2[i].stage = "live"
       PROVE  i - 1 \in b.sent <=> its2[i].pieces[1] > 0
  <2>1. CASE i = l
    <3>1. o \notin a.sent
      BY <1>1, <1>3, <1>5 DEF Tracks
    <3> QED BY <2>1, <3>1, <1>2, <1>3, <1>5, <1>8
  <2>2. CASE i # l
    <3>1. i \in DOMAIN its /\ its2[i] = its[i]
      BY <2>2, <1>3
    <3> QED BY <3>1, <1>1, <1>8, <1>17 DEF Tracks
  <2> QED BY <2>1, <2>2
<1>18. \A x \in b.sent : x + 1 \in DOMAIN its2
  BY <1>1, <1>3, <1>8 DEF Tracks
<1>19. b.sawToolUse <=> \E i \in DOMAIN its2 : its2[i].kind = "function_call"
  BY <1>2, <1>3, <1>8
<1>20. Cardinality(OpenOf(c)) < n
  <2>1. IsFiniteSet(Busy(its)) /\ Cardinality(Busy(its)) \in Nat
    BY <1>1, BusyFacts
  <2>2. Busy(its) \subseteq Busy(its) \union {i \in DOMAIN its : \A s \in Slots(its) : s[1] = i => ~Growing(its, s)}
    OBVIOUS
  <2>3. Cardinality(OpenOf(c)) <= Cardinality(Busy(its))
    BY <2>1, <2>2, <1>1, OpenBlocksFew
  <2>4. Cardinality(OpenOf(c)) \in Nat
    BY <1>1, OpenFacts DEF Synced
  <2> QED BY <2>1, <2>3, <2>4
<1>21. PICK d : /\ Reads(c, Append(StartMessage(a), Frame("content_block_start", a.next, "tool_use")), d, n)
                /\ Synced(b, d) /\ BlockAdded(c, d, a.next, "tool_use")
  <2>1. /\ Synced(a, c) /\ "tool_use" \in {"text", "tool_use"} /\ Cardinality(OpenOf(c)) < n
        /\ b \in AdapterState /\ b.started /\ b.next = a.next + 1 /\ b.open = a.open \union {a.next}
    BY <1>1, <1>8, <1>20
  <2> QED BY ONLY <2>1, Opening
<1>22. /\ \A k \in 1..a.next : d.blocks[k] = c.blocks[k]
       /\ d.blocks[a.next + 1].kind = Block(its2, s0).kind /\ d.blocks[a.next + 1].text = Block(its2, s0).text
  BY <1>14, <1>21 DEF BlockAdded
<1>23. OpensSlot(its, a, c, its2, s0, b, d, n)
  BY <1>3, <1>4, <1>8, <1>10, <1>12, <1>14, <1>15, <1>16, <1>17, <1>18, <1>19, <1>21, <1>22 DEF OpensSlot
<1>24. Matches(its2, b, n) /\ Follows(its2, b, d, "none")
  BY <1>23, SlotOpens
<1> QED BY <1>7, <1>8, <1>21, <1>24 DEF Answered, t, its2, item, o

\* A part more of item i, whose first m pieces come at once.
Begun(its, i, m) == [its EXCEPT ![i] = [its[i] EXCEPT !.stage = "part", !.pieces = Append(@, m)]]
WithPart(a, o, p) == WithText(a, [a.text EXCEPT ![<<o, p>>] = a.next])

LEMMA PartRoom ==
  ASSUME NEW its, NEW a, NEW n \in Nat, NEW c, Matches(its, a, n), a.terminal = "none", Synced(a, c),
         NEW i \in DOMAIN its, its[i].kind = "message", its[i].stage = "live"
  PROVE  Cardinality(OpenOf(c)) < n
<1> DEFINE B == Busy(its) \ {i}
<1>1. ItemsOK(its) /\ Cardinality(Busy(its)) <= n
  BY DEF Matches, InTurn
<1>2. IsFiniteSet(Busy(its)) /\ Cardinality(Busy(its)) \in Nat /\ i \in Busy(its)
  BY <1>1, BusyFacts DEF Busy
<1>3. IsFiniteSet(B) /\ Cardinality(B) = Cardinality(Busy(its)) - 1
  BY <1>2, FS_RemoveElement
<1>4. \A s \in Slots(its) : s[1] = i => ~Growing(its, s)
  BY DEF Growing
<1>5. Busy(its) \subseteq B \union {k \in DOMAIN its : \A s \in Slots(its) : s[1] = k => ~Growing(its, s)}
  BY <1>4
<1> HIDE DEF B
<1>6. Cardinality(OpenOf(c)) <= Cardinality(B)
  BY <1>3, <1>5, OpenBlocksFew
<1>7. Cardinality(OpenOf(c)) \in Nat
  BY OpenFacts DEF Synced
<1> QED BY <1>1, <1>2, <1>3, <1>6, <1>7

PartBegun(it, q, item) ==
  item \in Item /\ item.kind = it.kind /\ item.stage = "part" /\ item.pieces = q

LEMMA PartUpdated ==
  ASSUME NEW it \in Item, NEW q \in Seq(0..MaxPieces), NEW item,
         item = [it EXCEPT !.stage = "part", !.pieces = q]
  PROVE  PartBegun(it, q, item)
BY DEF PartBegun, Item

LEMMA PartOpens ==
  ASSUME NEW its, NEW a, NEW n \in Nat, NEW c, Matches(its, a, n), a.terminal = "none",
         Follows(its, a, c, "none"),
         NEW i \in DOMAIN its, its[i].kind = "message", its[i].stage = "live",
         NEW p, p = Len(its[i].pieces), p < MaxParts, NEW m \in {0, 1},
         NEW b, b = WithPart(a, i - 1, p),
         NEW d, Synced(b, d), \A k \in 1..a.next : d.blocks[k] = c.blocks[k],
         d.blocks[a.next + 1].kind = "text", d.blocks[a.next + 1].text = PiecesOf(i - 1, p, m)
  PROVE  Matches(Begun(its, i, m), b, n) /\ Follows(Begun(its, i, m), b, d, "none")
<1> DEFINE it == its[i]
           q == Append(it.pieces, m)
           item == [it EXCEPT !.stage = "part", !.pieces = Append(@, m)]
           its2 == Begun(its, i, m)
           s0 == <<i, p + 1>>
           T == [a.text EXCEPT ![<<i - 1, p>>] = a.next]
<1>0. MaxParts \in Nat /\ MaxItems \in Nat /\ MaxPieces \in Nat \ {0}
  BY AdapterAssumption
<1>1. /\ ItemsOK(its) /\ Synced(a, c) /\ a \in AdapterState /\ Known(its, a) /\ Tracks(its, a) /\ InTurn(its, n)
      /\ a.next \in Nat /\ a.text \in [Outputs \X Parts -> Nat \union {None}]
  BY FollowsSynced, AdapterFields DEF Matches
<1>2. /\ it \in Item /\ i - 1 \in Outputs /\ i \in 1..MaxItems /\ i \in Nat
      /\ it.pieces \in Seq(0..MaxPieces) /\ DOMAIN it.pieces = 1..p /\ p \in Nat
      /\ p + 1 \in 1..MaxParts /\ p \in Parts /\ (p + 1) - 1 = p
  BY <1>0, <1>1, ItemFacts DEF Parts
<1>3. q \in Seq(0..MaxPieces) /\ Len(q) = p + 1 /\ DOMAIN q = 1..(p + 1) /\ q[p + 1] = m
      /\ \A k \in 1..p : q[k] = it.pieces[k]
  <2>1. m \in 0..MaxPieces
    BY <1>0
  <2> DEFINE r == it.pieces
  <2>2. r \in Seq(0..MaxPieces) /\ Len(r) = p
    BY <1>2
  <2> HIDE DEF r
  <2> QED BY <2>1, <2>2 DEF r
<1>4. item \in Item /\ item.kind = "message" /\ item.stage = "part" /\ item.pieces = q
  <2>1. item = [it EXCEPT !.stage = "part", !.pieces = q]
    OBVIOUS
  <2>2. it.kind = "message"
    OBVIOUS
  <2>3. it \in Item /\ q \in Seq(0..MaxPieces)
    BY <1>2, <1>3
  <2> HIDE DEF item, it, q
  <2>4. PartBegun(it, q, item)
    BY ONLY <2>1, <2>3, PartUpdated
  <2> QED BY <2>2, <2>4 DEF PartBegun
<1>5. its2 = [its EXCEPT ![i] = item]
  BY DEF Begun
<1> HIDE DEF item, q, its2
<1>6. KindOK(item)
  <2>1. item.pieces # <<>>
    BY <1>2, <1>3, <1>4, EmptyFacts
  <2>2. Len(item.pieces) <= MaxParts
    BY <1>0, <1>2, <1>3, <1>4
  <2> QED BY <2>1, <2>2, <1>4 DEF KindOK
<1>7. /\ ItemsOK(its2) /\ Len(its2) = Len(its) /\ DOMAIN its2 = DOMAIN its /\ its2[i] = item
      /\ \A j \in DOMAIN its : j # i => its2[j] = its[j]
  BY <1>1, <1>4, <1>5, <1>6, ItemsChange
<1>8. InTurn(its2, n)
  <2>1. Busy(its2) \subseteq Busy(its)
    BY <1>7 DEF Busy
  <2> QED BY <2>1, <1>1, <1>7, FewerBusy
<1>9. /\ b \in AdapterState /\ b.text = T /\ b.tool = a.tool /\ b.next = a.next + 1 /\ b.started = TRUE
      /\ b.open = a.open \union {a.next} /\ b.sawToolUse = a.sawToolUse /\ b.terminal = "none" /\ b.sent = a.sent
  <2>1. T \in TextIndices
    BY <1>1, <1>2 DEF TextIndices
  <2>2. b = WithText(a, T)
    BY DEF WithPart
  <2> HIDE DEF T
  <2>3. a \in AdapterState
    BY <1>1
  <2>4. Grown(a, b, T, a.tool, a.sawToolUse)
    BY ONLY <2>1, <2>2, <2>3, TextUpdated
  <2> QED BY <2>4 DEF Grown
<1>10. /\ b.text[<<i - 1, p>>] = a.next
       /\ \A o \in Outputs, x \in Parts : <<o, x>> # <<i - 1, p>> => b.text[<<o, x>>] = a.text[<<o, x>>]
  BY <1>1, <1>2, <1>9
<1>11. s0[1] = i /\ s0[2] = p + 1
  OBVIOUS
<1> HIDE DEF it, T
<1>12. Slots(its2) = Slots(its) \union {s0}
  <2>1. ASSUME NEW s \in Slots(its2) PROVE s \in Slots(its) \union {s0}
    <3>1. s[1] \in DOMAIN its2 /\ s[2] \in DOMAIN its2[s[1]].pieces /\ s = <<s[1], s[2]>>
      BY <1>7, SlotFacts
    <3>2. CASE s = s0
      BY <3>2
    <3>3. CASE s # s0
      <4>1. s[1] \in DOMAIN its
        BY <3>1, <1>7
      <4>2. s[2] \in DOMAIN its[s[1]].pieces
        <5>1. CASE s[1] = i
          <6>1. s[2] \in 1..(p + 1) /\ s[2] # p + 1
            BY <3>1, <3>3, <5>1, <1>3, <1>4, <1>7
          <6> QED BY <5>1, <6>1, <1>2 DEF it
        <5>2. CASE s[1] # i
          BY <3>1, <4>1, <5>2, <1>7
        <5> QED BY <5>1, <5>2
      <4>3. <<s[1], s[2]>> \in Slots(its)
        BY <4>1, <4>2, <1>1, SlotFacts
      <4> QED BY <3>1, <4>3
    <3> QED BY <3>2, <3>3
  <2>2. ASSUME NEW s \in Slots(its) PROVE s \in Slots(its2)
    <3>1. s[1] \in DOMAIN its /\ s[2] \in DOMAIN its[s[1]].pieces /\ s = <<s[1], s[2]>>
      BY <1>1, SlotFacts
    <3>2. s[2] \in DOMAIN its2[s[1]].pieces
      <4>1. CASE s[1] = i
        BY <3>1, <4>1, <1>2, <1>3, <1>4, <1>7 DEF it
      <4>2. CASE s[1] # i
        BY <3>1, <4>2, <1>7
      <4> QED BY <4>1, <4>2
    <3>3. <<s[1], s[2]>> \in Slots(its2)
      BY <3>1, <3>2, <1>7, SlotFacts
    <3> QED BY <3>1, <3>3
  <2>3. s0 \in Slots(its2)
    <3>1. p + 1 \in DOMAIN its2[i].pieces
      BY <1>2, <1>3, <1>4, <1>7
    <3> QED BY <3>1, <1>7, SlotFacts
  <2> QED BY <2>1, <2>2, <2>3
<1>13. ASSUME NEW s \in Slots(its)
       PROVE  /\ s[1] \in DOMAIN its /\ s[1] - 1 \in Outputs /\ s[2] - 1 \in Parts /\ s[1] \in Nat /\ s[2] \in Nat
              /\ s[1] = i => s[2] <= p /\ s[2] \in 1..p
              /\ <<s[1] - 1, s[2] - 1>> # <<i - 1, p>>
              /\ its2[s[1]].kind = its[s[1]].kind /\ its2[s[1]].pieces[s[2]] = its[s[1]].pieces[s[2]]
  <2>1. /\ s[1] \in DOMAIN its /\ s[2] \in DOMAIN its[s[1]].pieces
        /\ s[1] - 1 \in Outputs /\ s[2] - 1 \in Parts /\ s[1] \in 1..MaxItems /\ s[2] \in 1..MaxParts
    BY <1>1, SlotFacts
  <2>2. s[1] \in Nat /\ s[2] \in Nat
    BY <2>1
  <2>3. s[1] = i => s[2] \in 1..p /\ s[2] <= p
    BY <2>1, <1>2 DEF it
  <2>4. <<s[1] - 1, s[2] - 1>> # <<i - 1, p>>
    <3> SUFFICES ASSUME s[1] - 1 = i - 1, s[2] - 1 = p PROVE FALSE
      OBVIOUS
    <3>1. s[1] = i
      BY <2>2, <1>2
    <3> QED BY <3>1, <2>2, <2>3, <1>2
  <2>5. its2[s[1]].kind = its[s[1]].kind /\ its2[s[1]].pieces[s[2]] = its[s[1]].pieces[s[2]]
    <3>1. CASE s[1] = i
      BY <3>1, <2>3, <1>3, <1>4, <1>7 DEF it
    <3>2. CASE s[1] # i
      BY <3>2, <2>1, <1>7
    <3> QED BY <3>1, <3>2
  <2> QED BY <2>1, <2>2, <2>3, <2>4, <2>5
<1>14. ASSUME NEW s \in Slots(its)
       PROVE  /\ Index(its2, b, s) = Index(its, a, s) /\ (Growing(its2, s) <=> Growing(its, s))
              /\ Block(its2, s) = Block(its, s)
  <2>1. Index(its2, b, s) = Index(its, a, s)
    BY <1>9, <1>10, <1>13 DEF Index
  <2>2. Growing(its2, s) <=> Growing(its, s)
    <3>1. CASE s[1] = i
      <4>1. s[2] # Len(its2[i].pieces)
        BY <3>1, <1>2, <1>3, <1>4, <1>7, <1>13
      <4> QED BY <3>1, <4>1, <1>4, <1>7 DEF Growing
    <3>2. CASE s[1] # i
      BY <3>2, <1>7, <1>13 DEF Growing
    <3> QED BY <3>1, <3>2
  <2>3. Block(its2, s) = Block(its, s)
    BY <1>13 DEF Block
  <2> QED BY <2>1, <2>2, <2>3
<1> HIDE DEF s0
<1>15. /\ Index(its2, b, s0) = a.next /\ Growing(its2, s0) /\ s0 \notin Slots(its)
       /\ Block(its2, s0).kind = "text" /\ Block(its2, s0).text = PiecesOf(i - 1, p, m)
  <2>1. its2[s0[1]].kind = "message" /\ its2[s0[1]].stage = "part" /\ Len(its2[s0[1]].pieces) = p + 1
        /\ its2[s0[1]].pieces[s0[2]] = m
    BY <1>3, <1>4, <1>7, <1>11
  <2>2. Index(its2, b, s0) = a.next
    BY <2>1, <1>2, <1>10, <1>11 DEF Index
  <2>3. Growing(its2, s0)
    BY <2>1, <1>11 DEF Growing
  <2>4. s0 \notin Slots(its)
    <3> SUFFICES ASSUME s0 \in Slots(its) PROVE FALSE
      OBVIOUS
    <3> QED BY <1>2, <1>11, <1>13
  <2>5. Block(its2, s0).kind = "text" /\ Block(its2, s0).text = PiecesOf(i - 1, p, m)
    BY <2>1, <1>2, <1>11 DEF Block
  <2> QED BY <2>2, <2>3, <2>4, <2>5
<1>16. n = 1 => ~Precedes(s0, s0) /\ \A s \in Slots(its) : Precedes(s, s0) /\ ~Precedes(s0, s)
  <2> SUFFICES ASSUME n = 1
               PROVE  ~Precedes(s0, s0) /\ \A s \in Slots(its) : Precedes(s, s0) /\ ~Precedes(s0, s)
    OBVIOUS
  <2>1. i = Len(its)
    BY <1>1 DEF InTurn, Busy
  <2>2. \A s \in Slots(its) : s[1] <= i
    BY <2>1, <1>1, <1>13, ItemFacts
  <2>3. ~Precedes(s0, s0)
    BY <1>2, <1>11 DEF Precedes
  <2>4. ASSUME NEW s \in Slots(its) PROVE Precedes(s, s0) /\ ~Precedes(s0, s)
    <3>1. s[1] <= i /\ s[1] \in Nat /\ s[2] \in Nat /\ (s[1] = i => s[2] <= p)
      BY <2>2, <1>13
    <3> QED BY <3>1, <1>2, <1>11 DEF Precedes
  <2> QED BY <2>3, <2>4
<1>17. Known(its2, b)
  <2>1. ASSUME NEW j \in 1..MaxItems, NEW x \in 1..MaxParts
        PROVE  b.text[<<j - 1, x - 1>>] # None
                 <=> j \in DOMAIN its2 /\ its2[j].kind = "message" /\ x <= Len(its2[j].pieces)
    <3>1. a.text[<<j - 1, x - 1>>] # None
            <=> j \in DOMAIN its /\ its[j].kind = "message" /\ x <= Len(its[j].pieces)
      BY <1>1 DEF Known
    <3>2. j - 1 \in Outputs /\ x - 1 \in Parts /\ j \in Nat /\ x \in Nat
      BY <1>0 DEF Outputs, Parts
    <3>3. CASE j = i /\ x = p + 1
      <4>1. b.text[<<j - 1, x - 1>>] = a.next /\ a.next # None
        BY <3>3, <1>1, <1>2, <1>10 DEF None
      <4> QED BY <3>3, <4>1, <1>2, <1>3, <1>4, <1>7
    <3>4. CASE j = i /\ x # p + 1
      <4>1. b.text[<<j - 1, x - 1>>] = a.text[<<j - 1, x - 1>>]
        <5>1. x - 1 # p
          BY <3>2, <3>4, <1>2
        <5> QED BY <3>2, <5>1, <1>10
      <4>2. x <= Len(its2[j].pieces) <=> x <= Len(its[j].pieces)
        BY <3>2, <3>4, <1>2, <1>3, <1>4, <1>7
      <4> QED BY <3>1, <3>4, <4>1, <4>2, <1>4, <1>7
    <3>5. CASE j # i
      <4>1. b.text[<<j - 1, x - 1>>] = a.text[<<j - 1, x - 1>>]
        <5>1. j - 1 # i - 1
          BY <3>2, <3>5, <1>2
        <5> QED BY <3>2, <5>1, <1>10
      <4> QED BY <3>1, <3>5, <4>1, <1>7
    <3> QED BY <3>3, <3>4, <3>5
  <2>2. ASSUME NEW j \in 1..MaxItems
        PROVE  b.tool[j - 1] # None <=> j \in DOMAIN its2 /\ its2[j].kind = "function_call"
    <3>1. a.tool[j - 1] # None <=> j \in DOMAIN its /\ its[j].kind = "function_call"
      BY <1>1 DEF Known
    <3> QED BY <3>1, <1>4, <1>7, <1>9
  <2> QED BY <2>1, <2>2 DEF Known
<1>18. ASSUME NEW j \in DOMAIN its2, its2[j].kind = "function_call", its2[j].stage = "live"
       PROVE  j - 1 \in b.sent <=> its2[j].pieces[1] > 0
  <2>1. j # i
    BY <1>4, <1>7, <1>18
  <2>2. j \in DOMAIN its /\ its2[j] = its[j]
    BY <2>1, <1>7
  <2> QED BY <2>2, <1>1, <1>9, <1>18 DEF Tracks
<1>19. \A x \in b.sent : x + 1 \in DOMAIN its2
  BY <1>1, <1>7, <1>9 DEF Tracks
<1>20. b.sawToolUse <=> \E j \in DOMAIN its2 : its2[j].kind = "function_call"
  <2>1. \A j \in DOMAIN its : its2[j].kind = its[j].kind
    BY <1>4, <1>7
  <2> QED BY <2>1, <1>1, <1>7, <1>9 DEF Tracks
<1>21. OpensSlot(its, a, c, its2, s0, b, d, n)
  BY <1>7, <1>8, <1>9, <1>12, <1>14, <1>15, <1>16, <1>17, <1>18, <1>19, <1>20 DEF OpensSlot
<1>22. Matches(its2, b, n) /\ Follows(its2, b, d, "none")
  BY <1>21, SlotOpens
<1> QED BY <1>22 DEF its2

LEMMA AddPartAnswered ==
  ASSUME NEW its, NEW a, NEW n \in Nat, NEW c, Matches(its, a, n), a.terminal = "none",
         Follows(its, a, c, "none"),
         NEW i \in DOMAIN its, its[i].kind = "message", its[i].stage = "live",
         NEW p, p = Len(its[i].pieces), p < MaxParts
  PROVE  /\ Answered(Begun(its, i, 0), OnEvent(a, Event("part.added", i - 1, p, "output_text")), c, n)
         /\ Answered(Begun(its, i, 1), OnEvent(a, Event("text.delta", i - 1, p, PiecesOf(i - 1, p, 1))), c, n)
<1> DEFINE b == WithPart(a, i - 1, p)
           f == Append(StartMessage(a), Frame("content_block_start", a.next, "text"))
           x == PiecesOf(i - 1, p, 1)
           g == Frame("content_block_delta", a.next, x)
           t0 == OnEvent(a, Event("part.added", i - 1, p, "output_text"))
           t1 == OnEvent(a, Event("text.delta", i - 1, p, x))
<1>1. /\ ItemsOK(its) /\ Synced(a, c) /\ a \in AdapterState /\ Known(its, a) /\ a.next \in Nat
      /\ a.text \in [Outputs \X Parts -> Nat \union {None}]
  BY FollowsSynced, AdapterFields DEF Matches
<1>2. /\ i - 1 \in Outputs /\ i \in 1..MaxItems /\ p \in Nat /\ p \in Parts /\ p + 1 \in 1..MaxParts /\ (p + 1) - 1 = p
      /\ 1 \in 0..MaxPieces /\ 0 \in 0..MaxPieces
  BY <1>1, ItemFacts, AdapterAssumption DEF Parts
<1>3. a.text[<<i - 1, p>>] = None
  <2>1. ~(p + 1 <= Len(its[i].pieces))
    BY <1>2
  <2> QED BY <2>1, <1>1, <1>2 DEF Known
<1>4. OpenTextBlock(a, i - 1, p) = Out(b, f)
  <2>1. b = [a EXCEPT !.started = TRUE, !.next = @ + 1, !.text[<<i - 1, p>>] = a.next,
                      !.open = @ \union {a.next}]
    BY DEF WithPart, WithText
  <2> HIDE DEF b, f
  <2> QED BY <2>1, <1>3 DEF OpenTextBlock, f
<1>5. Grown(a, b, [a.text EXCEPT ![<<i - 1, p>>] = a.next], a.tool, a.sawToolUse)
  <2> DEFINE T == [a.text EXCEPT ![<<i - 1, p>>] = a.next]
  <2>1. T \in TextIndices
    BY <1>1, <1>2 DEF TextIndices
  <2>2. b = WithText(a, T)
    BY DEF WithPart
  <2>3. a \in AdapterState
    BY <1>1
  <2> HIDE DEF T, b
  <2>4. Grown(a, b, T, a.tool, a.sawToolUse)
    BY ONLY <2>1, <2>2, <2>3, TextUpdated
  <2> QED BY <2>4 DEF T
<1>6. /\ b \in AdapterState /\ b.next = a.next + 1 /\ b.started = TRUE /\ b.open = a.open \union {a.next}
      /\ b.text = [a.text EXCEPT ![<<i - 1, p>>] = a.next] /\ b.terminal = "none"
  BY <1>5 DEF Grown
<1>7. b.text[<<i - 1, p>>] = a.next
  BY <1>1, <1>2, <1>6
<1>8. x \in Texts /\ x \in Seq(Piece)
  BY <1>2, PieceSeqs
<1> HIDE DEF b
<1>9. Cardinality(OpenOf(c)) < n
  BY <1>1, PartRoom
<1>10. PICK d : Reads(c, f, d, n) /\ Synced(b, d) /\ BlockAdded(c, d, a.next, "text")
  <2>1. /\ Synced(a, c) /\ "text" \in {"text", "tool_use"} /\ Cardinality(OpenOf(c)) < n
        /\ b \in AdapterState /\ b.started /\ b.next = a.next + 1 /\ b.open = a.open \union {a.next}
    BY <1>1, <1>6, <1>9
  <2> QED BY ONLY <2>1, Opening
<1>11. /\ \A k \in 1..a.next : d.blocks[k] = c.blocks[k]
       /\ d.blocks[a.next + 1].kind = "text" /\ d.blocks[a.next + 1].text = <<>>
  BY <1>10 DEF BlockAdded
<1>12. Answered(Begun(its, i, 0), t0, c, n)
  <2>1. t0 = Out(b, f)
    <3>1. t0 = OpenTextBlock(a, i - 1, p)
      BY DEF OnEvent, Event, Succeeding
    <3> HIDE DEF t0, f
    <3> QED BY <3>1, <1>4
  <2>2. d.blocks[a.next + 1].text = PiecesOf(i - 1, p, 0)
    BY <1>2, <1>11, PieceSeqs
  <2>3. Matches(Begun(its, i, 0), b, n) /\ Follows(Begun(its, i, 0), b, d, "none")
    <3>1. b = WithPart(a, i - 1, p) /\ 0 \in {0, 1}
      BY DEF b
    <3> QED BY <3>1, <2>2, <1>10, <1>11, PartOpens
  <2>4. t0.ad = b /\ t0.frames = f
    BY <2>1 DEF Out
  <2> HIDE DEF t0, f
  <2> QED BY <2>3, <2>4, <1>6, <1>10 DEF Answered
<1>13. Answered(Begun(its, i, 1), t1, c, n)
  <2>1. t1 = Out(b, Append(f, g))
    <3>1. t1 = TextDelta(a, Event("text.delta", i - 1, p, x))
      BY DEF OnEvent, Event, Succeeding
    <3> DEFINE v == Event("text.delta", i - 1, p, x)
    <3>2. v.o = i - 1 /\ v.p = p /\ v.what = x
      BY DEF Event
    <3> HIDE DEF t1, f, x, v
    <3>3. OpenTextBlock(a, i - 1, p).ad = b /\ OpenTextBlock(a, i - 1, p).frames = f
      BY <1>4 DEF Out
    <3>4. TextDelta(a, v) = Out(b, Append(f, g))
      BY <3>2, <3>3, <1>7 DEF TextDelta
    <3> QED BY <3>1, <3>4 DEF v
  <2>2. PICK e : /\ Reads(d, <<g>>, e, n) /\ Synced(b, e) /\ TextAdded(d, e, b.next, a.next, x)
    <3>1. Synced(b, d) /\ a.next \in b.open /\ x \in Texts
      BY <1>6, <1>8, <1>10
    <3> HIDE DEF x
    <3> QED BY ONLY <3>1, Saying
  <2>3. Reads(c, Append(f, g), e, n)
    <3>1. Reads(c, f \o <<g>>, e, n)
      BY <2>2, <1>10, ReadsConcat
    <3>2. f \in Seq(Frames) /\ <<g>> \in Seq(Frames)
      BY <2>2, <1>10, ReadsType
    <3> HIDE DEF f, g
    <3>3. f \o <<g>> = Append(f, g)
      BY <3>2
    <3> QED BY <3>1, <3>3
  <2> HIDE DEF x, g, f
  <2>4. \A k \in 1..a.next : e.blocks[k] = c.blocks[k]
    <3>1. \A k \in 1..a.next : k \in 1..b.next /\ k # a.next + 1
      BY <1>1, <1>6
    <3> QED BY <3>1, <2>2, <1>11 DEF TextAdded
  <2>5. e.blocks[a.next + 1].kind = "text" /\ e.blocks[a.next + 1].text = x
    <3>1. <<>> \o x = x
      BY <1>8
    <3> QED BY <3>1, <2>2, <1>11 DEF TextAdded
  <2>6. Matches(Begun(its, i, 1), b, n) /\ Follows(Begun(its, i, 1), b, e, "none")
    <3>1. b = WithPart(a, i - 1, p) /\ 1 \in {0, 1}
      BY DEF b
    <3> QED BY <3>1, <2>2, <2>4, <2>5, PartOpens DEF x
  <2>7. t1.ad = b /\ t1.frames = Append(f, g)
    BY <2>1 DEF Out
  <2> HIDE DEF t1
  <2> QED BY <2>3, <2>6, <2>7, <1>6 DEF Answered
<1> QED BY <1>12, <1>13

-----------------------------------------------------------------------------
\* The terminal events.

\* The adapter has said the last of its message, and a client that reads it has the whole.
Ended(its, t, c, n, v, terminal) ==
  /\ Matches(its, t.ad, n) /\ t.ad.terminal = terminal
  /\ \E d : Reads(c, t.frames, d, n) /\ Follows(its, t.ad, d, v)

\* The frames of an ending can be read once every block is closed.
LEMMA TwoFrames ==
  ASSUME NEW S, NEW f \in S, NEW g \in S
  PROVE  <<f>> \o <<g>> = <<f, g>>
<1> DEFINE x == <<f>> \o <<g>>
           y == <<f, g>>
<1>1. x \in Seq(S) /\ Len(x) = 2 /\ x[1] = f /\ x[2] = g
  <2>1. <<f>> \in Seq(S) /\ <<g>> \in Seq(S) /\ Len(<<f>>) = 1 /\ Len(<<g>>) = 1
    OBVIOUS
  <2> QED BY <2>1
<1>2. y \in Seq(S) /\ Len(y) = 2 /\ y[1] = f /\ y[2] = g
  OBVIOUS
<1> HIDE DEF x, y
<1>3. \A k \in 1..2 : x[k] = y[k]
  <2> TAKE k \in 1..2
  <2>1. k = 1 \/ k = 2
    OBVIOUS
  <2> QED BY <2>1, <1>1, <1>2
<1>4. x = y
  BY <1>1, <1>2, <1>3
<1> QED BY <1>4 DEF x, y

EndingFrames(w) == <<Frame("message_delta", None, w), Frame("message_stop", None, <<>>)>>

LEMMA ReadsEnding ==
  ASSUME NEW c \in ClientState, NEW n, c.phase = "started", OpenOf(c) = {}, NEW w \in Endings
  PROVE  \E d \in ClientState :
           /\ Reads(c, EndingFrames(w), d, n)
           /\ d.phase = "done" /\ d.ending = w /\ d.blocks = c.blocks
<1> DEFINE f == Frame("message_delta", None, w)
           g == Frame("message_stop", None, <<>>)
           e == Understand(c, f)
           d == Understand(e, g)
<1>1. /\ f \in Frames /\ f.type = "message_delta" /\ f.what = w
      /\ g \in Frames /\ g.type = "message_stop"
  <2>1. <<>> \in Texts
    BY DEF Texts
  <2> QED BY <2>1 DEF Frame, Frames, FrameTypes
<1> HIDE DEF f, g
<1>2. e = [c EXCEPT !.phase = "told", !.ending = w] /\ e \in ClientState /\ e.phase = "told"
  BY <1>1, HearEnd
<1>3. Reads(c, <<f>>, e, n)
  BY <1>1, ReadsOne DEF Acceptable
<1> HIDE DEF e
<1>4. d = [e EXCEPT !.phase = "done"] /\ d \in ClientState /\ d.phase = "done"
  BY <1>1, <1>2, HearEnd
<1>5. Reads(e, <<g>>, d, n)
  BY <1>1, <1>2, ReadsOne DEF Acceptable
<1> HIDE DEF d
<1>6. d.ending = w /\ d.blocks = c.blocks
  <2>1. e.ending = w /\ e.blocks = c.blocks
    BY <1>2 DEF ClientState
  <2> QED BY <2>1, <1>2, <1>4 DEF ClientState
<1>7. Reads(c, <<f>> \o <<g>>, d, n)
  BY <1>3, <1>5, ReadsConcat
<1>8. <<f>> \o <<g>> = <<f, g>>
  BY <1>1, TwoFrames
<1> QED BY <1>4, <1>6, <1>7, <1>8 DEF f, g, EndingFrames

\* The adapter after _finalize.
Finished(a, u) == [a EXCEPT !.started = TRUE, !.open = {}, !.usage = u, !.terminal = "success"]
FinishedAs(a, u, b) ==
  /\ b \in AdapterState /\ b.text = a.text /\ b.tool = a.tool /\ b.next = a.next /\ b.open = {}
  /\ b.sent = a.sent /\ b.started = TRUE /\ b.terminal = "success" /\ b.sawToolUse = a.sawToolUse
  /\ b.usage = u

LEMMA FinishedFields ==
  ASSUME NEW a \in AdapterState, NEW u \in {"zero", "created", "final"}, NEW b, b = Finished(a, u)
  PROVE  FinishedAs(a, u, b)
BY DEF FinishedAs, Finished, AdapterState

StartedAs(a, b) ==
  /\ b \in AdapterState /\ b.next = a.next /\ b.open = a.open /\ b.started = TRUE

LEMMA StartedFields ==
  ASSUME NEW a \in AdapterState, NEW b, b = [a EXCEPT !.started = TRUE]
  PROVE  StartedAs(a, b)
BY DEF StartedAs, AdapterState

LEMMA FinalizeEnds ==
  ASSUME NEW its, NEW a, NEW n \in Nat, NEW c, Matches(its, a, n), a.terminal = "none",
         Follows(its, a, c, "none"), NEW v \in Succeeding, NEW used \in BOOLEAN
  PROVE  /\ Ended(its, Finalize(a, v, used), c, n, v, "success")
         /\ Finalize(a, v, used).ad.usage = IF used THEN "final" ELSE a.usage
<1> DEFINE u == IF used THEN "final" ELSE a.usage
           b == Finished(a, u)
           w == <<StopReason(v, a.sawToolUse), u>>
           z == <<Frame("message_delta", None, w), Frame("message_stop", None, <<>>)>>
           a1 == [a EXCEPT !.started = TRUE]
           s1 == StartMessage(a)
           s2 == Close(a, a.open).frames
           t == Finalize(a, v, used)
<1>1. t.ad = b /\ t.frames = s1 \o s2 \o z
  BY DEF Finalize, Out, Finished
<1>2. /\ ItemsOK(its) /\ Synced(a, c) /\ a \in AdapterState /\ c \in ClientState /\ a.started \in BOOLEAN
      /\ c.phase = (IF a.started THEN "started" ELSE "new") /\ Len(c.blocks) = a.next
      /\ OpenOf(c) = {j + 1 : j \in a.open} /\ a.open \subseteq 0..(a.next - 1)
      /\ a.usage \in {"zero", "created", "final"} /\ a.next \in Nat
  BY FollowsSynced, AdapterFields DEF Matches, Synced
<1>3. u \in {"zero", "created", "final"}
  BY <1>2
<1> HIDE DEF u, t
<1>4. FinishedAs(a, u, b)
  BY <1>2, <1>3, FinishedFields
<1>5. w \in Endings
  BY <1>3 DEF Endings, StopReason
<1>6. StartedAs(a, a1)
  BY <1>2, StartedFields
<1> HIDE DEF b, w, a1, s1, s2, z
<1>7. PICK c1 \in ClientState :
        /\ Reads(c, s1, c1, n)
        /\ c1.phase = "started" /\ c1.blocks = c.blocks /\ c1.ending = c.ending
  <2>1. c \in ClientState /\ a.started \in BOOLEAN /\ c.phase = (IF a.started THEN "started" ELSE "new")
    BY <1>2
  <2> QED BY ONLY <2>1, ReadsStartMessage DEF s1
<1>8. Synced(a1, c1)
  <2>1. OpenOf(c1) = OpenOf(c)
    BY <1>7 DEF OpenOf
  <2> QED BY <2>1, <1>2, <1>6, <1>7 DEF Synced, StartedAs
<1>9. /\ s2 = Close(a1, a.open).frames
      /\ Close(a1, a.open).ad = [a1 EXCEPT !.open = @ \ a.open]
  BY <1>6 DEF Close, Out, s2, StartedAs
<1>10. PICK d : /\ Reads(c1, s2, d, n)
                /\ Synced(Close(a1, a.open).ad, d) /\ SameTexts(c1, d, a1.next)
  BY <1>8, <1>9, Closing
<1>11. /\ d \in ClientState /\ d.phase = "started" /\ OpenOf(d) = {} /\ Len(d.blocks) = a.next
       /\ SameTexts(c, d, a.next)
  <2> DEFINE y == [a1 EXCEPT !.open = @ \ a.open]
  <2>1. y.open = {} /\ y.started = TRUE /\ y.next = a.next
    BY <1>2, <1>6 DEF AdapterState, StartedAs
  <2> HIDE DEF y
  <2>2. Synced(y, d)
    BY <1>9, <1>10 DEF y
  <2>3. SameTexts(c, d, a.next)
    BY <1>6, <1>7, <1>10 DEF SameTexts, StartedAs
  <2> QED BY <2>1, <2>2, <2>3 DEF Synced
<1>12. PICK e \in ClientState :
         Reads(d, z, e, n) /\ e.phase = "done" /\ e.ending = w /\ e.blocks = d.blocks
  <2>1. d \in ClientState /\ d.phase = "started" /\ OpenOf(d) = {} /\ w \in Endings
    BY <1>5, <1>11
  <2>2. z = EndingFrames(w)
    BY DEF z, EndingFrames
  <2> QED BY ONLY <2>1, <2>2, ReadsEnding
<1>13. Reads(c, s1 \o s2 \o z, e, n)
  <2>1. Reads(c, s1 \o s2, d, n)
    BY <1>7, <1>10, ReadsConcat
  <2> QED BY <2>1, <1>12, ReadsConcat
<1>14. SameSlots(its, its)
  BY <1>2, ItemFacts DEF SameSlots
<1>15. /\ \A s \in Slots(its) : Index(its, b, s) = Index(its, a, s)
       /\ Known(its, b) /\ Placed(its, b, n)
  <2>1. b.text = a.text /\ b.tool = a.tool /\ b.next = a.next /\ Known(its, a) /\ Placed(its, a, n)
    BY <1>4 DEF FinishedAs, Matches
  <2> QED BY <2>1, <1>2, <1>14, KeepSlots
<1>16. Matches(its, b, n)
  <2>1. Tracks(its, b)
    BY <1>4 DEF Matches, Tracks, FinishedAs
  <2> QED BY <2>1, <1>4, <1>15 DEF Matches, FinishedAs
<1>17. Follows(its, b, e, v)
  <2>1. OpenOf(e) = {}
    BY <1>11, <1>12 DEF OpenOf
  <2>2. ASSUME NEW s \in Slots(its)
        PROVE  /\ e.blocks[Index(its, b, s) + 1].kind = Block(its, s).kind
               /\ e.blocks[Index(its, b, s) + 1].text = Block(its, s).text
    <3>1. Index(its, a, s) + 1 \in 1..a.next
      BY PlaceFacts
    <3>2. /\ c.blocks[Index(its, a, s) + 1].kind = Block(its, s).kind
          /\ c.blocks[Index(its, a, s) + 1].text = Block(its, s).text
      BY DEF Follows
    <3> QED BY <3>1, <3>2, <1>11, <1>12, <1>15 DEF SameTexts
  <2>3. e.ending = <<StopReason(v, b.sawToolUse), b.usage>>
    BY <1>4, <1>12 DEF FinishedAs, w
  <2>4. {j + 1 : j \in b.open} = {}
    BY <1>4 DEF FinishedAs
  <2> QED BY <2>1, <2>2, <2>3, <2>4, <1>4, <1>11, <1>12 DEF Follows, FinishedAs
<1>18. b.usage = u
  BY <1>4 DEF FinishedAs
<1>19. b.terminal = "success"
  BY <1>4 DEF FinishedAs
<1> QED BY <1>1, <1>13, <1>16, <1>17, <1>18, <1>19 DEF Ended, t, u

FailedAs(a, b) ==
  /\ b \in AdapterState /\ b.text = a.text /\ b.tool = a.tool /\ b.next = a.next /\ b.open = a.open
  /\ b.sent = a.sent /\ b.started = a.started /\ b.terminal = "error" /\ b.sawToolUse = a.sawToolUse

LEMMA FailedFields ==
  ASSUME NEW a \in AdapterState, NEW b, b = [a EXCEPT !.terminal = "error"]
  PROVE  FailedAs(a, b)
BY DEF FailedAs, AdapterState

LEMMA ErrorEnds ==
  ASSUME NEW its, NEW a, NEW n \in Nat, NEW c, Matches(its, a, n), a.terminal = "none",
         Follows(its, a, c, "none"), NEW v
  PROVE  Ended(its, TerminateError(a), c, n, v, "error")
<1> DEFINE b == [a EXCEPT !.terminal = "error"]
           f == Frame("error", None, <<>>)
           d == Understand(c, f)
           t == TerminateError(a)
<1>1. t.ad = b /\ t.frames = <<f>>
  BY DEF TerminateError, Out
<1>2. /\ ItemsOK(its) /\ Synced(a, c) /\ a \in AdapterState /\ c \in ClientState /\ a.started \in BOOLEAN
      /\ c.phase \in {"new", "started"} /\ Len(c.blocks) = a.next
      /\ OpenOf(c) = {j + 1 : j \in a.open}
  BY FollowsSynced, AdapterFields DEF Matches, Synced
<1>3. FailedAs(a, b)
  BY <1>2, FailedFields
<1>4. f \in Frames /\ f.type = "error"
  <2>1. <<>> \in Texts
    BY DEF Texts
  <2> QED BY <2>1 DEF Frame, Frames, FrameTypes
<1> HIDE DEF b, f, t
<1>5. Reads(c, <<f>>, d, n)
  BY <1>2, <1>4, ReadsOne DEF Acceptable
<1>6. d = [c EXCEPT !.phase = "failed"] /\ d \in ClientState /\ d.phase = "failed"
  BY <1>2, <1>4, HearEnd
<1> HIDE DEF d
<1>7. d.blocks = c.blocks
  BY <1>2, <1>6 DEF ClientState
<1>8. SameSlots(its, its)
  BY <1>2, ItemFacts DEF SameSlots
<1>9. /\ \A s \in Slots(its) : Index(its, b, s) = Index(its, a, s)
      /\ Known(its, b) /\ Placed(its, b, n)
  <2>1. b.text = a.text /\ b.tool = a.tool /\ b.next = a.next /\ Known(its, a) /\ Placed(its, a, n)
    BY <1>3 DEF FailedAs, Matches
  <2> QED BY <2>1, <1>2, <1>8, KeepSlots
<1>10. Matches(its, b, n)
  <2>1. Tracks(its, b)
    BY <1>3 DEF Matches, Tracks, FailedAs
  <2> QED BY <2>1, <1>3, <1>9 DEF Matches, FailedAs
<1>11. Follows(its, b, d, v)
  <2>1. OpenOf(d) = OpenOf(c)
    BY <1>7 DEF OpenOf
  <2> QED BY <2>1, <1>2, <1>3, <1>6, <1>7, <1>9 DEF Follows, FailedAs
<1> QED BY <1>1, <1>3, <1>5, <1>10, <1>11 DEF Ended, t, FailedAs

LEMMA VerdictEnds ==
  ASSUME NEW its, NEW a, NEW n \in Nat, NEW c, Matches(its, a, n), a.terminal = "none",
         Follows(its, a, c, "none"), NEW v \in Verdict, NEW used \in BOOLEAN,
         NEW t, t = OnEvent(a, Event(v, 0, 0, IF used THEN "usage" ELSE "none"))
  PROVE  /\ v \in Succeeding => Ended(its, t, c, n, v, "success") /\ (used => t.ad.usage = "final")
         /\ v \notin Succeeding => Ended(its, t, c, n, v, "error")
<1> DEFINE e == Event(v, 0, 0, IF used THEN "usage" ELSE "none")
<1>1. e.type = v /\ (e.what = "usage" <=> used)
  BY DEF Event
<1>2. t = OnEvent(a, e)
  OBVIOUS
<1> HIDE DEF e
<1>3. CASE v \in Succeeding
  <2>1. t = Finalize(a, v, e.what = "usage")
    BY <1>1, <1>2, <1>3 DEF OnEvent, Succeeding
  <2>2. (e.what = "usage") = used
    BY <1>1
  <2>3. t = Finalize(a, v, used)
    BY <2>1, <2>2
  <2> QED BY <2>3, <1>3, FinalizeEnds
<1>4. CASE v \notin Succeeding
  <2>1. v \in {"failed", "error"}
    BY <1>4 DEF Verdict
  <2>2. t = TerminateError(a)
    BY <1>1, <1>2, <2>1 DEF OnEvent, Succeeding
  <2> QED BY <2>2, <1>4, ErrorEnds
<1> QED BY <1>3, <1>4

-----------------------------------------------------------------------------
\* The steps.

\* The adapter has said nothing the client has not read, and is to say more.
Ready ==
  /\ lanes \in Nat /\ Matches(items, ad, lanes) /\ ad.terminal = "none" /\ Follows(items, ad, client, "none")

LEMMA HeardAll ==
  ASSUME StreamInv, Listening
  PROVE  /\ lanes \in Nat /\ Matches(items, ad, lanes) /\ Follows(items, ad, client, verdict)
         /\ client \in ClientState
<1>1. lanes \in Nat
  BY DEF StreamInv
<1>2. PICK d : Reads(client, outbox, d, lanes) /\ Follows(items, ad, d, verdict)
  BY DEF StreamInv, OutboxInv, Listening
<1>3. d = client
  BY <1>2, NothingRead DEF Listening
<1> QED BY <1>1, <1>2, <1>3 DEF StreamInv, ClientInv

LEMMA Readies ==
  ASSUME StreamInv, Listening, verdict = "none"
  PROVE  Ready
<1>1. ad.terminal = "none"
  BY DEF StreamInv, Verdicts, Listening
<1> QED BY <1>1, HeardAll DEF Ready

LEMMA Said ==
  ASSUME StreamInv, verdict = "none", NEW its2, NEW e, Answered(its2, OnEvent(ad, e), client, lanes),
         Hear(e), items' = its2, verdict' = verdict, lanes' = lanes,
         reported' \in {reported, reported \union {"created"}}
  PROVE  StreamInv'
<1> DEFINE t == OnEvent(ad, e)
<1>1. ad' = t.ad /\ outbox' = t.frames /\ gen' = gen /\ client' = client /\ gen = "reading" /\ outbox = <<>>
  BY DEF Hear, Listening
<1>2. Matches(its2, t.ad, lanes) /\ t.ad.terminal = "none"
  BY DEF Answered
<1>3. PICK d : Reads(client, t.frames, d, lanes) /\ Follows(its2, t.ad, d, "none")
  BY DEF Answered
<1> HIDE DEF t
<1>4. ad.terminal = "none"
  BY <1>1, Readies DEF Ready, Listening
<1>5. Matches(items, ad, lanes)'
  BY <1>1, <1>2
<1>6. OutboxInv'
  BY <1>1, <1>3 DEF OutboxInv
<1>7. ClientInv'
  <2>1. client \in ClientState /\ client.phase # "confused"
    BY DEF StreamInv, ClientInv
  <2>2. client.phase \notin {"told", "done", "failed"}
    BY <1>4 DEF StreamInv, ClientInv
  <2> QED BY <1>1, <2>1, <2>2 DEF ClientInv
<1>8. Verdicts'
  BY <1>1, <1>2, <1>4 DEF StreamInv, Verdicts, Succeeding
<1> QED BY <1>5, <1>6, <1>7, <1>8 DEF StreamInv

LEMMA Told ==
  ASSUME StreamInv, Listening, ad.terminal = "none", NEW t, NEW terminal \in {"success", "error"},
         Ended(items, t, client, lanes, verdict', terminal),
         items' = items, lanes' = lanes, client' = client, ad' = t.ad, outbox' = t.frames, Verdicts', gen' # "gone"
  PROVE  StreamInv'
<1>1. Matches(items, t.ad, lanes) /\ t.ad.terminal = terminal
  BY DEF Ended
<1>2. PICK d : Reads(client, t.frames, d, lanes) /\ Follows(items, t.ad, d, verdict')
  BY DEF Ended
<1>3. OutboxInv'
  BY <1>2 DEF OutboxInv
<1>4. ClientInv'
  <2>1. client \in ClientState /\ client.phase # "confused"
    BY DEF StreamInv, ClientInv
  <2>2. client.phase \notin {"told", "done", "failed"}
    BY DEF StreamInv, ClientInv
  <2>3. gen' # "gone"
    OBVIOUS
  <2> QED BY <1>1, <2>1, <2>2, <2>3 DEF ClientInv
<1>5. Matches(items, ad, lanes)'
  BY <1>1
<1> QED BY <1>3, <1>4, <1>5 DEF StreamInv

LEMMA CreatedSteps ==
  ASSUME StreamInv, NEW used \in BOOLEAN, Created(used)
  PROVE  StreamInv'
<1> DEFINE x == IF used THEN "usage" ELSE "none"
           e == Event("created", 0, 0, x)
<1>1. /\ verdict = "none" /\ Hear(e) /\ items' = items /\ verdict' = verdict /\ lanes' = lanes
      /\ reported' \in {reported, reported \union {"created"}}
  BY DEF Created
<1>2. Ready
  BY <1>1, Readies DEF Hear
<1>3. x \in {"usage", "none"}
  OBVIOUS
<1> HIDE DEF x
<1>4. Answered(items, OnEvent(ad, e), client, lanes)
  BY <1>2, <1>3, CreatedAnswered DEF Ready
<1> HIDE DEF e
<1> QED BY <1>1, <1>4, Said

LEMMA AddItemSteps ==
  ASSUME StreamInv, NEW kind \in {"message", "function_call", "reasoning"}, AddItem(kind)
  PROVE  StreamInv'
<1> DEFINE quiet == [kind |-> kind, stage |-> "live", pieces |-> <<>>]
           call == [kind |-> "function_call", stage |-> "live", pieces |-> <<0>>]
           e == Event("item.added", Len(items), 0, kind)
<1>1. /\ verdict = "none" /\ Hear(e) /\ verdict' = verdict /\ lanes' = lanes /\ reported' = reported
      /\ Len(items) < MaxItems /\ Cardinality(Busy(items)) < lanes
  BY DEF AddItem, InProgress, Busy
<1>2. Ready
  BY <1>1, Readies DEF Hear
<1>3. CASE kind # "function_call"
  <2>1. items' = Append(items, quiet)
    BY <1>3 DEF AddItem
  <2>2. kind \in {"message", "reasoning"}
    BY <1>3
  <2>3. Answered(Append(items, quiet), OnEvent(ad, e), client, lanes)
    BY <1>1, <1>2, <2>2, AddQuietAnswered DEF Ready
  <2> HIDE DEF quiet, e
  <2> QED BY <1>1, <2>1, <2>3, Said
<1>4. CASE kind = "function_call"
  <2>1. items' = Append(items, call)
    BY <1>4 DEF AddItem
  <2>2. Answered(Append(items, call), OnEvent(ad, e), client, lanes)
    BY <1>1, <1>2, <1>4, AddCallAnswered DEF Ready
  <2> HIDE DEF call, e
  <2> QED BY <1>1, <2>1, <2>2, Said
<1> QED BY <1>3, <1>4

\* What an item of the response says.
LEMMA SaysSteps ==
  ASSUME StreamInv, NEW i, NEW item, NEW e, Says(i, item, e),
         Ready => Answered([items EXCEPT ![i] = item], OnEvent(ad, e), client, lanes)
  PROVE  StreamInv'
<1> DEFINE its2 == [items EXCEPT ![i] = item]
<1>1. /\ verdict = "none" /\ Hear(e) /\ verdict' = verdict /\ lanes' = lanes /\ reported' = reported
      /\ items' = its2
  BY DEF Says
<1>2. Ready
  BY <1>1, Readies DEF Hear
<1>3. Answered(its2, OnEvent(ad, e), client, lanes)
  BY <1>2
<1> HIDE DEF its2
<1> QED BY <1>1, <1>3, Said

LEMMA AddPartSteps ==
  ASSUME StreamInv, NEW i \in DOMAIN items, AddPart(i)
  PROVE  StreamInv'
<1> DEFINE p == Len(items[i].pieces)
           begun(m) == [items[i] EXCEPT !.stage = "part", !.pieces = Append(@, m)]
           e0 == Event("part.added", i - 1, p, "output_text")
           e1 == Event("text.delta", i - 1, p, PiecesOf(i - 1, p, 1))
<1>1. items[i].kind = "message" /\ items[i].stage = "live" /\ p < MaxParts
  BY DEF AddPart
<1>2. Says(i, begun(0), e0) \/ Says(i, begun(1), e1)
  BY DEF AddPart
<1>3. Ready => /\ Answered([items EXCEPT ![i] = begun(0)], OnEvent(ad, e0), client, lanes)
               /\ Answered([items EXCEPT ![i] = begun(1)], OnEvent(ad, e1), client, lanes)
  <2> SUFFICES ASSUME Ready
               PROVE  /\ Answered(Begun(items, i, 0), OnEvent(ad, e0), client, lanes)
                      /\ Answered(Begun(items, i, 1), OnEvent(ad, e1), client, lanes)
    BY DEF Begun
  <2> QED BY <1>1, AddPartAnswered DEF Ready
<1> HIDE DEF begun, e0, e1
<1> QED BY <1>2, <1>3, SaysSteps

LEMMA SayMoreSteps ==
  ASSUME StreamInv, NEW i \in DOMAIN items, SayMore(i)
  PROVE  StreamInv'
<1> DEFINE n == Len(items[i].pieces)
           k == items[i].pieces[n] + 1
           item == [items[i] EXCEPT !.pieces[n] = k]
           e == Event(IF items[i].kind = "message" THEN "text.delta" ELSE "arguments.delta",
                      i - 1, n - 1, <<<<i - 1, n - 1, k>>>>)
<1>1. /\ \/ items[i].kind = "message" /\ items[i].stage = "part"
         \/ items[i].kind = "function_call" /\ items[i].stage = "live"
      /\ k <= MaxPieces /\ Says(i, item, e)
  BY DEF SayMore
<1>2. Ready => Answered([items EXCEPT ![i] = item], OnEvent(ad, e), client, lanes)
  <2> SUFFICES ASSUME Ready PROVE Answered([items EXCEPT ![i] = item], OnEvent(ad, e), client, lanes)
    OBVIOUS
  <2>1. CASE items[i].kind = "message"
    <3>1. e = Event("text.delta", i - 1, n - 1, <<<<i - 1, n - 1, k>>>>) /\ items[i].stage = "part"
      BY <1>1, <2>1
    <3> HIDE DEF n
    <3>2. n = Len(items[i].pieces)
      BY DEF n
    <3> QED BY <2>1, <3>1, <3>2, <1>1, SayTextAnswered DEF Ready
  <2>2. CASE items[i].kind = "function_call"
    <3>1. n = 1 /\ n - 1 = 0
      <4>1. KindOK(items[i])
        BY DEF Ready, Matches, ItemsOK
      <4> QED BY <4>1, <2>2 DEF KindOK
    <3>2. /\ e = Event("arguments.delta", i - 1, 0, <<<<i - 1, 0, k>>>>) /\ items[i].stage = "live"
          /\ k = items[i].pieces[1] + 1 /\ item = [items[i] EXCEPT !.pieces[1] = k]
      BY <1>1, <2>2, <3>1
    <3> HIDE DEF n, k
    <3> QED BY <2>2, <3>2, <1>1, SayArgumentsAnswered DEF Ready
  <2> QED BY <1>1, <2>1, <2>2
<1> HIDE DEF item, e
<1> QED BY <1>1, <1>2, SaysSteps

LEMMA PartDoneSteps ==
  ASSUME StreamInv, NEW i \in DOMAIN items, PartDone(i)
  PROVE  StreamInv'
<1> DEFINE item == [items[i] EXCEPT !.stage = "live"]
           e == Event("part.done", i - 1, Len(items[i].pieces) - 1, <<>>)
<1>1. items[i].kind = "message" /\ items[i].stage = "part" /\ Says(i, item, e)
  BY DEF PartDone
<1>2. Ready => Answered([items EXCEPT ![i] = item], OnEvent(ad, e), client, lanes)
  BY <1>1, PartDoneAnswered DEF Ready
<1> HIDE DEF item, e
<1> QED BY <1>1, <1>2, SaysSteps

LEMMA CompleteArgumentsSteps ==
  ASSUME StreamInv, NEW i \in DOMAIN items, CompleteArguments(i)
  PROVE  StreamInv'
<1>1. items[i].kind = "function_call" /\ items[i].stage = "live"
  BY DEF CompleteArguments
<1>2. PICK m \in 0..MaxPieces :
        /\ items[i].pieces[1] \in {0, m}
        /\ Says(i, [items[i] EXCEPT !.stage = "said", !.pieces = <<m>>],
                Event("arguments.done", i - 1, 0, PiecesOf(i - 1, 0, m)))
  BY DEF CompleteArguments
<1> DEFINE item == [items[i] EXCEPT !.stage = "said", !.pieces = <<m>>]
           e == Event("arguments.done", i - 1, 0, PiecesOf(i - 1, 0, m))
<1>3. Ready => Answered([items EXCEPT ![i] = item], OnEvent(ad, e), client, lanes)
  BY <1>1, <1>2, CompleteArgumentsAnswered DEF Ready
<1>4. Says(i, item, e)
  BY <1>2
<1> HIDE DEF item, e
<1> QED BY <1>3, <1>4, SaysSteps

LEMMA ItemDoneSteps ==
  ASSUME StreamInv, NEW i \in DOMAIN items, ItemDone(i)
  PROVE  StreamInv'
<1> DEFINE item == [items[i] EXCEPT !.stage = "done"]
           e == Event("item.done", i - 1, 0, <<>>)
<1>1. Says(i, item, e)
  BY DEF ItemDone
<1>2. Ready => Answered([items EXCEPT ![i] = item], OnEvent(ad, e), client, lanes)
  <2> SUFFICES ASSUME Ready PROVE Answered([items EXCEPT ![i] = item], OnEvent(ad, e), client, lanes)
    OBVIOUS
  <2>1. items[i].stage # "done"
    <3>1. items[i].kind \in {"message", "function_call", "reasoning"}
      <4>1. items \in Seq(Item)
        BY DEF Ready, Matches, ItemsOK
      <4>2. items[i] \in Item
        BY <4>1, SeqElement
      <4> QED BY <4>2 DEF Item
    <3> QED BY <3>1 DEF ItemDone
  <2> QED BY <2>1, ItemDoneAnswered DEF Ready
<1> HIDE DEF item, e
<1> QED BY <1>1, <1>2, SaysSteps

LEMMA VerdictSteps ==
  ASSUME StreamInv, NEW v \in Verdict, NEW used \in BOOLEAN, GiveVerdict(v, used)
  PROVE  StreamInv'
<1> DEFINE t == OnEvent(ad, Event(v, 0, 0, IF used THEN "usage" ELSE "none"))
<1>1. /\ verdict = "none" /\ Listening /\ verdict' = v /\ lanes' = lanes /\ items' = items /\ client' = client
      /\ ad' = t.ad /\ outbox' = t.frames /\ gen' = "reading" /\ gen = "reading"
      /\ reported' = IF used /\ v \in Succeeding THEN reported \union {"final"} ELSE reported
  BY DEF GiveVerdict, Hear, Listening
<1>2. Ready
  BY <1>1, Readies
<1>3. /\ v \in Succeeding => Ended(items, t, client, lanes, v, "success") /\ (used => t.ad.usage = "final")
      /\ v \notin Succeeding => Ended(items, t, client, lanes, v, "error")
  BY <1>2, VerdictEnds DEF Ready
<1> HIDE DEF t
<1>4. /\ v \in Succeeding => t.ad.terminal = "success"
      /\ v \notin Succeeding => t.ad.terminal = "error"
  BY <1>3 DEF Ended
<1>5. Verdicts'
  <2>1. v # "none"
    BY DEF Verdict, Succeeding
  <2>2. /\ verdict \notin Succeeding /\ reported \subseteq {"created", "final"} /\ "final" \notin reported
    <3>1. verdict \notin Succeeding
      BY <1>1 DEF Succeeding
    <3> QED BY <3>1 DEF StreamInv, Verdicts
  <2>3. reported' \subseteq {"created", "final"} /\ ("final" \in reported' => used /\ v \in Succeeding)
    BY <1>1, <2>2
  <2> QED BY <1>1, <1>3, <1>4, <2>1, <2>3 DEF Verdicts
<1>6. StreamInv /\ Listening /\ ad.terminal = "none" /\ gen' # "gone"
  BY <1>1, <1>2 DEF Ready
<1>7. CASE v \in Succeeding
  <2>1. Ended(items, t, client, lanes, verdict', "success")
    BY <1>1, <1>3, <1>7
  <2> QED BY <1>1, <1>5, <1>6, <2>1, Told
<1>8. CASE v \notin Succeeding
  <2>1. Ended(items, t, client, lanes, verdict', "error")
    BY <1>1, <1>3, <1>8
  <2> QED BY <1>1, <1>5, <1>6, <2>1, Told
<1> QED BY <1>7, <1>8

LEMMA UnchangedSteps ==
  ASSUME StreamInv, UNCHANGED vars
  PROVE  StreamInv'
BY DEF vars, StreamInv, Verdicts, ClientInv, OutboxInv

LEMMA RepeatVerdictSteps ==
  ASSUME StreamInv, NEW v \in Verdict, RepeatVerdict(v)
  PROVE  StreamInv'
<1> DEFINE e == Event(v, 0, 0, "usage")
<1>1. verdict # "none" /\ Listening /\ Hear(e) /\ UNCHANGED upstream
  BY DEF RepeatVerdict, Hear
<1>2. ad.terminal # "none"
  BY <1>1 DEF StreamInv, Verdicts, Listening
<1>3. OnEvent(ad, e).ad = ad /\ OnEvent(ad, e).frames = <<>>
  BY <1>2 DEF OnEvent, Out
<1> HIDE DEF e
<1>4. UNCHANGED vars
  BY <1>1, <1>3 DEF Hear, Listening, upstream, vars
<1> QED BY <1>4, UnchangedSteps

LEMMA EndSteps ==
  ASSUME StreamInv, EndWith(TerminateError(ad))
  PROVE  StreamInv'
<1> DEFINE t == TerminateError(ad)
<1>1. /\ Listening /\ ad' = t.ad /\ outbox' = t.frames /\ gen' = "ending" /\ lanes' = lanes /\ items' = items
      /\ verdict' = verdict /\ reported' = reported /\ client' = client /\ gen = "reading"
  BY DEF EndWith, Listening, upstream
<1>2. CASE ad.terminal = "none"
  <2>1. verdict = "none"
    BY <1>1, <1>2 DEF StreamInv, Verdicts
  <2>2. Ready
    BY <1>1, <2>1, Readies
  <2>3. Ended(items, t, client, lanes, verdict', "error")
    BY <2>2, ErrorEnds DEF Ready
  <2> HIDE DEF t
  <2>4. t.ad.terminal = "error"
    BY <2>3 DEF Ended
  <2>5. Verdicts'
    <3>1. verdict \notin Succeeding
      BY <2>1 DEF Succeeding
    <3> QED BY <1>1, <2>4, <3>1 DEF StreamInv, Verdicts
  <2> QED BY <1>1, <1>2, <2>3, <2>5, Told
<1>3. CASE ad.terminal # "none"
  <2>1. ad' = ad /\ outbox' = outbox
    BY <1>1, <1>3 DEF TerminateError, Out, Listening
  <2> HIDE DEF t
  <2>2. Verdicts'
    BY <1>1, <1>3, <2>1 DEF StreamInv, Verdicts
  <2>3. ClientInv' /\ OutboxInv'
    BY <1>1, <2>1 DEF StreamInv, ClientInv, OutboxInv
  <2>4. lanes' \in 1..MaxLanes /\ Matches(items, ad, lanes)'
    BY <1>1, <2>1 DEF StreamInv
  <2> QED BY <2>2, <2>3, <2>4 DEF StreamInv
<1> QED BY <1>2, <1>3

\* A client that was told how its message ended gets at most the message_stop.
LEMMA ReadsLast ==
  ASSUME NEW c, NEW s, NEW d, NEW n, Reads(c, s, d, n)
  PROVE  /\ c.phase \in {"done", "failed"} => d = c /\ s = <<>>
         /\ c.phase = "told" => d.phase \in {"told", "done"}
<1>1. c \in ClientState
  BY ReadsType
<1>2. ASSUME NEW x, NEW q, Reads(x, q, d, n), x.phase \in {"done", "failed"}
      PROVE  d = x /\ q = <<>>
  <2>1. q = <<>>
    <3> SUFFICES ASSUME q # <<>> PROVE FALSE
      OBVIOUS
    <3>1. Acceptable(x, Head(q), n)
      BY <1>2, ReadsFirst
    <3> QED BY <3>1, <1>2 DEF Acceptable
  <2> QED BY <2>1, <1>2, NothingRead
<1>3. ASSUME c.phase = "told" PROVE d.phase \in {"told", "done"}
  <2>1. CASE s = <<>>
    BY <2>1, <1>3, NothingRead
  <2>2. CASE s # <<>>
    <3>1. /\ Head(s) \in Frames /\ Acceptable(c, Head(s), n)
          /\ Reads(Understand(c, Head(s)), Tail(s), d, n)
      BY <2>2, ReadsFirst
    <3>2. Head(s).type = "message_stop"
      BY <3>1, <1>3 DEF Acceptable
    <3>3. Understand(c, Head(s)).phase = "done"
      BY <3>1, <3>2, <1>1, <1>3, HearEnd
    <3>4. d = Understand(c, Head(s))
      BY <3>1, <3>3, <1>2
    <3> QED BY <3>3, <3>4
  <2> QED BY <2>1, <2>2
<1> QED BY <1>2, <1>3

LEMMA YieldSteps ==
  ASSUME StreamInv, Yield
  PROVE  /\ StreamInv' /\ Head(outbox) \in Frames /\ client \in ClientState
         /\ Acceptable(client, Head(outbox), lanes)
<1>1. /\ outbox # <<>> /\ client' = Understand(client, Head(outbox)) /\ outbox' = Tail(outbox)
      /\ lanes' = lanes /\ items' = items /\ verdict' = verdict /\ reported' = reported /\ ad' = ad /\ gen' = gen
      /\ gen # "gone"
  BY DEF Yield, upstream
<1>2. PICK d : Reads(client, outbox, d, lanes) /\ Follows(items, ad, d, verdict)
  BY <1>1 DEF StreamInv, OutboxInv
<1>3. /\ Head(outbox) \in Frames /\ client \in ClientState /\ Acceptable(client, Head(outbox), lanes)
      /\ Reads(client', outbox', d, lanes)
  BY <1>1, <1>2, ReadsFirst, ReadsType
<1>4. client' \in ClientState /\ client'.phase # "confused"
  BY <1>1, <1>3, UnderstandType
<1>5. /\ client'.phase \in {"done", "failed"} => d = client'
      /\ client'.phase = "told" => d.phase \in {"told", "done"}
  BY <1>3, ReadsLast
<1>6. /\ d.phase \in {"told", "done"} => ad.terminal = "success"
      /\ d.phase = "failed" => ad.terminal = "error"
  <2>1. ad.terminal \in {"none", "success", "error"}
    BY AdapterFields DEF StreamInv, Matches
  <2> QED BY <2>1, <1>2 DEF Follows
<1>7. ClientInv'
  BY <1>1, <1>2, <1>4, <1>5, <1>6 DEF ClientInv
<1>8. OutboxInv'
  BY <1>1, <1>2, <1>3 DEF OutboxInv
<1>9. Verdicts' /\ Matches(items, ad, lanes)' /\ lanes' \in 1..MaxLanes
  BY <1>1 DEF StreamInv, Verdicts
<1> QED BY <1>3, <1>7, <1>8, <1>9 DEF StreamInv

LEMMA LeaveSteps ==
  ASSUME StreamInv, Leave \/ ClientGone
  PROVE  StreamInv'
<1>1. /\ lanes' = lanes /\ items' = items /\ verdict' = verdict /\ reported' = reported /\ ad' = ad
      /\ client' = client
  BY DEF Leave, ClientGone, upstream
<1>2. Matches(items, ad, lanes)' /\ lanes' \in 1..MaxLanes
  BY <1>1 DEF StreamInv
<1>3. CASE Leave
  <2>1. gen = "ending" /\ gen' = "ended" /\ outbox' = outbox
    BY <1>3 DEF Leave
  <2> QED BY <1>1, <1>2, <2>1 DEF StreamInv, Verdicts, ClientInv, OutboxInv
<1>4. CASE ClientGone
  <2>1. gen' = "gone" /\ outbox' = <<>>
    BY <1>4 DEF ClientGone
  <2> QED BY <1>1, <1>2, <2>1 DEF StreamInv, Verdicts, ClientInv, OutboxInv
<1> QED BY <1>3, <1>4

-----------------------------------------------------------------------------
\* The invariant.

LEMMA StreamInvInit ==
  ASSUME Init
  PROVE  StreamInv
<1>0. {MaxItems, MaxParts, MaxPieces, MaxLanes} \subseteq Nat \ {0}
  BY AdapterAssumption
<1>1. /\ lanes \in 1..MaxLanes /\ items = <<>> /\ verdict = "none" /\ reported = {} /\ ad = NewAdapter
      /\ outbox = <<>> /\ gen = "reading"
      /\ client = [phase |-> "new", blocks |-> <<>>, ending |-> "none"]
  BY DEF Init
<1>2. ad \in AdapterState
  BY <1>1 DEF NewAdapter, AdapterState
<1>3. /\ ad.started = FALSE /\ ad.terminal = "none" /\ ad.next = 0 /\ ad.open = {} /\ ad.sent = {}
      /\ ad.text = [k \in Outputs \X Parts |-> None] /\ ad.tool = [o \in Outputs |-> None]
      /\ ad.sawToolUse = FALSE
  BY <1>1 DEF NewAdapter
<1>4. items \in Seq(Item) /\ Len(items) = 0 /\ DOMAIN items = {}
  BY <1>1
<1>5. ItemsOK(items)
  BY <1>0, <1>4 DEF ItemsOK
<1>6. Slots(items) = {} /\ Busy(items) = {}
  BY <1>4 DEF Slots, Busy
<1>7. Known(items, ad)
  <2>1. \A i \in 1..MaxItems, p \in 1..MaxParts : ad.text[<<i - 1, p - 1>>] = None /\ ad.tool[i - 1] = None
    BY <1>0, <1>3 DEF Outputs, Parts
  <2>2. ASSUME NEW i \in 1..MaxItems PROVE ad.tool[i - 1] = None
    <3>1. i - 1 \in Outputs
      BY <1>0 DEF Outputs
    <3> QED BY <3>1, <1>3
  <2> QED BY <2>1, <2>2, <1>4 DEF Known
<1>8. Placed(items, ad, lanes)
  BY <1>3, <1>6 DEF Placed
<1>9. InTurn(items, lanes)
  <2>1. Cardinality({}) = 0
    BY FS_EmptySet
  <2>2. Cardinality(Busy(items)) <= lanes
    BY <2>1, <1>0, <1>1, <1>6
  <2> QED BY <2>2, <1>6 DEF InTurn
<1>10. Tracks(items, ad)
  BY <1>3, <1>4, <1>6 DEF Tracks
<1>11. Matches(items, ad, lanes)
  BY <1>2, <1>5, <1>7, <1>8, <1>9, <1>10 DEF Matches
<1>12. client \in ClientState /\ client.phase = "new" /\ client.blocks = <<>>
  BY <1>1 DEF ClientState
<1>13. Verdicts
  BY <1>1, <1>3 DEF Verdicts, Succeeding
<1>14. ClientInv
  BY <1>1, <1>12 DEF ClientInv
<1>15. OutboxInv
  <2>1. Reads(client, outbox, client, lanes)
    BY <1>1, <1>12, ReadsNone
  <2>2. OpenOf(client) = {}
    BY <1>12 DEF OpenOf
  <2>3. Follows(items, ad, client, verdict)
    BY <2>2, <1>3, <1>6, <1>12 DEF Follows
  <2> QED BY <2>1, <2>3 DEF OutboxInv
<1> QED BY <1>1, <1>11, <1>13, <1>14, <1>15 DEF StreamInv

LEMMA StreamInvStep ==
  ASSUME StreamInv, [Next]_vars
  PROVE  StreamInv'
<1>1. CASE UNCHANGED vars
  BY <1>1, UnchangedSteps
<1>2. CASE UpstreamSays
  BY <1>2, CreatedSteps, AddItemSteps, AddPartSteps, SayMoreSteps, PartDoneSteps, CompleteArgumentsSteps,
     ItemDoneSteps, VerdictSteps, RepeatVerdictSteps DEF UpstreamSays
<1>3. CASE Ends
  BY <1>3, EndSteps DEF Ends, EndOfStream, Break, FinalizeOnDisconnect
<1>4. CASE Yield
  BY <1>4, YieldSteps
<1>5. CASE Leave \/ ClientGone
  BY <1>5, LeaveSteps
<1>6. CASE Over
  BY <1>6, UnchangedSteps DEF Over
<1> QED BY <1>1, <1>2, <1>3, <1>4, <1>5, <1>6 DEF Next

\* What holds of every state: the items, the adapter's fields, the frames on their way and
\* the client fit together.
LEMMA StreamInvariant == Spec => []StreamInv
<1>1. Init => StreamInv
  BY StreamInvInit
<1>2. StreamInv /\ [Next]_vars => StreamInv'
  BY StreamInvStep
<1> QED BY <1>1, <1>2, PTL DEF Spec

-----------------------------------------------------------------------------
\* Every variable keeps its type, whatever the upstream says: no index of a frame is
\* anything but a number or none, and no item is ever past its bounds.
THEOREM StreamTypeCorrect == Spec => []TypeOK
<1>1. StreamInv => TypeOK
  <2> SUFFICES ASSUME StreamInv PROVE TypeOK
    OBVIOUS
  <2>1. /\ items \in Seq(Item) /\ Len(items) <= MaxItems /\ ad \in AdapterState
        /\ ad.open \subseteq 0..(ad.next - 1)
    BY DEF StreamInv, Matches, ItemsOK, Tracks
  <2>2. client.phase \in {"new", "started", "told", "done", "failed", "confused"}
    BY ClientFacts DEF StreamInv, ClientInv
  <2>3. outbox \in Seq(Frames)
    <3>1. CASE gen = "gone"
      <4>1. outbox = <<>>
        BY <3>1 DEF StreamInv, ClientInv
      <4> QED BY <4>1
    <3>2. CASE gen # "gone"
      BY <3>2, ReadsType DEF StreamInv, OutboxInv
    <3> QED BY <3>1, <3>2
  <2>4. \A f \in ToSet(outbox) : f.index \in Nat \union {None}
    <3>1. ToSet(outbox) \subseteq Frames
      BY <2>3, ToSetFacts
    <3>2. \A f \in Frames : f.index \in Nat \union {None}
      BY DEF Frames
    <3> QED BY <3>1, <3>2
  <2> QED BY <2>1, <2>2, <2>4 DEF StreamInv, Verdicts, TypeOK
<1> QED BY <1>1, StreamInvariant, PTL

\* A client is told of a success only if the upstream's own verdict was one, and of a
\* failure only if it was not: the adapter never makes up a success of a stream that broke
\* off, nor an error of one that had succeeded (messages_to_responses.py:676, :691).
THEOREM VerdictsAreTheUpstreams == Spec => []VerdictIsTheUpstreams
<1>1. StreamInv => VerdictIsTheUpstreams
  BY DEF StreamInv, Verdicts, ClientInv, VerdictIsTheUpstreams
<1> QED BY <1>1, StreamInvariant, PTL

\* A client that streams has, once it is done, what to_anthropic_response makes of the same
\* items for a client that does not: the indices the adapter gave place each part at one
\* block, every block is some part's, and with one item at a time the order is the same.
THEOREM StreamsAgreeWithSync == Spec => []StreamAgreesWithSync
<1>1. StreamInv => StreamAgreesWithSync
  <2> SUFFICES ASSUME StreamInv, client.phase = "done"
               PROVE  /\ \E place \in Bijection(SyncContent, DOMAIN client.blocks) :
                           \A s \in SyncContent :
                             /\ Streamed(place[s]) = SyncBlock(s)
                             /\ lanes = 1 => \A t \in SyncContent : Precedes(s, t) => place[s] < place[t]
                      /\ client.ending[1] = SyncStopReason
                      /\ "final" \in reported => client.ending[2] = "final"
    BY DEF StreamAgreesWithSync
  <2>1. /\ Follows(items, ad, client, verdict) /\ ad.terminal = "success"
        /\ client \in ClientState /\ Matches(items, ad, lanes)
    BY DEF StreamInv, ClientInv
  <2>2. /\ ItemsOK(items) /\ ad.next \in Nat
        /\ \A s \in Slots(items) : /\ Index(items, ad, s) \in Nat /\ Index(items, ad, s) < ad.next
                                   /\ Index(items, ad, s) + 1 \in 1..ad.next
        /\ \A s, t \in Slots(items) : s # t => Index(items, ad, s) + 1 # Index(items, ad, t) + 1
    BY <2>1, PlaceFacts
  <2>3. SyncContent = Slots(items)
    BY DEF SyncContent, Slots
  <2>4. DOMAIN client.blocks = 1..ad.next
    BY <2>1, ClientFacts DEF Follows
  <2> DEFINE place == [s \in SyncContent |-> Index(items, ad, s) + 1]
  <2>5. \A s \in SyncContent : place[s] = Index(items, ad, s) + 1
    OBVIOUS
  <2>6. place \in [SyncContent -> DOMAIN client.blocks]
    BY <2>2, <2>3, <2>4
  <2>7. DOMAIN place = SyncContent
    OBVIOUS
  <2> HIDE DEF place
  <2>8. place \in Bijection(SyncContent, DOMAIN client.blocks)
    <3>1. \A s, t \in DOMAIN place : place[s] = place[t] => s = t
      BY <2>2, <2>3, <2>5, <2>7
    <3>2. ASSUME NEW k \in DOMAIN client.blocks PROVE \E s \in SyncContent : place[s] = k
      <4>1. k - 1 \in 0..(ad.next - 1) /\ (k - 1) + 1 = k
        BY <2>2, <2>4
      <4>2. PICK s \in Slots(items) : Index(items, ad, s) = k - 1
        BY <4>1, <2>1 DEF Matches, Placed
      <4> QED BY <4>1, <4>2, <2>3, <2>5
    <3>3. IsInjective(place)
      BY <3>1 DEF IsInjective
    <3> QED BY <3>2, <3>3, <2>6 DEF Bijection, Injection, Surjection
  <2>9. ASSUME NEW s \in SyncContent PROVE Streamed(place[s]) = SyncBlock(s)
    <3>1. /\ client.blocks[Index(items, ad, s) + 1].kind = Block(items, s).kind
          /\ client.blocks[Index(items, ad, s) + 1].text = Block(items, s).text
      BY <2>1, <2>3 DEF Follows
    <3>2. SyncBlock(s) = Block(items, s)
      BY DEF SyncBlock, Block
    <3>3. Streamed(place[s]) = [kind |-> Block(items, s).kind, text |-> Block(items, s).text]
      BY <3>1, <2>5 DEF Streamed
    <3> QED BY <3>2, <3>3 DEF Block
  <2>10. ASSUME lanes = 1, NEW s \in SyncContent, NEW t \in SyncContent, Precedes(s, t)
         PROVE  place[s] < place[t]
    <3>1. Index(items, ad, s) < Index(items, ad, t)
      BY <2>1, <2>3, <2>10 DEF Matches, Placed
    <3> QED BY <3>1, <2>2, <2>3, <2>5
  <2>11. client.ending = <<StopReason(verdict, ad.sawToolUse), ad.usage>>
    BY <2>1 DEF Follows
  <2>12. client.ending[1] = SyncStopReason
    <3>1. ad.sawToolUse <=> \E i \in DOMAIN items : items[i].kind = "function_call"
      BY <2>1 DEF Matches, Tracks
    <3>2. StopReason(verdict, ad.sawToolUse)
            = StopReason(verdict, \E i \in DOMAIN items : items[i].kind = "function_call")
      BY <3>1 DEF StopReason
    <3> QED BY <2>11, <3>2 DEF SyncStopReason
  <2>13. "final" \in reported => client.ending[2] = "final"
    BY <2>1, <2>11 DEF StreamInv, Verdicts
  <2> QED BY <2>8, <2>9, <2>10, <2>12, <2>13
<1> QED BY <1>1, StreamInvariant, PTL

-----------------------------------------------------------------------------
\* The event order.

LEMMA SameCardinality ==
  ASSUME NEW S
  PROVE  Contract!Cardinality(S) = Cardinality(S)
BY DEF Contract!Cardinality, Cardinality

LEMMA YieldKeepsOrder ==
  ASSUME StreamInv, Yield
  PROVE  Contract!Next
<1> DEFINE f == Head(outbox)
           c == client
<1>1. /\ f \in Frames /\ c \in ClientState /\ Acceptable(c, f, lanes) /\ client' = Understand(c, f)
      /\ lanes' = lanes
  BY YieldSteps DEF Yield, upstream
<1>2. Contract!OpenBlocks = OpenOf(c)
  BY DEF Contract!OpenBlocks, OpenOf
<1> HIDE DEF f
<1>3. CASE f.type = "message_start" /\ c.phase = "new"
  <2>1. client' = [c EXCEPT !.phase = "started"]
    BY <1>1, <1>3, HearStart
  <2>2. client'.phase = "started" /\ client'.blocks = c.blocks /\ client'.ending = c.ending
    BY <1>1, <2>1 DEF ClientState
  <2>3. Contract!MessageStart
    BY <1>1, <1>3, <2>2 DEF Contract!MessageStart
  <2> QED BY <2>3 DEF Contract!Next
<1>4. CASE /\ f.type = "content_block_start" /\ c.phase = "started"
           /\ f.index = Len(c.blocks) /\ f.what \in {"text", "tool_use"} /\ Cardinality(OpenOf(c)) < lanes
  <2> DEFINE q == Append(c.blocks, [kind |-> f.what, text |-> <<>>, open |-> TRUE])
  <2>1. client' = [c EXCEPT !.blocks = q]
    BY <1>1, <1>4, HearBlockStart
  <2>2. client'.phase = c.phase /\ client'.blocks = q /\ client'.ending = c.ending
    <3> HIDE DEF q
    <3> QED BY <1>1, <2>1 DEF ClientState
  <2>3. Contract!BlockStart(f.what)
    BY <1>1, <1>2, <1>4, <2>2, SameCardinality DEF Contract!BlockStart
  <2> QED BY <1>4, <2>3 DEF Contract!Next
<1>5. CASE f.type = "content_block_delta" /\ c.phase = "started" /\ f.index + 1 \in OpenOf(c) /\ f.what \in Texts
  <2> DEFINE k == f.index + 1
             q == [c.blocks EXCEPT ![k].text = @ \o f.what]
  <2>1. client' = [c EXCEPT !.blocks[k].text = @ \o f.what]
    BY <1>1, <1>5, HearDelta
  <2>2. client' = [c EXCEPT !.blocks = q]
    BY <2>1
  <2>3. client'.phase = c.phase /\ client'.blocks = q /\ client'.ending = c.ending
    <3> HIDE DEF q
    <3> QED BY <1>1, <2>2 DEF ClientState
  <2>4. Contract!BlockDelta(k, f.what)
    <3> HIDE DEF k
    <3> QED BY <1>1, <1>2, <1>5, <2>3 DEF Contract!BlockDelta, k
  <2>5. k \in DOMAIN c.blocks
    BY <1>5 DEF OpenOf
  <2> QED BY <1>5, <2>4, <2>5 DEF Contract!Next, Texts
<1>6. CASE f.type = "content_block_stop" /\ c.phase = "started" /\ f.index + 1 \in OpenOf(c)
  <2> DEFINE k == f.index + 1
             q == [c.blocks EXCEPT ![k].open = FALSE]
  <2>1. client' = [c EXCEPT !.blocks[k].open = FALSE]
    BY <1>1, <1>6, HearStop DEF BlockStopped
  <2>2. client' = [c EXCEPT !.blocks = q]
    BY <2>1
  <2>3. client'.phase = c.phase /\ client'.blocks = q /\ client'.ending = c.ending
    <3> HIDE DEF q
    <3> QED BY <1>1, <2>2 DEF ClientState
  <2>4. Contract!BlockStop(k)
    BY <1>1, <1>2, <1>6, <2>3 DEF Contract!BlockStop
  <2>5. k \in DOMAIN c.blocks
    BY <1>6 DEF OpenOf
  <2> QED BY <2>4, <2>5 DEF Contract!Next
<1>7. CASE f.type = "message_delta" /\ c.phase = "started" /\ OpenOf(c) = {} /\ f.what \in Endings
  <2>1. client' = [c EXCEPT !.phase = "told", !.ending = f.what]
    BY <1>1, <1>7, HearEnd
  <2>2. client'.phase = "told" /\ client'.blocks = c.blocks /\ client'.ending = f.what
    BY <1>1, <2>1 DEF ClientState
  <2>3. Contract!MessageDelta(f.what)
    BY <1>1, <1>2, <1>7, <2>2 DEF Contract!MessageDelta
  <2> QED BY <1>7, <2>3 DEF Contract!Next
<1>8. CASE f.type = "message_stop" /\ c.phase = "told"
  <2>1. client' = [c EXCEPT !.phase = "done"]
    BY <1>1, <1>8, HearEnd
  <2>2. client'.phase = "done" /\ client'.blocks = c.blocks /\ client'.ending = c.ending
    BY <1>1, <2>1 DEF ClientState
  <2>3. Contract!MessageStop
    BY <1>1, <1>8, <2>2 DEF Contract!MessageStop
  <2> QED BY <2>3 DEF Contract!Next
<1>9. CASE f.type = "error" /\ c.phase \in {"new", "started"}
  <2>1. client' = [c EXCEPT !.phase = "failed"]
    BY <1>1, <1>9, HearEnd
  <2>2. client'.phase = "failed" /\ client'.blocks = c.blocks /\ client'.ending = c.ending
    BY <1>1, <2>1 DEF ClientState
  <2>3. Contract!Fail
    BY <1>1, <1>9, <2>2 DEF Contract!Fail
  <2> QED BY <2>3 DEF Contract!Next
<1> QED BY <1>1, <1>3, <1>4, <1>5, <1>6, <1>7, <1>8, <1>9 DEF Acceptable

LEMMA ClientOnlyReads ==
  ASSUME [Next]_vars
  PROVE  Yield \/ (client' = client /\ lanes' = lanes)
BY DEF Next, vars, upstream, UpstreamSays, Ends, EndOfStream, Break, FinalizeOnDisconnect, EndWith, Leave,
       ClientGone, Over, Created, AddItem, AddPart, SayMore, PartDone, CompleteArguments, ItemDone,
       GiveVerdict, RepeatVerdict, Says, Hear

\* The adapter implements the event order of an Anthropic stream: every frame it yields is
\* one MessageStream allows, in every order the upstream may say its items, and with no more
\* blocks open at once than items in progress.
THEOREM AdapterKeepsEventOrder == Spec => KeepsEventOrder
<1>1. Init => Contract!Init
  BY AdapterAssumption DEF Init, Contract!Init
<1>2. StreamInv /\ [Next]_vars => [Contract!Next]_(Contract!vars)
  <2> SUFFICES ASSUME StreamInv, [Next]_vars PROVE [Contract!Next]_(Contract!vars)
    OBVIOUS
  <2>1. CASE Yield
    BY <2>1, YieldKeepsOrder
  <2>2. CASE client' = client /\ lanes' = lanes
    BY <2>2 DEF Contract!vars
  <2> QED BY <2>1, <2>2, ClientOnlyReads
<1> QED BY <1>1, <1>2, StreamInvariant, PTL DEF Spec, KeepsEventOrder, Contract!Safety
=============================================================================
