---------------------------- MODULE RescueProof ----------------------------
(***************************************************************************)
(* Proofs about Rescue for every size of frames, pages and slots, every file  *)
(* and every number of operations, damaged messages and resets.              *)
(***************************************************************************)
EXTENDS Rescue, SequenceTheorems, TLAPS

\* The line: whether a message of a set is on its way, and whether one of T
\* follows one of S.
Has(q, S) == \E i \in 1 .. Len(q) : q[i] \in S
Follows(q, S, T) == \E i, j \in 1 .. Len(q) : i < j /\ q[i] \in S /\ q[j] \in T

\* The messages by their kind.
OfType(types) == {m \in Message : m.type \in types}
Framed == OfType({"frame", "crc", "number", "short"})
Acks == OfType({"ack"})
Eofs == OfType({"eof"})
Lines == OfType({"line"})
Yes == {m \in Lines : m.ok}
ModeSettings == OfType({"mode"})
\* The frames of block k of a file, and of a download, as they were sent or damaged.
Upload(k) ==
  {m \in Framed : m.num = HostFrame(k).num /\ m.data = HostFrame(k).data}
Units == IF command.mode = "BLOG" THEN <<Log>> ELSE store["msg"]
Download(k) == {m \in Framed : m.num = k % FrameMod /\ m.data = <<Units[k]>>}

Downloading == command # None /\ command.mode \in SendModes
\* The host has begun to send its file.
UploadRuns == Uploading /\ block >= 1
Stored == Fits /\ store[Target(command.mode)] = Goal

\* Who is where.
Places ==
  /\ hpc # "idle" <=> status = "busy"
  /\ command = None => session = "over" /\ status = "idle"
  /\ command # None => command.mode \in ReceiveModes \cup SendModes \cup {"REBO"}
  /\ session = "over" => toDevice = <<>>
  /\ hpc \in {"start", "answer", "finish"} => Uploading
  /\ hpc = "receive" => Downloading
  /\ hpc \in {"line", "start"} => block = 0
  /\ hpc \in {"answer", "finish", "receive"} => block >= 1
  /\ block = 0 /\ hpc # "line" => toDevice = <<>>

\* One mode at a time is on its way, or the answer to it.
Handshake ==
  /\ hpc = "line" =>
       /\ todo = <<command.mode>> \/ todo = <<"WAIT", command.mode>>
       /\ toDevice = <<>> \/ toDevice = <<Mode(Head(todo))>> \/ toDevice = <<Mode("bad")>>
       /\ toDevice # <<>> => ~Has(toHost, Lines)
       /\ ~Follows(toHost, Lines, Lines)
       /\ Has(toHost, Yes) /\ Len(todo) = 1 /\ session = "recv" /\ Uploading => mode = command.mode
  /\ hpc # "line" => ~Has(toDevice, ModeSettings)

\* The device in its modes.
Session ==
  /\ session = "recv" =>
       mode \in ReceiveModes /\ (mode \in {"RESQ", "RESB"} => bank = Target(mode))
  /\ session = "send" => Downloading /\ mode = command.mode
  /\ (hpc = "start" \/ UploadRuns) /\ session = "recv" => mode = command.mode

\* Nothing has been sent yet that could be stored.
Clean ==
  /\ ~UploadRuns =>
       /\ ~Has(toDevice, Framed \cup Eofs)
       /\ session # "over" => frame = 1 /\ offset = 0 /\ flash_offset = 0
  /\ command # None /\ block = 0 => ~Has(toHost, Framed \cup Acks \cup Eofs)

\* The frames that are on their way are of the block that the device expects or
\* of the one before, and in order; the end of the file comes last.
Frames ==
  UploadRuns =>
    /\ block <= LastBlock
    /\ session = "recv" =>
         \/ frame \in {block, block + 1}
         \/ frame = 1 /\ toDevice = <<>> /\ hpc \in {"finish", "idle"}
    /\ ~Has(toDevice, Framed \ (Upload(block - 1) \cup Upload(block)))
    /\ session = "recv" /\ frame = block + 1 => ~Has(toDevice, Framed \ Upload(block))
    /\ ~Follows(toDevice, Upload(block), Upload(block - 1))
    /\ Has(toDevice, Eofs) =>
         hpc \in {"finish", "idle"} /\ block = LastBlock /\ frame = block + 1
    /\ ~Follows(toDevice, Eofs, Message)
    /\ hpc = "finish" => block = LastBlock /\ (toDevice # <<>> => frame = block + 1)

\* Whole frames only: what arrives fits at the offset.
Fitting ==
  UploadRuns =>
    /\ ~Has(toDevice, {m \in Framed : Len(m.data) # command.block_len})
    /\ session = "recv" => offset % command.block_len = 0

\* An acknowledgement that is on its way is the only one, and tells the truth.
Acknowledged ==
  Uploading =>
    /\ hpc = "answer" =>
         /\ ~Follows(toHost, Acks, Acks)
         /\ session = "recv" /\ Has(toHost, Acks) => frame = block + 1
    /\ (hpc = "finish" /\ Has(toHost, Acks)) \/ status = "done" =>
         block >= 1 /\ toDevice = <<>> /\ Stored

\* What the device has got is the beginning of the file: what it has stored, and
\* what is in its buffer.
Size == IF mode = "BREQ" THEN MsgLen ELSE Buffer
Received == (frame - 1) * command.block_len
Written == IF flash_offset = 0 THEN 0 ELSE flash_offset - 1
Buffered ==
  UploadRuns /\ session = "recv" =>
    /\ mode \in {"RESQ", "RESB"} =>
         /\ flash_offset # 1 /\ Received = Written * Buffer + offset
         /\ \A i \in 1 .. offset : data[i] = FileUnit(Written * Buffer + i)
    /\ mode \in {"OWNR", "BREQ"} =>
         /\ flash_offset = 0
         /\ Received < Size => Received = offset /\ \A i \in 1 .. offset : data[i] = FileUnit(i)
         /\ Received >= Size => offset = 0 /\ store[Target(command.mode)] = Goal

\* The same for a download: one acknowledgement is on its way, or one block.
Delivered ==
  Downloading =>
    /\ session = "send" => tx.block \in 1 .. Len(Units)
    /\ session = "send" /\ block = 0 => tx.pc = "start" /\ tx.block = 1
    /\ block = 0 => got = <<>>
    /\ block >= 1 =>
         /\ Len(got) = block - 1 /\ block - 1 <= Len(Units)
         /\ \A i \in 1 .. block - 1 : got[i] = Units[i]
    /\ hpc = "receive" =>
         /\ ~Has(toHost, Framed \ (Download(block - 1) \cup Download(block)))
         /\ block > Len(Units) => ~Has(toHost, Framed \ Download(block - 1))
         /\ ~Follows(toHost, Download(block), Download(block - 1))
         /\ Has(toHost, Eofs) => block > Len(Units)
    /\ hpc = "receive" /\ session = "send" =>
         /\ tx.pc = "start" =>
              block = 1 /\ tx.block = 1 /\ ~Has(toHost, Framed) /\ ~Has(toDevice, Acks)
         /\ tx.pc = "answer" =>
              /\ tx.block \in {block - 1, block}
              /\ tx.block = block - 1 => ~Has(toHost, Framed \ Download(block - 1))
              /\ Has(toDevice, Acks) => tx.block = block - 1
              /\ ~Follows(toDevice, Acks, Acks)
         /\ tx.pc = "finish" => block > Len(Units)
    /\ status = "done" => block > Len(Units)

\* Types, in groups of variables that a step changes together.
Page == [1 .. Buffer -> Unit]
DeviceTypes ==
  /\ session \in {"recv", "send", "over"} /\ mode \in ReceiveModes \cup SendModes
  /\ wait \in BOOLEAN /\ bank \in Slots /\ flash_offset \in 0 .. Pages + 1
  /\ frame \in Nat \ {0} /\ offset \in 0 .. Buffer - 1 /\ data \in Page
  /\ tx \in [pc : {"start", "answer", "finish"}, block : Nat, errors : Nat,
             cancels : Nat, tries : Nat]
Memory ==
  {s \in [Targets -> Contents] :
     /\ \A t \in Slots : s[t] \in [1 .. Pages -> Page]
     /\ s["owner"] \in Page /\ s["msg"] \in [1 .. MsgLen -> Unit]}
StoreTypes == store \in Memory
QueueTypes == toDevice \in Seq(Message) /\ toHost \in Seq(Message)
HostTypes ==
  /\ hpc \in {"idle", "line", "start", "answer", "finish", "receive"}
  /\ command \in Commands \cup {None} /\ todo \in Seq(Modes)
  /\ block \in Nat /\ errors \in Nat /\ cancels \in Nat /\ got \in Seq(Unit)
  /\ status \in {"idle", "busy", "done", "failed"}
CountTypes ==
  commands \in 0 .. MaxCommands /\ naks \in 0 .. MaxNaks /\ faults \in 0 .. MaxFaults
Types == DeviceTypes /\ StoreTypes /\ QueueTypes /\ HostTypes /\ CountTypes

\* The part of the invariant that holds whatever a damaged frame is read as.
Basic ==
  /\ Types /\ Places /\ Handshake /\ Session /\ Clean /\ Fitting /\ Delivered
\* The part that needs damaged frames not to read as an end of file.
Sent == Frames /\ Acknowledged /\ Buffered /\ PagesInOrder
Inv == Basic /\ Sent
-----------------------------------------------------------------------------
\* Queues: what is heard leaves at the head, what is said joins at the end.
LEMMA HeadAndTail ==
  ASSUME NEW M, NEW q \in Seq(M), q # <<>>
  PROVE  /\ Head(q) = q[1] /\ Head(q) \in M /\ Tail(q) \in Seq(M)
         /\ Len(q) \in Nat \ {0} /\ Len(Tail(q)) = Len(q) - 1
         /\ \A i \in 1 .. Len(Tail(q)) : Tail(q)[i] = q[i + 1]
  BY HeadTailProperties, EmptySeq

LEMMA HasTail ==
  ASSUME NEW M, NEW q \in Seq(M), q # <<>>, NEW S
  PROVE  Has(q, S) <=> Head(q) \in S \/ Has(Tail(q), S)
<1>1. ASSUME NEW i \in 1 .. Len(q), q[i] \in S
      PROVE  Head(q) \in S \/ Has(Tail(q), S)
  <2>1. CASE i = 1
    BY <1>1, <2>1, HeadAndTail
  <2>2. CASE i # 1
    <3>1. i - 1 \in 1 .. Len(Tail(q)) /\ Tail(q)[i - 1] = q[(i - 1) + 1]
      BY <1>1, <2>2, HeadAndTail
    <3>2. (i - 1) + 1 = i
      BY <1>1
    <3>3. Tail(q)[i - 1] \in S
      BY <1>1, <3>1, <3>2
    <3> QED
      BY <3>1, <3>3 DEF Has
  <2> QED
    BY <2>1, <2>2
<1>2. ASSUME NEW i \in 1 .. Len(Tail(q)), Tail(q)[i] \in S
      PROVE  Has(q, S)
  <2>1. i + 1 \in 1 .. Len(q) /\ q[i + 1] \in S
    BY <1>2, HeadAndTail
  <2> QED
    BY <2>1 DEF Has
<1>3. Head(q) \in S => Has(q, S)
  BY HeadAndTail DEF Has
<1> QED
  BY <1>1, <1>2, <1>3 DEF Has

LEMMA FollowsTail ==
  ASSUME NEW M, NEW q \in Seq(M), q # <<>>, NEW S, NEW T, ~Follows(q, S, T)
  PROVE  /\ ~Follows(Tail(q), S, T)
         /\ Head(q) \in S => ~Has(Tail(q), T)
<1>1. ASSUME NEW i \in 1 .. Len(Tail(q)), Tail(q)[i] \in T, Head(q) \in S
      PROVE  FALSE
  <2>1. 1 \in 1 .. Len(q) /\ i + 1 \in 1 .. Len(q) /\ q[i + 1] \in T /\ q[1] \in S /\ 1 < i + 1
    BY <1>1, HeadAndTail
  <2> QED
    BY <2>1 DEF Follows
<1>2. ASSUME NEW i \in 1 .. Len(Tail(q)), NEW j \in 1 .. Len(Tail(q)), i < j,
             Tail(q)[i] \in S, Tail(q)[j] \in T
      PROVE  FALSE
  <2>1. /\ i + 1 \in 1 .. Len(q) /\ j + 1 \in 1 .. Len(q) /\ i + 1 < j + 1
        /\ q[i + 1] \in S /\ q[j + 1] \in T
    BY <1>2, HeadAndTail
  <2> QED
    BY <2>1 DEF Follows
<1> QED
  BY <1>1, <1>2 DEF Follows, Has

LEMMA HasConcat ==
  ASSUME NEW M, NEW q \in Seq(M), NEW r \in Seq(M), NEW S
  PROVE  Has(q \o r, S) <=> Has(q, S) \/ Has(r, S)
<1>1. ASSUME NEW i \in 1 .. Len(q \o r), (q \o r)[i] \in S
      PROVE  Has(q, S) \/ Has(r, S)
  <2>1. Len(q) \in Nat /\ Len(r) \in Nat /\ i \in 1 .. Len(q) + Len(r)
    BY <1>1, ConcatProperties, LenProperties
  <2>2. CASE i <= Len(q)
    BY <1>1, <2>1, <2>2, ConcatProperties DEF Has
  <2>3. CASE i > Len(q)
    <3>1. i - Len(q) \in 1 .. Len(r) /\ r[i - Len(q)] \in S
      BY <1>1, <2>1, <2>3, ConcatProperties
    <3> QED
      BY <3>1 DEF Has
  <2> QED
    BY <2>1, <2>2, <2>3
<1>2. ASSUME NEW i \in 1 .. Len(q), q[i] \in S
      PROVE  Has(q \o r, S)
  <2>1. i \in 1 .. Len(q \o r) /\ (q \o r)[i] \in S
    BY <1>2, ConcatProperties, LenProperties
  <2> QED
    BY <2>1 DEF Has
<1>3. ASSUME NEW i \in 1 .. Len(r), r[i] \in S
      PROVE  Has(q \o r, S)
  <2>1. Len(q) \in Nat /\ Len(r) \in Nat
    BY LenProperties
  <2>2. /\ i + Len(q) \in 1 .. Len(q \o r) /\ ~(i + Len(q) <= Len(q))
        /\ (q \o r)[i + Len(q)] = r[(i + Len(q)) - Len(q)]
    BY <2>1, ConcatProperties
  <2>3. (q \o r)[i + Len(q)] \in S
    BY <1>3, <2>1, <2>2
  <2> QED
    BY <2>2, <2>3 DEF Has
<1> QED
  BY <1>1, <1>2, <1>3 DEF Has

LEMMA FollowsConcat ==
  ASSUME NEW M, NEW q \in Seq(M), NEW r \in Seq(M), NEW S, NEW T,
         ~Follows(q, S, T), ~Follows(r, S, T), ~Has(q, S) \/ ~Has(r, T)
  PROVE  ~Follows(q \o r, S, T)
<1>1. SUFFICES ASSUME NEW i \in 1 .. Len(q \o r), NEW j \in 1 .. Len(q \o r), i < j,
                      (q \o r)[i] \in S, (q \o r)[j] \in T
               PROVE  FALSE
  BY DEF Follows
<1>2. /\ Len(q) \in Nat /\ Len(r) \in Nat
      /\ i \in 1 .. Len(q) + Len(r) /\ j \in 1 .. Len(q) + Len(r)
  BY ConcatProperties, LenProperties
<1>3. CASE j <= Len(q)
  <2>1. q[i] \in S /\ q[j] \in T /\ i \in 1 .. Len(q) /\ j \in 1 .. Len(q)
    BY <1>1, <1>2, <1>3, ConcatProperties
  <2> QED
    BY <1>1, <2>1 DEF Follows
<1>4. CASE j > Len(q) /\ i <= Len(q)
  <2>1. q[i] \in S /\ i \in 1 .. Len(q) /\ j - Len(q) \in 1 .. Len(r) /\ r[j - Len(q)] \in T
    BY <1>1, <1>2, <1>4, ConcatProperties
  <2> QED
    BY <2>1 DEF Has
<1>5. CASE i > Len(q)
  <2>1. /\ i - Len(q) \in 1 .. Len(r) /\ r[i - Len(q)] \in S
        /\ j - Len(q) \in 1 .. Len(r) /\ r[j - Len(q)] \in T
        /\ i - Len(q) < j - Len(q)
    BY <1>1, <1>2, <1>5, ConcatProperties
  <2> QED
    BY <2>1 DEF Follows
<1> QED
  BY <1>2, <1>3, <1>4, <1>5

LEMMA HasFew ==
  ASSUME NEW S, NEW T
  PROVE  /\ ~Has(<<>>, S) /\ ~Follows(<<>>, S, T)
         /\ \A x : (Has(<<x>>, S) <=> x \in S) /\ ~Follows(<<x>>, S, T)
         /\ \A x, y : Has(<<x, y>>, S) <=> x \in S \/ y \in S
         /\ \A x, y : Follows(<<x, y>>, S, T) <=> x \in S /\ y \in T
<1>1. ~Has(<<>>, S) /\ ~Follows(<<>>, S, T)
  BY DEF Has, Follows
<1>2. ASSUME NEW x
      PROVE  (Has(<<x>>, S) <=> x \in S) /\ ~Follows(<<x>>, S, T)
  <2>1. Len(<<x>>) = 1 /\ <<x>>[1] = x
    OBVIOUS
  <2> QED
    BY <2>1 DEF Has, Follows
<1>3. ASSUME NEW x, NEW y
      PROVE  /\ Has(<<x, y>>, S) <=> x \in S \/ y \in S
             /\ Follows(<<x, y>>, S, T) <=> x \in S /\ y \in T
  <2>1. Len(<<x, y>>) = 2 /\ <<x, y>>[1] = x /\ <<x, y>>[2] = y
    OBVIOUS
  <2>2. Has(<<x, y>>, S) <=> x \in S \/ y \in S
    BY <2>1 DEF Has
  <2>3. Follows(<<x, y>>, S, T) <=> x \in S /\ y \in T
    <3>1. ASSUME NEW i \in 1 .. 2, NEW j \in 1 .. 2, i < j
          PROVE  i = 1 /\ j = 2
      BY <3>1
    <3> QED
      BY <2>1, <3>1 DEF Follows
  <2> QED
    BY <2>2, <2>3
<1> QED
  BY <1>1, <1>2, <1>3

\* A set that has no message in a queue has none in a smaller one.
LEMMA HasLess ==
  ASSUME NEW q, NEW S, NEW T, \A x : x \in S => x \in T, ~Has(q, T)
  PROVE  ~Has(q, S)
  BY DEF Has
-----------------------------------------------------------------------------
LEMMA TypesAreTypeOK == Types => TypeOK
<1> SUFFICES ASSUME Types PROVE TypeOK
  OBVIOUS
<1>1. \A t \in Targets :
       store[t] \in CASE t \in Slots -> [1 .. Pages -> [1 .. Buffer -> Unit]]
                      [] t = "owner" -> [1 .. Buffer -> Unit]
                      [] t = "msg" -> [1 .. MsgLen -> Unit]
  BY DEF Types, StoreTypes, Memory, Page, Targets, Slots
<1> QED
  BY <1>1 DEF Types, DeviceTypes, Page, StoreTypes, QueueTypes, HostTypes, CountTypes, TypeOK

LEMMA Sizes ==
  /\ Big \in Nat \ {0} /\ Buffer \in Nat \ {0} /\ MsgLen \in Nat \ {0} /\ Pages \in Nat \ {0}
  /\ FrameMod \in Nat \ {0, 1} /\ HostMaxErrors \in Nat \ {0} /\ StartTries \in Nat \ {0}
  /\ MsgLen <= Buffer /\ Buffer % Big = 0
  /\ MaxCommands \in Nat /\ MaxNaks \in Nat /\ MaxFaults \in Nat
  BY ConstantsAssumption

LEMMA CommandFacts ==
  ASSUME NEW c \in Commands
  PROVE  /\ c # None /\ c.mode \in ReceiveModes \cup SendModes \cup {"REBO"}
         /\ c.wait \in BOOLEAN /\ c.len \in Nat \ {0} /\ c.block_len \in {1, Big}
         /\ c.block_len \in Nat \ {0} /\ Buffer % c.block_len = 0
         /\ c.mode = "OWNR" => c.len <= Buffer
         /\ c.mode = "BREQ" => c.len = MsgLen
<1>1. FileLens \subseteq Nat \ {0}
  BY ConstantsAssumption
<1>2. Buffer % 1 = 0
  BY Sizes
<1>3. /\ c.mode \in ReceiveModes \cup SendModes \cup {"REBO"}
      /\ c.wait \in BOOLEAN /\ c.len \in Nat \ {0} /\ c.block_len \in {1, Big}
      /\ c.mode = "OWNR" => c.len <= Buffer
      /\ c.mode = "BREQ" => c.len = MsgLen
  <2>1. CASE c \in [mode : {"RESQ", "RESB"}, wait : BOOLEAN, len : FileLens, block_len : {1, Big}]
    BY <1>1, <2>1 DEF ReceiveModes
  <2>2. CASE c \in [mode : {"OWNR"}, wait : {FALSE}, len : FileLens \cap 1 .. Buffer,
                    block_len : {Big}]
    <3>1. c.mode = "OWNR" /\ c.wait = FALSE /\ c.len \in FileLens \cap 1 .. Buffer /\ c.block_len = Big
      BY <2>2
    <3>2. c.wait \in BOOLEAN
      BY <3>1, Zenon
    <3>3. c.len \in Nat \ {0} /\ c.block_len \in {1, Big}
      BY <1>1, <3>1, Sizes
    <3>4. c.mode = "OWNR" => c.len <= Buffer
      BY <3>1 DEF SendModes
    <3>5. c.mode = "BREQ" => c.len = MsgLen
      BY <3>1 DEF SendModes
    <3>6. c.mode \in ReceiveModes \cup SendModes \cup {"REBO"}
      BY <3>1 DEF ReceiveModes, SendModes
    <3> QED
      BY <3>2, <3>3, <3>4, <3>5, <3>6
  <2>3. CASE c \in [mode : {"BREQ"}, wait : {FALSE}, len : {MsgLen}, block_len : {1, Big}]
    BY <2>3, Sizes DEF ReceiveModes
  <2>4. CASE c \in [mode : SendModes \cup {"REBO"}, wait : {FALSE}, len : {1}, block_len : {1}]
    <3>1. c.mode \in SendModes \cup {"REBO"} /\ c.wait = FALSE /\ c.len = 1 /\ c.block_len = 1
      BY <2>4
    <3>2. c.wait \in BOOLEAN
      BY <3>1, Zenon
    <3>3. c.len \in Nat \ {0} /\ c.block_len \in {1, Big}
      BY <1>1, <3>1, Sizes
    <3>4. c.mode = "OWNR" => c.len <= Buffer
      BY <3>1 DEF SendModes
    <3>5. c.mode = "BREQ" => c.len = MsgLen
      BY <3>1 DEF SendModes
    <3>6. c.mode \in ReceiveModes \cup SendModes \cup {"REBO"}
      BY <3>1 DEF ReceiveModes, SendModes
    <3> QED
      BY <3>2, <3>3, <3>4, <3>5, <3>6
  <2> QED
    BY <2>1, <2>2, <2>3, <2>4 DEF Commands
<1> QED
  BY <1>2, <1>3, Sizes, NoneAssumption

LEMMA Units0 ==
  /\ Pad \in Unit /\ Garbage \in Unit /\ Old \in Unit /\ Log \in Unit
  /\ \A u \in Unit : Fill(u) \in [1 .. Buffer -> Unit]
  BY DEF Pad, Garbage, Old, Log, Unit, Fill

LEMMA FileUnits ==
  ASSUME command \in Commands, commands \in Nat, NEW i \in Nat
  PROVE  FileUnit(i) \in Unit
  BY CommandFacts, Units0 DEF FileUnit, Unit

\* What is on the line.
LEMMA MessageKinds ==
  ASSUME NEW m \in Message
  PROVE  /\ m.type \in {"ack", "nak", "can", "eof", "C", "chars", "text", "frame", "crc",
                        "number", "short", "mode", "line"}
         /\ m.type \in {"frame", "crc", "number", "short"} =>
              /\ m.num \in Nat /\ m.data \in Seq(Unit)
              /\ \A t \in {"frame", "crc", "number", "short"} :
                   /\ [m EXCEPT !.type = t] \in Message
                   /\ [m EXCEPT !.type = t].type = t /\ [m EXCEPT !.type = t].num = m.num
                   /\ [m EXCEPT !.type = t].data = m.data
         /\ m.type = "mode" => m = Mode(m.mode) /\ m.mode \in Modes \cup {"bad"}
         /\ m.type = "line" => m.ok \in BOOLEAN
<1>1. CASE m \in [type : {"ack", "nak", "can", "eof", "C", "chars", "text"}]
  BY <1>1
<1>2. CASE m \in [type : {"frame", "crc", "number", "short"}, num : Nat, data : Seq(Unit)]
  <2>1. ASSUME NEW t \in {"frame", "crc", "number", "short"}
        PROVE  /\ [m EXCEPT !.type = t] \in
                    [type : {"frame", "crc", "number", "short"}, num : Nat, data : Seq(Unit)]
               /\ [m EXCEPT !.type = t].type = t /\ [m EXCEPT !.type = t].num = m.num
               /\ [m EXCEPT !.type = t].data = m.data
    BY <1>2
  <2> QED
    BY <1>2, <2>1 DEF Message
<1>3. CASE m \in [type : {"mode"}, mode : Modes \cup {"bad"}]
  BY <1>3 DEF Mode
<1>4. CASE m \in [type : {"line"}, ok : BOOLEAN]
  BY <1>4
<1> QED
  BY <1>1, <1>2, <1>3, <1>4 DEF Message

LEMMA Signals ==
  /\ \A t \in {"ack", "nak", "can", "eof", "C", "chars", "text"} :
       Msg(t) \in Message /\ Msg(t).type = t
  /\ \A m \in Modes \cup {"bad"} : Mode(m) \in Message /\ Mode(m).type = "mode" /\ Mode(m).mode = m
  /\ \A ok \in BOOLEAN : Line(ok) \in Message /\ Line(ok).type = "line" /\ Line(ok).ok = ok
  BY DEF Msg, Mode, Line, Message

LEMMA FramesAreMessages ==
  ASSUME NEW num \in Nat, NEW units \in Seq(Unit)
  PROVE  /\ Frame(num, units) \in Message /\ Frame(num, units).type = "frame"
         /\ Frame(num, units).num = num % FrameMod /\ Frame(num, units).data = units
<1>1. num % FrameMod \in Nat
  BY Sizes
<1> QED
  BY <1>1 DEF Frame, Message

LEMMA HostFrames ==
  ASSUME command \in Commands, commands \in Nat, NEW k \in Nat \ {0}
  PROVE  /\ HostFrame(k) \in Message /\ HostFrame(k).type = "frame"
         /\ HostFrame(k).num = k % FrameMod
         /\ HostFrame(k).data \in Seq(Unit) /\ Len(HostFrame(k).data) = command.block_len
         /\ \A i \in 1 .. command.block_len :
              HostFrame(k).data[i] = FileUnit((k - 1) * command.block_len + i)
<1> DEFINE L == command.block_len
           units == [i \in 1 .. L |-> FileUnit((k - 1) * L + i)]
<1>1. L \in Nat \ {0}
  BY CommandFacts
<1>2. ASSUME NEW i \in 1 .. L PROVE (k - 1) * L + i \in Nat
  <2>1. (k - 1) * L \in Nat
    BY <1>1
  <2> QED
    BY <2>1
<1>3. \A i \in 1 .. L : FileUnit((k - 1) * L + i) \in Unit
  BY <1>2, FileUnits
<1>4. units \in Seq(Unit) /\ Len(units) = L /\ \A i \in 1 .. L : units[i] = FileUnit((k - 1) * L + i)
  BY <1>1, <1>3
<1>5. HostFrame(k) = Frame(k, units)
  BY DEF HostFrame
<1> HIDE DEF units, L
<1> QED
  BY <1>4, <1>5, FramesAreMessages DEF L
\* Frames fill a page without a rest.
LEMMA Division ==
  ASSUME NEW a \in Nat, NEW b \in Nat \ {0}
  PROVE  a = b * (a \div b) + (a % b) /\ a % b \in 0 .. b - 1 /\ a \div b \in Nat
  OBVIOUS

LEMMA Larger ==
  ASSUME NEW b \in Nat, NEW p \in Nat, NEW q \in Nat, p < q
  PROVE  b * p + b <= b * q
<1>1. b * (p + 1) <= b * q
  OBVIOUS
<1>2. b * (p + 1) = b * p + b
  OBVIOUS
<1> QED
  BY <1>1, <1>2

LEMMA Remainder ==
  ASSUME NEW b \in Nat \ {0}, NEW q \in Nat, NEW r \in 0 .. b - 1
  PROVE  (b * q + r) % b = r /\ (b * q + r) \div b = q
<1> DEFINE a == b * q + r
           p == a \div b
           s == a % b
<1>1. a \in Nat
  OBVIOUS
<1>2. a = b * p + s /\ s \in 0 .. b - 1 /\ p \in Nat
  BY <1>1, Division
<1>3. a = b * q + r
  OBVIOUS
<1> HIDE DEF a, p, s
<1>4. ~(p < q)
  BY <1>2, <1>3, Larger
<1>5. ~(q < p)
  BY <1>2, <1>3, Larger
<1>6. p = q
  BY <1>2, <1>4, <1>5
<1>7. s = r
  BY <1>1, <1>2, <1>3, <1>6
<1> QED
  BY <1>6, <1>7 DEF a, p, s

LEMMA Multiples ==
  ASSUME NEW a \in Nat, NEW b \in Nat \ {0}
  PROVE  /\ (a * b) % b = 0 /\ (a * b) \div b = a /\ (a + b) % b = a % b
         /\ b > 1 => (a + 1) % b # a % b
<1>1. (a * b) % b = 0 /\ (a * b) \div b = a
  <2>1. b * a + 0 = a * b
    OBVIOUS
  <2> QED
    BY <2>1, Remainder
<1> DEFINE q == a \div b
           s == a % b
<1>2. a = b * q + s /\ s \in 0 .. b - 1 /\ q \in Nat
  BY Division
<1> HIDE DEF q, s
<1>3. (a + b) % b = s
  <2>1. a + b = b * (q + 1) + s
    BY <1>2
  <2>2. (b * (q + 1) + s) % b = s
    BY <1>2, Remainder
  <2> QED
    BY <2>1, <2>2
<1>4. ASSUME b > 1 PROVE (a + 1) % b # s
  <2>1. CASE s + 1 < b
    <3>1. a + 1 = b * q + (s + 1)
      BY <1>2
    <3>2. s + 1 \in 0 .. b - 1
      BY <1>2, <2>1
    <3>3. (b * q + (s + 1)) % b = s + 1
      BY <1>2, <3>2, Remainder
    <3> QED
      BY <1>2, <3>1, <3>3
  <2>2. CASE s + 1 = b
    <3>1. a + 1 = b * (q + 1) + 0
      BY <1>2, <2>2
    <3>2. (b * (q + 1) + 0) % b = 0
      BY <1>2, Remainder
    <3> QED
      BY <1>4, <2>2, <3>1, <3>2
  <2> QED
    BY <1>2, <2>1, <2>2
<1> QED
  BY <1>1, <1>3, <1>4 DEF s

LEMMA NextMultiple ==
  ASSUME NEW a \in Nat, NEW c \in Nat, NEW b \in Nat \ {0}, a % b = 0, c % b = 0, a < c
  PROVE  a + b <= c /\ (a + b) % b = 0
<1> DEFINE q == a \div b
           r == c \div b
<1>1. a = b * q /\ q \in Nat
  BY Division
<1>2. c = b * r + (c % b) /\ r \in Nat
  BY Division
<1> HIDE DEF q, r
<1>3. c = b * r
  BY <1>2
<1>4. q < r
  <2>1. SUFFICES ASSUME r <= q PROVE FALSE
    BY <1>1, <1>2
  <2>2. b * r <= b * q
    BY <1>1, <1>2, <2>1
  <2> QED
    BY <2>2, <1>1, <1>3
<1> QED
  BY <1>1, <1>2, <1>3, <1>4, Larger, Multiples

\* What the memories can be made.
LEMMA MemoryUpdates ==
  ASSUME NEW s \in Memory
  PROVE  /\ \A t \in Slots, v \in [1 .. Pages -> Page] : [s EXCEPT ![t] = v] \in Memory
         /\ \A v \in Page : [s EXCEPT !["owner"] = v] \in Memory
         /\ \A v \in [1 .. MsgLen -> Unit] : [s EXCEPT !["msg"] = v] \in Memory
<1> USE DEF Memory, Page
<1>1. ASSUME NEW t \in Slots, NEW v \in [1 .. Pages -> Page]
      PROVE  [s EXCEPT ![t] = v] \in Memory
  <2>1. t \in Targets /\ v \in Contents
    BY <1>1 DEF Targets, Contents
  <2>2. [s EXCEPT ![t] = v] \in [Targets -> Contents]
    BY <2>1
  <2> QED
    BY <1>1, <2>1, <2>2 DEF Targets, Slots
<1>2. ASSUME NEW v \in Page
      PROVE  [s EXCEPT !["owner"] = v] \in Memory
  <2>1. v \in Contents
    BY <1>2 DEF Contents
  <2>2. [s EXCEPT !["owner"] = v] \in [Targets -> Contents]
    BY <2>1
  <2> QED
    BY <1>2, <2>1, <2>2 DEF Targets, Slots
<1>3. ASSUME NEW v \in [1 .. MsgLen -> Unit]
      PROVE  [s EXCEPT !["msg"] = v] \in Memory
  <2>1. v \in Contents
    BY <1>3 DEF Contents
  <2>2. [s EXCEPT !["msg"] = v] \in [Targets -> Contents]
    BY <2>1
  <2> QED
    BY <1>3, <2>1, <2>2 DEF Targets, Slots
<1> QED
  BY <1>1, <1>2, <1>3

LEMMA SlotsBefore ==
  ASSUME Types
  PROVE  /\ NextPage \in Nat \ {0}
         /\ SlotBefore \in [1 .. Pages -> Page]
         /\ \A v \in Page : [SlotBefore EXCEPT ![NextPage] = v] \in [1 .. Pages -> Page]
<1>1. NextPage \in Nat \ {0}
  BY DEF Types, DeviceTypes, NextPage
<1>2. SlotBefore \in [1 .. Pages -> Page]
  <2>1. Fill(Pad) \in Page
    BY Units0 DEF Page
  <2>2. store[bank] \in [1 .. Pages -> Page]
    BY DEF Types, DeviceTypes, StoreTypes, Memory
  <2> QED
    BY <2>1, <2>2 DEF SlotBefore
<1> QED
  BY <1>1, <1>2

LEMMA StoreKeepsTypes ==
  ASSUME Types, NEW buffer \in Page, Store(buffer)
  PROVE  store' \in Memory
<1> USE DEF Types, StoreTypes, DeviceTypes
<1>1. CASE CopyMessage(buffer)
  <2>1. [i \in 1 .. MsgLen |-> buffer[i]] \in [1 .. MsgLen -> Unit]
    BY Sizes DEF Page
  <2> QED
    BY <1>1, <2>1, MemoryUpdates DEF CopyMessage
<1>2. CASE FlashOwnerBlock(buffer)
  BY <1>2, MemoryUpdates DEF FlashOwnerBlock
<1>3. CASE FlashFirmwareBlock(buffer)
  BY <1>3, MemoryUpdates, SlotsBefore DEF FlashFirmwareBlock
<1> QED
  BY <1>1, <1>2, <1>3 DEF Store

LEMMA CutsKeepTypes ==
  ASSUME Types, mode \in ReceiveModes, NEW s \in CutStores
  PROVE  s \in Memory
<1> USE DEF Types, StoreTypes, DeviceTypes
<1>1. Fill(Pad) \in Page /\ Fill(Garbage) \in Page
  BY Units0 DEF Page
<1>2. CASE mode = "BREQ"
  <2>1. s = [store EXCEPT !["msg"] = [i \in 1 .. MsgLen |-> Garbage]]
    BY <1>2 DEF CutStores
  <2>2. [i \in 1 .. MsgLen |-> Garbage] \in [1 .. MsgLen -> Unit]
    BY Units0
  <2> QED
    BY <2>1, <2>2, MemoryUpdates
<1>3. CASE mode = "OWNR"
  <2>1. PICK u \in {Pad, Garbage} : s = [store EXCEPT !["owner"] = Fill(u)]
    BY <1>3 DEF CutStores
  <2> QED
    BY <1>1, <2>1, MemoryUpdates
<1>4. CASE mode \in {"RESQ", "RESB"}
  <2>1. PICK slot \in CutErases \cup CutWrites : s = [store EXCEPT ![bank] = slot]
    BY <1>4 DEF CutStores
  <2>2. store[bank] \in [1 .. Pages -> Page]
    BY DEF Memory
  <2>3. CASE slot \in CutErases
    <3>1. PICK cut \in 1 .. Pages : slot = [p \in 1 .. Pages |->
            CASE p < cut -> Fill(Pad) [] p = cut -> Fill(Garbage) [] p > cut -> store[bank][p]]
      BY <2>3 DEF CutErases
    <3> DEFINE Cut(p) ==
          CASE p < cut -> Fill(Pad) [] p = cut -> Fill(Garbage) [] p > cut -> store[bank][p]
    <3>3. ASSUME NEW p \in 1 .. Pages
          PROVE  Cut(p) \in Page
      <4>1. p < cut \/ p = cut \/ p > cut
        BY Sizes
      <4>2. store[bank][p] \in Page
        BY <2>2
      <4>3. p < cut => Cut(p) = Fill(Pad)
        BY Sizes
      <4>4. p = cut => Cut(p) = Fill(Garbage)
        BY Sizes
      <4>5. p > cut => Cut(p) = store[bank][p]
        BY Sizes
      <4> HIDE DEF Cut
      <4> QED
        BY <1>1, <4>1, <4>2, <4>3, <4>4, <4>5
    <3>2. slot \in [1 .. Pages -> Page]
      BY <3>1, <3>3
    <3> QED
      BY <2>1, <3>2, MemoryUpdates
  <2>4. CASE slot \in CutWrites
    <3>1. slot \in [1 .. Pages -> Page]
      BY <1>1, <2>4, SlotsBefore DEF CutWrites
    <3> QED
      BY <2>1, <3>1, MemoryUpdates
  <2> QED
    BY <2>1, <2>3, <2>4
<1> QED
  BY <1>2, <1>3, <1>4 DEF ReceiveModes

\* A step of the device that stores, replies and sets its own variables.
LEMMA Words0 ==
  ASSUME Types
  PROVE  /\ \A x \in Message : <<x>> \in Seq(Message) /\ toHost \o <<x>> \in Seq(Message)
                               /\ toDevice \o <<x>> \in Seq(Message)
         /\ \A x, y \in Message : <<x, y>> \in Seq(Message) /\ toHost \o <<x, y>> \in Seq(Message)
                                  /\ toDevice \o <<x, y>> \in Seq(Message)
         /\ <<>> \in Seq(Message) /\ toHost \o <<>> = toHost
<1>1. toHost \in Seq(Message) /\ toDevice \in Seq(Message)
  BY DEF Types, QueueTypes
<1>2. ASSUME NEW x \in Message
      PROVE  <<x>> \in Seq(Message) /\ toHost \o <<x>> \in Seq(Message)
             /\ toDevice \o <<x>> \in Seq(Message)
  <2>1. <<x>> \in Seq(Message)
    OBVIOUS
  <2> QED
    BY <1>1, <2>1, ConcatProperties
<1>3. ASSUME NEW x \in Message, NEW y \in Message
      PROVE  <<x, y>> \in Seq(Message) /\ toHost \o <<x, y>> \in Seq(Message)
             /\ toDevice \o <<x, y>> \in Seq(Message)
  <2>1. <<x, y>> \in Seq(Message)
    OBVIOUS
  <2> QED
    BY <1>1, <2>1, ConcatProperties
<1>4. <<>> \in Seq(Message) /\ toHost \o <<>> = toHost
  BY <1>1, ConcatEmptySeq, EmptySeq
<1> QED
  BY <1>2, <1>3, <1>4

\* However a session ends, the device has said something and is over.
LEMMA EndsTypes ==
  ASSUME Types, NEW msgs \in Seq(Message), EndsWith(msgs)
  PROVE  DeviceTypes' /\ toHost' \in Seq(Message) /\ session' = "over"
<1>1. Msg("text") \in Message
  BY Signals
<1>2. <<Msg("text")>> \in Seq(Message)
  BY <1>1
<1>3. msgs \o <<Msg("text")>> \in Seq(Message)
  BY <1>2, ConcatProperties
<1>4. toHost \o (msgs \o <<Msg("text")>>) \in Seq(Message)
  BY <1>3, ConcatProperties DEF Types, QueueTypes
<1>5. toHost' \in Seq(Message)
  BY <1>4 DEF EndsWith, Reply
<1>6. DeviceTypes'
  BY DEF EndsWith, Types, DeviceTypes, Page
<1> QED
  BY <1>5, <1>6 DEF EndsWith

LEMMA ModeTypes ==
  ASSUME Types, NEW m \in Modes \cup {"bad"}, ValidateMode(m, <<>>), data' = data
  PROVE  DeviceTypes' /\ toHost' \in Seq(Message)
<1> USE DEF Types
<1>1. Line(TRUE) \in Message /\ Line(FALSE) \in Message /\ Msg("text") \in Message
  BY Signals
<1>2. <<Line(TRUE)>> \in Seq(Message) /\ <<Line(FALSE)>> \in Seq(Message)
  BY <1>1, Words0
<1>3. <<>> \o <<Line(TRUE)>> = <<Line(TRUE)>> /\ <<>> \o <<Line(FALSE)>> = <<Line(FALSE)>>
  BY <1>2, ConcatEmptySeq
<1>4. CASE EndsWith(<<>> \o <<Line(TRUE)>>)
  BY <1>2, <1>3, <1>4, EndsTypes
<1>5. CASE m = "WAIT" /\ wait' = TRUE /\ Reply(<<>> \o <<Line(TRUE)>>)
           /\ UNCHANGED <<session, mode, frame, offset, flash_offset, bank, tx>>
  <2>1. DeviceTypes'
    BY <1>5 DEF DeviceTypes, Page
  <2> QED
    BY <1>1, <1>3, <1>5, <2>1, Words0 DEF Reply
<1>6. CASE Reply(<<>> \o <<Line(FALSE)>>)
           /\ UNCHANGED <<session, mode, wait, frame, offset, flash_offset, bank, tx>>
  <2>1. DeviceTypes'
    BY <1>6 DEF DeviceTypes, Page
  <2> QED
    BY <1>1, <1>3, <1>6, <2>1, Words0 DEF Reply
<1>7. CASE /\ m \in ReceiveModes \cup SendModes
           /\ mode' = m /\ frame' = 1 /\ offset' = 0 /\ flash_offset' = 0
           /\ bank' = CASE m = "RESQ" -> "A" [] m = "RESB" -> "B" [] OTHER -> bank
           /\ session' = IF m \in SendModes THEN "send" ELSE "recv"
           /\ tx' = [pc |-> "start", block |-> 1, errors |-> 0, cancels |-> 0, tries |-> 0]
           /\ Reply(<<>> \o <<Line(TRUE)>>) /\ UNCHANGED wait
  <2>1. bank' \in Slots
    BY <1>7 DEF Slots, DeviceTypes
  <2>2. 0 \in 0 .. Pages + 1 /\ 0 \in 0 .. Buffer - 1
    BY Sizes
  <2>3. tx' \in [pc : {"start", "answer", "finish"}, block : Nat, errors : Nat, cancels : Nat,
                 tries : Nat]
    BY <1>7
  <2>4. DeviceTypes'
    BY <1>7, <2>1, <2>2, <2>3 DEF DeviceTypes, Page
  <2> QED
    BY <1>1, <1>3, <1>7, <2>4, Words0 DEF Reply
<1> QED
  BY <1>4, <1>5, <1>6, <1>7 DEF ValidateMode

\* What a frame leaves in the buffer.
LEMMA PlacedTypes ==
  ASSUME Types, NEW units \in Seq(Unit)
  PROVE  /\ Placed(units) \in Page /\ Padded \in Page
         /\ Placed([i \in DOMAIN units |-> Garbage]) \in Page
<1>1. offset \in Nat /\ data \in [1 .. Buffer -> Unit] /\ Buffer \in Nat /\ Len(units) \in Nat
  BY Sizes DEF Types, DeviceTypes, Page
<1>2. ASSUME NEW other \in Seq(Unit)
      PROVE  Placed(other) \in Page
  <2>1. ASSUME NEW i \in 1 .. Buffer, i \in offset + 1 .. offset + Len(other)
        PROVE  other[i - offset] \in Unit
    <3>1. i - offset \in 1 .. Len(other)
      BY <1>1, <2>1
    <3> QED
      BY <3>1, ElementOfSeq
  <2> QED
    BY <1>1, <2>1 DEF Placed, Page
<1>3. [i \in DOMAIN units |-> Garbage] \in Seq(Unit)
  <2>1. DOMAIN units = 1 .. Len(units)
    OBVIOUS
  <2> QED
    BY <1>1, <2>1, Units0
<1>4. Padded \in Page
  BY <1>1, Units0 DEF Padded, Page
<1> QED
  BY <1>2, <1>3, <1>4

\* A frame that is heard fits into the buffer.
LEMMA FitsHere ==
  ASSUME Basic, session = "recv", toDevice # <<>>, Head(toDevice) \in Framed
  PROVE  /\ UploadRuns /\ command \in Commands
         /\ Len(Head(toDevice).data) = command.block_len
         /\ offset + command.block_len \in 1 .. Buffer
         /\ (offset + command.block_len) % command.block_len = 0
<1> DEFINE L == command.block_len
<1>1. Head(toDevice) = toDevice[1] /\ 1 \in 1 .. Len(toDevice)
  BY HeadAndTail DEF Basic, Types, QueueTypes
<1>2. UploadRuns
  <2>1. Has(toDevice, Framed \cup Eofs)
    BY <1>1 DEF Has
  <2> QED
    BY <2>1 DEF Basic, Clean
<1>3. command \in Commands
  BY <1>2 DEF UploadRuns, Uploading, Basic, Types, HostTypes
<1>4. Len(Head(toDevice).data) = L /\ offset % L = 0
  <2>1. Head(toDevice) \notin {x \in Framed : Len(x.data) # L}
    BY <1>1, <1>2 DEF Basic, Fitting, Has
  <2> QED
    BY <1>2, <2>1 DEF Basic, Fitting
<1>5. L \in Nat \ {0} /\ Buffer % L = 0 /\ Buffer \in Nat /\ offset \in Nat /\ offset < Buffer
  BY <1>3, CommandFacts, Sizes DEF Basic, Types, DeviceTypes
<1> HIDE DEF L
<1>6. offset + L <= Buffer /\ (offset + L) % L = 0
  BY <1>4, <1>5, NextMultiple
<1> QED
  BY <1>2, <1>3, <1>4, <1>5, <1>6 DEF L

LEMMA FailTypes ==
  ASSUME Basic, session = "recv", NEW off \in Nat, HandleFails(off)
  PROVE  /\ DeviceTypes' /\ StoreTypes' /\ toHost' \in Seq(Message) /\ session' = "over"
         /\ faults' \in 0 .. MaxFaults
<1>1. EndsWith(<<>>) /\ Types /\ mode \in ReceiveModes
  BY DEF HandleFails, Basic, Session
<1>2. DeviceTypes' /\ toHost' \in Seq(Message) /\ session' = "over"
  BY <1>1, EndsTypes, Words0
<1>3. CASE TooBig /\ UNCHANGED <<store, faults>>
  BY <1>1, <1>2, <1>3 DEF Types, StoreTypes, CountTypes
<1>4. CASE ~TooBig /\ Fault /\ store' \in CutStores
  <2>1. store' \in Memory
    BY <1>1, <1>4, CutsKeepTypes
  <2>2. faults' \in 0 .. MaxFaults
    BY <1>1, <1>4, Sizes DEF Fault, Types, CountTypes
  <2> QED
    BY <1>2, <2>1, <2>2 DEF StoreTypes
<1> QED
  BY <1>3, <1>4 DEF HandleFails

LEMMA ProtocolTypes ==
  ASSUME Basic, session = "recv", toDevice # <<>>, NEW m, m = Head(toDevice), Protocol(m)
  PROVE  /\ DeviceTypes' /\ StoreTypes' /\ toHost' \in Seq(Message)
         /\ faults' \in 0 .. MaxFaults
<1>1. /\ Types /\ DeviceTypes /\ StoreTypes /\ toHost \in Seq(Message)
      /\ faults \in 0 .. MaxFaults /\ m \in Message
  BY HeadAndTail DEF Basic, Types, QueueTypes, CountTypes
<1>2. \A t \in {"ack", "nak", "C", "text"} : Msg(t) \in Message
  BY Signals
<1>3. /\ \A t \in {"ack", "nak", "C", "text"} : toHost \o <<Msg(t)>> \in Seq(Message)
      /\ toHost \o <<>> = toHost
      /\ <<>> \in Seq(Message) /\ <<Msg("ack")>> \in Seq(Message)
  BY <1>1, <1>2, Words0
<1>4. ASSUME EndsWith(<<>>), UNCHANGED <<store, faults>>
      PROVE  DeviceTypes' /\ StoreTypes' /\ toHost' \in Seq(Message) /\ faults' \in 0 .. MaxFaults
  BY <1>1, <1>3, <1>4, EndsTypes DEF StoreTypes
<1>5. CASE ReceiveFrame(m)
  <2>1. m \in Framed /\ m.data \in Seq(Unit)
    BY <1>1, <1>5, MessageKinds DEF ReceiveFrame, Framed, OfType
  <2> DEFINE off == offset + Len(m.data)
  <2>2. off \in 1 .. Buffer
    BY <2>1, FitsHere
  <2>3. CASE HandleFails(off)
    BY <2>2, <2>3, FailTypes
  <2>4. CASE /\ HandleRecvModes(off, Placed(m.data))
             /\ data' = Placed(m.data) /\ frame' = frame + 1 /\ Reply(<<Msg("ack")>>)
             /\ UNCHANGED <<session, mode, wait, bank, tx, faults>>
    <3>1. data' \in Page
      BY <1>1, <2>1, <2>4, PlacedTypes
    <3>2. /\ offset' \in 0 .. Buffer - 1 /\ flash_offset' \in 0 .. Pages + 1
          /\ StoreTypes'
      <4>1. CASE ~Enough(off) /\ offset' = off /\ UNCHANGED <<store, flash_offset>>
        <5>1. off < Buffer
          BY <2>2, <4>1, Sizes DEF Enough
        <5> QED
          BY <1>1, <2>2, <4>1, <5>1, Sizes DEF StoreTypes, DeviceTypes
      <4>2. CASE /\ Enough(off) /\ Store(Placed(m.data)) /\ offset' = 0
                 /\ flash_offset' = IF mode \in {"RESQ", "RESB"} THEN NextPage + 1
                                    ELSE flash_offset
        <5>1. StoreTypes'
          BY <1>1, <2>1, <4>2, PlacedTypes, StoreKeepsTypes DEF StoreTypes
        <5>2. mode \in {"RESQ", "RESB"} => NextPage <= Pages
          BY <4>2 DEF Store, FlashFirmwareBlock
        <5>3. flash_offset' \in 0 .. Pages + 1
          BY <1>1, <4>2, <5>2, SlotsBefore, Sizes DEF DeviceTypes
        <5>4. 0 \in 0 .. Buffer - 1
          BY Sizes
        <5> QED
          BY <4>2, <5>1, <5>3, <5>4
      <4> QED
        BY <2>4, <4>1, <4>2 DEF HandleRecvModes
    <3>3. DeviceTypes'
      BY <1>1, <2>4, <3>1, <3>2 DEF DeviceTypes
    <3>4. toHost' \in Seq(Message)
      BY <1>3, <2>4 DEF Reply
    <3> QED
      BY <1>1, <2>4, <3>2, <3>3, <3>4
  <2> QED
    BY <1>5, <2>3, <2>4 DEF ReceiveFrame
<1>6. CASE CancelOutOfTurn(m) \/ GiveUp(m)
  BY <1>4, <1>6 DEF CancelOutOfTurn, GiveUp
<1>7. CASE RefuseFrame(m)
  <2>1. m.data \in Seq(Unit)
    BY <1>1, <1>7, MessageKinds DEF RefuseFrame
  <2>2. data' \in Page
    BY <1>1, <1>7, <2>1, PlacedTypes DEF RefuseFrame
  <2>3. DeviceTypes'
    BY <1>1, <1>7, <2>2 DEF RefuseFrame, DeviceTypes
  <2> QED
    BY <1>1, <1>3, <1>7, <2>3 DEF RefuseFrame, Reply, StoreTypes
<1>8. CASE EndOfFile(m)
  <2>1. CASE HandleFails(Buffer)
    BY <2>1, FailTypes, Sizes
  <2>2. CASE /\ \/ offset % Buffer = 0 /\ UNCHANGED store
                \/ offset % Buffer # 0 /\ Store(Padded)
             /\ UNCHANGED faults
             /\ \/ ~wait /\ EndsWith(<<Msg("ack")>>)
                \/ /\ wait /\ Reply(<<Msg("ack")>>)
                   /\ frame' = 1 /\ offset' = 0 /\ flash_offset' = 0
                   /\ UNCHANGED <<session, mode, wait, data, bank, tx>>
    <3>1. StoreTypes'
      BY <1>1, <2>2, PlacedTypes, EmptySeq, StoreKeepsTypes DEF StoreTypes
    <3>2. CASE ~wait /\ EndsWith(<<Msg("ack")>>)
      BY <1>1, <1>3, <2>2, <3>1, <3>2, EndsTypes
    <3>3. CASE /\ wait /\ Reply(<<Msg("ack")>>)
               /\ frame' = 1 /\ offset' = 0 /\ flash_offset' = 0
               /\ UNCHANGED <<session, mode, wait, data, bank, tx>>
      <4>1. 0 \in 0 .. Pages + 1 /\ 0 \in 0 .. Buffer - 1
        BY Sizes
      <4>2. DeviceTypes'
        BY <1>1, <3>3, <4>1 DEF DeviceTypes
      <4> QED
        BY <1>1, <1>3, <2>2, <3>1, <3>3, <4>2 DEF Reply
    <3> QED
      BY <2>2, <3>2, <3>3
  <2> QED
    BY <1>8, <2>1, <2>2 DEF EndOfFile
<1>9. CASE SetMode(m)
  <2>1. m.mode \in Modes \cup {"bad"}
    BY <1>1, <1>9, MessageKinds DEF SetMode
  <2> QED
    BY <1>1, <1>9, <2>1, ModeTypes DEF SetMode, StoreTypes
<1>10. CASE OtherCharacters(m)
  <2>1. DeviceTypes'
    BY <1>1, <1>10 DEF OtherCharacters, device, DeviceTypes
  <2> QED
    BY <1>1, <1>3, <1>10, <2>1 DEF OtherCharacters, Reply, StoreTypes
<1> QED
  BY <1>5, <1>6, <1>7, <1>8, <1>9, <1>10 DEF Protocol
-----------------------------------------------------------------------------
\* The queues after a step, for all sets of messages.
LEMMA Heard ==
  ASSUME NEW q \in Seq(Message), q # <<>>
  PROVE  /\ Tail(q) \in Seq(Message) /\ Head(q) \in Message
         /\ \A S : Has(Tail(q), S) => Has(q, S)
         /\ \A S : Head(q) \in S => Has(q, S)
         /\ \A S, T : Follows(Tail(q), S, T) => Follows(q, S, T)
         /\ \A S, T : Head(q) \in S /\ Has(Tail(q), T) => Follows(q, S, T)
<1>1. Tail(q) \in Seq(Message) /\ Head(q) \in Message
  BY HeadAndTail
<1>2. ASSUME NEW S PROVE (Has(Tail(q), S) => Has(q, S)) /\ (Head(q) \in S => Has(q, S))
  BY HasTail
<1>3. ASSUME NEW S, NEW T
      PROVE  /\ Follows(Tail(q), S, T) => Follows(q, S, T)
             /\ Head(q) \in S /\ Has(Tail(q), T) => Follows(q, S, T)
  BY FollowsTail
<1> QED
  BY <1>1, <1>2, <1>3

LEMMA Said ==
  ASSUME NEW q \in Seq(Message), NEW x \in Message
  PROVE  /\ q \o <<x>> \in Seq(Message) /\ q \o <<x>> # <<>>
         /\ \A S : Has(q \o <<x>>, S) => Has(q, S) \/ x \in S
         /\ \A S, T : Follows(q \o <<x>>, S, T) => Follows(q, S, T) \/ (Has(q, S) /\ x \in T)
<1>1. <<x>> \in Seq(Message)
  OBVIOUS
<1>2. q \o <<x>> \in Seq(Message) /\ Len(q \o <<x>>) = Len(q) + 1
  BY <1>1, ConcatProperties
<1>3. ASSUME NEW S PROVE Has(q \o <<x>>, S) => Has(q, S) \/ x \in S
  BY <1>1, HasConcat, HasFew
<1>4. ASSUME NEW S, NEW T
      PROVE  Follows(q \o <<x>>, S, T) => Follows(q, S, T) \/ (Has(q, S) /\ x \in T)
  <2>1. ~Follows(<<x>>, S, T) /\ (Has(<<x>>, T) <=> x \in T)
    BY HasFew
  <2> QED
    BY <1>1, <2>1, FollowsConcat
<1>5. q \o <<x>> # <<>>
  BY <1>2, LenProperties, EmptySeq
<1> QED
  BY <1>2, <1>3, <1>4, <1>5

LEMMA SaidTwo ==
  ASSUME NEW q \in Seq(Message), NEW x \in Message, NEW y \in Message
  PROVE  /\ q \o <<x, y>> \in Seq(Message) /\ q \o <<x, y>> # <<>>
         /\ \A S : Has(q \o <<x, y>>, S) => Has(q, S) \/ x \in S \/ y \in S
         /\ \A S, T : Follows(q \o <<x, y>>, S, T) =>
              \/ Follows(q, S, T) \/ (x \in S /\ y \in T)
              \/ (Has(q, S) /\ (x \in T \/ y \in T))
<1>1. <<x, y>> \in Seq(Message) /\ Len(<<x, y>>) = 2
  OBVIOUS
<1>2. q \o <<x, y>> \in Seq(Message) /\ Len(q \o <<x, y>>) = Len(q) + 2
  BY <1>1, ConcatProperties
<1>3. ASSUME NEW S PROVE Has(<<x, y>>, S) <=> x \in S \/ y \in S
  BY HasFew
<1>4. ASSUME NEW S PROVE Has(q \o <<x, y>>, S) => Has(q, S) \/ x \in S \/ y \in S
  BY <1>1, <1>3, HasConcat
<1>5. ASSUME NEW S, NEW T
      PROVE  Follows(q \o <<x, y>>, S, T) =>
              \/ Follows(q, S, T) \/ (x \in S /\ y \in T)
              \/ (Has(q, S) /\ (x \in T \/ y \in T))
  <2>1. Follows(<<x, y>>, S, T) <=> x \in S /\ y \in T
    BY HasFew
  <2>2. Has(<<x, y>>, T) <=> x \in T \/ y \in T
    BY <1>3
  <2> QED
    BY <1>1, <2>1, <2>2, FollowsConcat
<1>6. q \o <<x, y>> # <<>>
  BY <1>2, LenProperties, EmptySeq
<1> QED
  BY <1>2, <1>4, <1>5, <1>6

\* A message that was damaged.
LEMMA Damaged ==
  ASSUME NEW q \in Seq(Message), q # <<>>, NEW x \in Message
  PROVE  /\ <<x>> \o Tail(q) \in Seq(Message)
         /\ \A S : Has(<<x>> \o Tail(q), S) => x \in S \/ Has(Tail(q), S)
         /\ \A S, T : Follows(<<x>> \o Tail(q), S, T) =>
              (x \in S /\ Has(Tail(q), T)) \/ Follows(Tail(q), S, T)
<1>1. <<x>> \in Seq(Message) /\ Tail(q) \in Seq(Message)
  BY HeadAndTail
<1>2. <<x>> \o Tail(q) \in Seq(Message)
  BY <1>1, ConcatProperties
<1>3. ASSUME NEW S PROVE Has(<<x>> \o Tail(q), S) => x \in S \/ Has(Tail(q), S)
  BY <1>1, HasConcat, HasFew
<1>4. ASSUME NEW S, NEW T
      PROVE  Follows(<<x>> \o Tail(q), S, T) =>
              (x \in S /\ Has(Tail(q), T)) \/ Follows(Tail(q), S, T)
  <2>1. ~Follows(<<x>>, S, T) /\ (Has(<<x>>, S) <=> x \in S)
    BY HasFew
  <2> QED
    BY <1>1, <2>1, FollowsConcat
<1> QED
  BY <1>2, <1>3, <1>4
-----------------------------------------------------------------------------
\* The messages by their types.
LEMMA Kinds ==
  ASSUME NEW m \in Message
  PROVE  /\ m \in Framed <=> m.type \in {"frame", "crc", "number", "short"}
         /\ m \in Acks <=> m.type = "ack"
         /\ m \in Eofs <=> m.type = "eof"
         /\ m \in Lines <=> m.type = "line"
         /\ m \in Yes <=> m.type = "line" /\ m.ok
         /\ m \in ModeSettings <=> m.type = "mode"
  BY DEF Framed, Acks, Eofs, Lines, Yes, ModeSettings, OfType

\* While the command stays the same, so does its file.
LEMMA SameFile ==
  ASSUME UNCHANGED <<command, commands>>
  PROVE  /\ \A i : FileUnit(i)' = FileUnit(i)
         /\ \A k : HostFrame(k)' = HostFrame(k) /\ Upload(k)' = Upload(k)
         /\ LastBlock' = LastBlock /\ Goal' = Goal /\ (Fits' <=> Fits)
         /\ (Uploading' <=> Uploading) /\ (Downloading' <=> Downloading)
<1>1. \A i : FileUnit(i)' = FileUnit(i)
  BY DEF FileUnit
<1>2. \A k : HostFrame(k)' = HostFrame(k)
  BY <1>1 DEF HostFrame
<1>3. Goal' = Goal
  BY <1>1 DEF Goal
<1> QED
  BY <1>1, <1>2, <1>3 DEF Upload, LastBlock, Fits, Uploading, Downloading

LEMMA SameUnits ==
  ASSUME UNCHANGED <<command, store>>
  PROVE  Units' = Units /\ \A k : Download(k)' = Download(k)
<1>1. Units' = Units
  BY DEF Units
<1> QED
  BY <1>1 DEF Download

LEMMA Separate ==
  /\ ~(Uploading /\ Downloading)
  /\ command # None => (Uploading <=> command.mode \in ReceiveModes)
                       /\ (Downloading <=> command.mode \in SendModes)
  BY DEF Uploading, Downloading, ReceiveModes, SendModes

\* What the device says when it ends a session.
LEMMA LastWords ==
  ASSUME Types, NEW x \in Message
  PROVE  /\ EndsWith(<<>>) => toHost' = toHost \o <<Msg("text")>>
         /\ EndsWith(<<x>>) => toHost' = toHost \o <<x, Msg("text")>>
<1>1. Msg("text") \in Message
  BY Signals
<1>2. <<>> \o <<Msg("text")>> = <<Msg("text")>>
  BY <1>1, Words0, ConcatEmptySeq
<1>3. <<x>> \o <<Msg("text")>> = <<x, Msg("text")>>
  <2>1. /\ <<x>> \in Seq(Message) /\ <<Msg("text")>> \in Seq(Message)
        /\ <<x, Msg("text")>> \in Seq(Message) /\ Len(<<x, Msg("text")>>) = 2
        /\ <<x, Msg("text")>>[1] = x /\ <<x, Msg("text")>>[2] = Msg("text")
        /\ Len(<<x>>) = 1 /\ <<x>>[1] = x
        /\ Len(<<Msg("text")>>) = 1 /\ <<Msg("text")>>[1] = Msg("text")
    BY <1>1
  <2>2. /\ <<x>> \o <<Msg("text")>> \in Seq(Message) /\ Len(<<x>> \o <<Msg("text")>>) = 2
        /\ \A i \in 1 .. 1 + 1 : (<<x>> \o <<Msg("text")>>)[i] =
             IF i <= 1 THEN <<x>>[i] ELSE <<Msg("text")>>[i - 1]
    BY <2>1, ConcatProperties
  <2>3. \A i \in 1 .. 2 : (<<x>> \o <<Msg("text")>>)[i] = <<x, Msg("text")>>[i]
    <3>1. ASSUME NEW i \in 1 .. 2 PROVE i = 1 \/ i = 2
      OBVIOUS
    <3> QED
      BY <2>1, <2>2, <3>1
  <2> QED
    BY <2>1, <2>2, <2>3, SeqEqual
<1> QED
  BY <1>2, <1>3 DEF EndsWith, Reply

\* The end of a session, whoever ended it.
LEMMA Over ==
  ASSUME Basic, Types', session' = "over", toDevice' = <<>>, UNCHANGED <<host, commands>>,
         UploadRuns \/ UNCHANGED store,
         \/ EndsWith(<<>>) \/ (EndsWith(<<Msg("ack")>>) /\ UploadRuns)
         \/ (EndsWith(<<Line(TRUE)>>) /\ toDevice # <<>>)
  PROVE  Basic'
<1>1. /\ Types /\ toHost \in Seq(Message)
      /\ Msg("text") \in Message /\ Msg("ack") \in Message /\ Line(TRUE) \in Message
      /\ Msg("text").type = "text" /\ Msg("ack").type = "ack" /\ Line(TRUE).type = "line"
  BY Signals DEF Basic, Types, QueueTypes
<1>2. /\ UNCHANGED <<hpc, command, todo, block, errors, cancels, got, status, commands>>
  BY DEF host
<1>3. \/ toHost' = toHost \o <<Msg("text")>>
      \/ toHost' = toHost \o <<Msg("ack"), Msg("text")>> /\ UploadRuns
      \/ toHost' = toHost \o <<Line(TRUE), Msg("text")>> /\ toDevice # <<>>
  BY <1>1, LastWords
<1>a. ASSUME NEW S, Has(toHost', S)
      PROVE  \/ Has(toHost, S) \/ Msg("text") \in S
             \/ (Msg("ack") \in S /\ UploadRuns)
             \/ (Line(TRUE) \in S /\ toDevice # <<>>)
  <2>1. CASE toHost' = toHost \o <<Msg("text")>>
    BY <1>1, <1>a, <2>1, Said
  <2>2. CASE toHost' = toHost \o <<Msg("ack"), Msg("text")>> /\ UploadRuns
    BY <1>1, <1>a, <2>2, SaidTwo
  <2>3. CASE toHost' = toHost \o <<Line(TRUE), Msg("text")>> /\ toDevice # <<>>
    BY <1>1, <1>a, <2>3, SaidTwo
  <2> QED
    BY <1>3, <2>1, <2>2, <2>3
<1>b. ASSUME Follows(toHost', Lines, Lines)
      PROVE  Follows(toHost, Lines, Lines) \/ (toDevice # <<>> /\ Has(toHost, Lines))
  <2>1. Msg("text") \notin Lines /\ Msg("ack") \notin Lines
    BY <1>1, Kinds
  <2>2. CASE toHost' = toHost \o <<Msg("text")>>
    BY <1>1, <1>b, <2>1, <2>2, Said
  <2>3. CASE toHost' = toHost \o <<Msg("ack"), Msg("text")>> /\ UploadRuns
    BY <1>1, <1>b, <2>1, <2>3, SaidTwo
  <2>4. CASE toHost' = toHost \o <<Line(TRUE), Msg("text")>> /\ toDevice # <<>>
    BY <1>1, <1>b, <2>1, <2>4, SaidTwo
  <2> QED
    BY <1>3, <2>2, <2>3, <2>4
<1>4. Places'
  BY <1>2 DEF Basic, Places, Uploading, Downloading
<1>5. Handshake'
  <2>1. hpc = "line" => toDevice = <<>> \/ ~Has(toHost, Lines)
    BY DEF Basic, Handshake
  <2>2. ~Has(<<>>, ModeSettings)
    BY HasFew
  <2> QED
    BY <1>2, <1>a, <1>b, <2>1, <2>2 DEF Basic, Handshake
<1>6. Session'
  BY DEF Session
<1>7. Clean'
  <2>1. ~Has(<<>>, Framed \cup Eofs)
    BY HasFew
  <2>2. ASSUME command # None, block = 0
        PROVE  ~Has(toHost', Framed \cup Acks \cup Eofs)
    <3>1. ~UploadRuns /\ ~Has(toHost, Framed \cup Acks \cup Eofs)
      BY <2>2 DEF Basic, Clean, UploadRuns
    <3>2. Msg("text") \notin Framed \cup Acks \cup Eofs /\ Line(TRUE) \notin Framed \cup Acks \cup Eofs
      BY <1>1, Kinds
    <3> QED
      BY <1>a, <3>1, <3>2
  <2> QED
    BY <1>2, <2>1, <2>2 DEF Clean
<1>8. Fitting'
  <2>1. \A S : ~Has(<<>>, S)
    BY HasFew
  <2> QED
    BY <2>1 DEF Fitting
<1>9. Delivered'
  <2>1. SUFFICES ASSUME Downloading' PROVE Delivered'
    BY DEF Delivered
  <2>2. Downloading /\ ~UploadRuns
    BY <1>2, <2>1, SameFile, Separate DEF UploadRuns
  <2>3. Units' = Units /\ \A k : Download(k)' = Download(k)
    BY <1>2, <2>2, SameUnits
  <2>4. ASSUME NEW S, Has(toHost', S), \A x \in S : x \in Framed \cup Eofs
        PROVE  Has(toHost, S)
    <3>1. Msg("text") \notin S /\ Line(TRUE) \notin S
      BY <1>1, <2>4, Kinds
    <3> QED
      BY <1>a, <2>2, <2>4, <3>1
  <2>5. ASSUME NEW j, NEW k, Follows(toHost', Download(j), Download(k))
        PROVE  Follows(toHost, Download(j), Download(k))
    <3>1. /\ \A x \in Download(j) \cup Download(k) : x \in Framed
      BY DEF Download
    <3>2. Msg("text") \notin Download(k) /\ Msg("text") \notin Download(j)
          /\ Line(TRUE) \notin Download(j) /\ Line(TRUE) \notin Download(k)
      BY <1>1, <3>1, Kinds
    <3>3. CASE toHost' = toHost \o <<Msg("text")>>
      BY <1>1, <2>5, <3>2, <3>3, Said
    <3>4. CASE toHost' = toHost \o <<Line(TRUE), Msg("text")>>
      BY <1>1, <2>5, <3>2, <3>4, SaidTwo
    <3> QED
      BY <1>3, <2>2, <3>3, <3>4
  <2> QED
    BY <1>2, <2>2, <2>3, <2>4, <2>5 DEF Basic, Delivered
<1> QED
  BY <1>4, <1>5, <1>6, <1>7, <1>8, <1>9 DEF Basic
-----------------------------------------------------------------------------
\* The types of what a step leaves alone.
LEMMA DeviceStepTypes ==
  ASSUME Types, DeviceTypes', StoreTypes', toHost' \in Seq(Message),
         faults' \in 0 .. MaxFaults, naks' \in 0 .. MaxNaks, UNCHANGED <<host, commands>>,
         toDevice' \in Seq(Message)
  PROVE  Types'
<1>1. HostTypes'
  BY DEF Types, HostTypes, host
<1>2. CountTypes'
  BY DEF Types, CountTypes
<1> QED
  BY <1>1, <1>2 DEF Types, QueueTypes

\* A message of an upload is dealt with, and the session goes on.
LEMMA UploadGoesOn ==
  ASSUME Basic, Types', UploadRuns, session = "recv", session' = "recv",
         UNCHANGED <<mode, bank, host, commands>>, toDevice # <<>>,
         toDevice' = Tail(toDevice), offset' % command.block_len = 0
  PROVE  Basic'
<1>1. /\ toDevice \in Seq(Message)
      /\ UNCHANGED <<hpc, command, todo, block, errors, cancels, got, status, commands>>
      /\ block >= 1 /\ block # 0 /\ Uploading /\ ~Downloading
  BY Separate DEF host, Basic, Types, QueueTypes, UploadRuns
<1>2. hpc # "line"
  BY <1>1 DEF Basic, Places
<1>3. \A S : Has(toDevice', S) => Has(toDevice, S)
  BY <1>1, Heard
<1>4. UploadRuns' /\ Uploading' /\ ~Downloading'
  BY <1>1, SameFile DEF UploadRuns
<1>5. Places'
  BY <1>1, <1>2, <1>4 DEF Basic, Places
<1>6. Handshake'
  BY <1>1, <1>2, <1>3 DEF Basic, Handshake
<1>7. Session'
  BY <1>1 DEF Basic, Session, UploadRuns
<1>8. Clean'
  BY <1>1, <1>4 DEF Clean
<1>9. Fitting'
  BY <1>1, <1>3 DEF Basic, Fitting
<1>10. Delivered'
  BY <1>4 DEF Delivered
<1> QED
  BY <1>5, <1>6, <1>7, <1>8, <1>9, <1>10 DEF Basic

\* A mode is set, or not, and the session goes on.
LEMMA ModeIsSet ==
  ASSUME Basic, Types', session = "recv", toDevice # <<>>, Head(toDevice).type = "mode",
         ValidateMode(Head(toDevice).mode, <<>>), session' # "over",
         toDevice' = Tail(toDevice), UNCHANGED <<data, store, host, commands>>
  PROVE  Basic'
<1> DEFINE m == Head(toDevice).mode
<1>1. /\ toDevice \in Seq(Message) /\ toHost \in Seq(Message)
      /\ UNCHANGED <<hpc, command, todo, block, errors, cancels, got, status, commands>>
  BY DEF host, Basic, Types, QueueTypes
<1>2. Head(toDevice) \in ModeSettings
  BY <1>1, Heard, Kinds
<1>3. hpc = "line"
  BY <1>1, <1>2, Heard DEF Basic, Handshake
<1>4. /\ command \in Commands /\ block = 0 /\ ~UploadRuns
      /\ todo = <<command.mode>> \/ todo = <<"WAIT", command.mode>>
      /\ toDevice = <<Mode(Head(todo))>> \/ toDevice = <<Mode("bad")>>
      /\ ~Has(toHost, Lines)
  BY <1>3 DEF Basic, Places, Handshake, Types, HostTypes, UploadRuns
<1>5. command.mode \in ReceiveModes \cup SendModes \cup {"REBO"}
  BY <1>4, CommandFacts
<1>6. /\ m = "bad" \/ (m = "WAIT" /\ todo = <<"WAIT", command.mode>>)
         \/ (m = command.mode /\ todo = <<command.mode>>)
      /\ Len(<<"WAIT", command.mode>>) # 1
  BY <1>4 DEF Mode
<1>7. toDevice' = <<>>
  BY <1>4
<1>8. Line(TRUE) \in Message /\ Line(FALSE) \in Message /\ Line(TRUE).type = "line"
      /\ Line(FALSE).type = "line" /\ ~Line(FALSE).ok
      /\ <<>> \o <<Line(TRUE)>> = <<Line(TRUE)>> /\ <<>> \o <<Line(FALSE)>> = <<Line(FALSE)>>
  <2>1. Line(TRUE) \in Message /\ Line(FALSE) \in Message
    BY Signals
  <2> QED
    BY <2>1, Signals, Words0, ConcatEmptySeq DEF Basic
<1>9. \E ok \in BOOLEAN :
        /\ toHost' = toHost \o <<Line(ok)>>
        /\ ok => m # "bad"
        /\ ok /\ m = command.mode => mode' = m
  <2>1. CASE m = "WAIT"
    BY <1>5, <1>8, <2>1 DEF ValidateMode, Modes, ReceiveModes, SendModes, Reply
  <2>2. CASE m = "bad"
    BY <1>8, <2>2 DEF ValidateMode, Modes, ReceiveModes, SendModes, Reply
  <2>3. CASE m = command.mode
    <3>1. m # "REBO"
      BY <2>3 DEF ValidateMode, Modes, ReceiveModes, SendModes, EndsWith
    <3> QED
      BY <1>5, <1>8, <2>3, <3>1 DEF ValidateMode, Modes, ReceiveModes, SendModes, Reply
  <2> QED
    BY <1>6, <2>1, <2>2, <2>3
<1>10. \/ UNCHANGED <<session, mode, frame, offset, flash_offset, bank, tx>>
       \/ /\ m = command.mode /\ m \in ReceiveModes \cup SendModes
          /\ mode' = m /\ frame' = 1 /\ offset' = 0 /\ flash_offset' = 0
          /\ bank' = CASE m = "RESQ" -> "A" [] m = "RESB" -> "B" [] OTHER -> bank
          /\ session' = IF m \in SendModes THEN "send" ELSE "recv"
          /\ tx' = [pc |-> "start", block |-> 1, errors |-> 0, cancels |-> 0, tries |-> 0]
  BY <1>6 DEF ValidateMode, EndsWith, Modes, ReceiveModes, SendModes
<1> HIDE DEF m
<1>11. PICK ok \in BOOLEAN : /\ toHost' = toHost \o <<Line(ok)>>
                             /\ ok => m # "bad"
                             /\ ok /\ m = command.mode => mode' = m
  BY <1>9
<1>12. /\ \A S : Has(toHost', S) => Has(toHost, S) \/ Line(ok) \in S
       /\ \A S, T : Follows(toHost', S, T) => Follows(toHost, S, T) \/ (Has(toHost, S) /\ Line(ok) \in T)
       /\ Line(ok) \in Message /\ Line(ok).type = "line" /\ Line(ok).ok = ok
  BY <1>1, <1>11, Signals, Said
<1>13. Places'
  BY <1>1, <1>3, <1>7 DEF Basic, Places, Uploading, Downloading
<1>14. Handshake'
  <2>1. ~Follows(toHost, Lines, Lines)
    BY <1>3 DEF Basic, Handshake
  <2>2. ~Has(toHost, Yes)
    BY <1>4, HasLess DEF Yes
  <2>3. Has(toHost', Yes) /\ Len(todo) = 1 => mode' = command.mode
    BY <1>6, <1>11, <1>12, <2>2, Kinds
  <2> QED
    BY <1>1, <1>3, <1>4, <1>7, <1>12, <2>1, <2>3 DEF Handshake
<1>15. Session'
  <2>1. CASE UNCHANGED <<session, mode, frame, offset, flash_offset, bank, tx>>
    BY <1>1, <2>1, SameFile DEF Basic, Session, UploadRuns
  <2>2. CASE /\ m = command.mode /\ m \in ReceiveModes \cup SendModes
             /\ mode' = m
             /\ bank' = CASE m = "RESQ" -> "A" [] m = "RESB" -> "B" [] OTHER -> bank
             /\ session' = IF m \in SendModes THEN "send" ELSE "recv"
    <3>1. command # None
      BY <1>4, NoneAssumption
    <3> QED
      BY <1>1, <1>3, <2>2, <3>1 DEF Session, Target, Downloading, ReceiveModes, SendModes
  <2> QED
    BY <1>10, <2>1, <2>2
<1>16. Clean'
  <2>1. ~Has(<<>>, Framed \cup Eofs)
    BY HasFew
  <2>2. Line(ok) \notin Framed \cup Acks \cup Eofs
    BY <1>12, Kinds
  <2>3. ~UploadRuns'
    BY <1>1, <1>4 DEF UploadRuns
  <2> QED
    BY <1>1, <1>4, <1>7, <1>10, <1>12, <2>1, <2>2, <2>3 DEF Basic, Clean
<1>17. Fitting'
  BY <1>1, <1>4 DEF Fitting, UploadRuns
<1>18. Delivered'
  <2>1. Units' = Units
    BY <1>1, SameUnits
  <2>2. 1 \in 1 .. Len(Units)
    <3>1. CASE command.mode = "BLOG"
      BY <3>1 DEF Units
    <3>2. CASE command.mode # "BLOG"
      BY <3>2, Sizes DEF Units, Basic, Types, StoreTypes, Memory
    <3> QED
      BY <3>1, <3>2
  <2> QED
    BY <1>1, <1>3, <1>4, <1>10, <2>1, <2>2, SameFile DEF Basic, Places, Delivered
<1> QED
  BY <1>13, <1>14, <1>15, <1>16, <1>17, <1>18 DEF Basic
\* Characters are skipped, or answered with text.
LEMMA CharactersAreSkipped ==
  ASSUME Basic, Types', session = "recv", toDevice # <<>>, OtherCharacters(Head(toDevice)),
         toDevice' = Tail(toDevice), UNCHANGED <<host, commands>>
  PROVE  Basic'
<1> DEFINE m == Head(toDevice)
<1>1. /\ toDevice \in Seq(Message) /\ toHost \in Seq(Message) /\ m \in Message /\ m.type = "chars"
      /\ UNCHANGED <<hpc, command, todo, block, errors, cancels, got, status, commands>>
      /\ UNCHANGED <<session, mode, wait, frame, offset, data, flash_offset, bank, tx, store>>
  BY HeadAndTail DEF host, device, Basic, Types, QueueTypes, OtherCharacters
<1>2. hpc # "line"
  <2>1. toDevice # <<Mode(Head(todo))>> /\ toDevice # <<Mode("bad")>>
    BY <1>1 DEF Mode
  <2> QED
    BY <2>1 DEF Basic, Handshake
<1>3. /\ \A S : Has(toDevice', S) => Has(toDevice, S)
      /\ Msg("text") \in Message /\ Msg("text").type = "text"
      /\ toHost' = toHost \/ toHost' = toHost \o <<Msg("text")>>
  BY <1>1, Heard, Signals, Words0 DEF OtherCharacters, Reply, Basic
<1>4. /\ \A S : Has(toHost', S) => Has(toHost, S) \/ Msg("text") \in S
      /\ \A S, T : Follows(toHost', S, T) => Follows(toHost, S, T) \/ Msg("text") \in T
  <2>1. CASE toHost' = toHost
    BY <2>1
  <2>2. CASE toHost' = toHost \o <<Msg("text")>>
    BY <1>1, <1>3, <2>2, Said
  <2> QED
    BY <1>3, <2>1, <2>2
<1>5. Places' /\ Handshake' /\ Session'
  BY <1>1, <1>2, <1>3, SameFile DEF Basic, Places, Handshake, Session, UploadRuns
<1>6. Clean'
  <2>1. Msg("text") \notin Framed \cup Acks \cup Eofs
    BY <1>3, Kinds
  <2> QED
    BY <1>1, <1>3, <1>4, <2>1, SameFile DEF Basic, Clean, UploadRuns
<1>7. Fitting'
  BY <1>1, <1>3, SameFile DEF Basic, Fitting, UploadRuns
<1>8. Delivered'
  <2>1. Units' = Units /\ \A k : Download(k)' = Download(k)
    BY <1>1, SameUnits
  <2>2. \A k : \A x \in Download(k) : x \in Framed
    BY DEF Download
  <2>3. \A S : Msg("text") \notin Framed \ S /\ Msg("text") \notin Eofs
    BY <1>3, Kinds
  <2>4. \A j, k : Follows(toHost', Download(j), Download(k)) => Follows(toHost, Download(j), Download(k))
    BY <1>4, <2>2, <2>3
  <2> QED
    BY <1>1, <1>4, <2>1, <2>3, <2>4, SameFile DEF Basic, Delivered
<1> QED
  BY <1>5, <1>6, <1>7, <1>8 DEF Basic

LEMMA ProtocolKeepsBasic ==
  ASSUME Basic, session = "recv", toDevice # <<>>, Protocol(Head(toDevice)),
         toDevice' = IF session' = "over" THEN <<>> ELSE Tail(toDevice),
         UNCHANGED <<host, commands, naks>>
  PROVE  Basic'
<1> DEFINE m == Head(toDevice)
<1>1. /\ Types /\ toDevice \in Seq(Message) /\ m \in Message /\ naks \in 0 .. MaxNaks
      /\ UNCHANGED <<hpc, command, todo, block, errors, cancels, got, status, commands>>
      /\ offset \in Nat
  BY HeadAndTail DEF Basic, Types, QueueTypes, CountTypes, host, DeviceTypes
<1>2. Types'
  <2>1. toDevice' \in Seq(Message)
    BY <1>1, HeadAndTail, EmptySeq
  <2> QED
    BY <1>1, <2>1, ProtocolTypes, DeviceStepTypes
<1>3. ASSUME EndsWith(<<>>), UploadRuns \/ UNCHANGED store
      PROVE  Basic'
  <2>1. session' = "over" /\ toDevice' = <<>>
    BY <1>3 DEF EndsWith
  <2> QED
    BY <1>2, <1>3, <2>1, Over
<1>4. m \in Framed \cup Eofs => UploadRuns
  BY <1>1, Heard DEF Basic, Clean
<1>5. UploadRuns => command \in Commands /\ command.block_len \in Nat \ {0}
                    /\ 0 % command.block_len = 0
  <2>1. \A n \in Nat \ {0} : 0 % n = 0
    OBVIOUS
  <2> QED
    BY <2>1, CommandFacts DEF UploadRuns, Uploading, Basic, Types, HostTypes
<1>6. CASE ReceiveFrame(m)
  <2>1. m \in Framed /\ UploadRuns
    BY <1>1, <1>4, <1>6, Kinds DEF ReceiveFrame
  <2>2. CASE HandleFails(offset + Len(m.data))
    BY <1>3, <2>1, <2>2 DEF HandleFails
  <2>3. CASE /\ HandleRecvModes(offset + Len(m.data), Placed(m.data))
             /\ UNCHANGED <<session, mode, wait, bank, tx, faults>>
    <3>1. offset' % command.block_len = 0
      <4>1. (offset + Len(m.data)) % command.block_len = 0
        BY <2>1, FitsHere
      <4> QED
        BY <1>5, <2>1, <2>3, <4>1 DEF HandleRecvModes
    <3> QED
      BY <1>2, <2>1, <2>3, <3>1, UploadGoesOn
  <2> QED
    BY <1>6, <2>2, <2>3 DEF ReceiveFrame
<1>7. CASE CancelOutOfTurn(m) \/ GiveUp(m)
  BY <1>3, <1>7 DEF CancelOutOfTurn, GiveUp
<1>8. CASE RefuseFrame(m)
  <2>1. m \in Framed /\ UploadRuns
    BY <1>1, <1>4, <1>8, Kinds DEF RefuseFrame
  <2>2. offset % command.block_len = 0
    BY <2>1 DEF Basic, Fitting
  <2> QED
    BY <1>2, <1>8, <2>1, <2>2, UploadGoesOn DEF RefuseFrame
<1>9. CASE EndOfFile(m)
  <2>1. UploadRuns
    BY <1>1, <1>4, <1>9, Kinds DEF EndOfFile
  <2>2. CASE HandleFails(Buffer)
    BY <1>3, <2>1, <2>2 DEF HandleFails
  <2>3. CASE EndsWith(<<Msg("ack")>>)
    <3>1. session' = "over" /\ toDevice' = <<>>
      BY <2>3 DEF EndsWith
    <3> QED
      BY <1>2, <2>1, <2>3, <3>1, Over
  <2>4. CASE offset' = 0 /\ UNCHANGED <<session, mode, wait, data, bank, tx>>
    BY <1>2, <1>5, <2>1, <2>4, UploadGoesOn
  <2> QED
    BY <1>9, <2>2, <2>3, <2>4 DEF EndOfFile
<1>10. CASE SetMode(m)
  <2>1. m.type = "mode" /\ ValidateMode(m.mode, <<>>) /\ UNCHANGED <<data, store>>
    BY <1>10 DEF SetMode
  <2>2. CASE session' # "over"
    BY <1>2, <2>1, <2>2, ModeIsSet
  <2>3. CASE session' = "over"
    <3>1. Line(TRUE) \in Message /\ <<>> \o <<Line(TRUE)>> = <<Line(TRUE)>>
      BY Signals, Words0, ConcatEmptySeq DEF Basic
    <3>2. EndsWith(<<Line(TRUE)>>)
      BY <2>1, <2>3, <3>1 DEF ValidateMode
    <3> QED
      BY <1>2, <2>1, <2>3, <3>2, Over
  <2> QED
    BY <2>2, <2>3
<1>11. CASE OtherCharacters(m)
  <2>1. session' # "over"
    BY <1>11 DEF OtherCharacters, device
  <2> QED
    BY <1>2, <1>11, <2>1, CharactersAreSkipped
<1> QED
  BY <1>6, <1>7, <1>8, <1>9, <1>10, <1>11 DEF Protocol
-----------------------------------------------------------------------------
\* The device sends: what a download leaves alone.
LEMMA DeviceFrames ==
  ASSUME Basic, session = "send"
  PROVE  /\ Downloading /\ command \in Commands /\ SentUnits = Units
         /\ tx.block \in 1 .. Len(Units) /\ Len(Units) \in Nat
         /\ \A k \in 1 .. Len(Units) :
              /\ DeviceFrame(k) \in Message /\ DeviceFrame(k).type = "frame"
              /\ DeviceFrame(k) \in Download(k) /\ Units[k] \in Unit
<1>1. Downloading /\ mode = command.mode /\ command \in Commands
  BY DEF Basic, Session, Types, HostTypes, Downloading
<1>2. SentUnits = Units
  BY <1>1 DEF SentUnits, Units
<1>3. tx.block \in 1 .. Len(Units)
  BY <1>1 DEF Basic, Delivered
<1>4. Units \in Seq(Unit)
  <2>1. CASE command.mode = "BLOG"
    BY <2>1, Units0 DEF Units
  <2>2. CASE command.mode # "BLOG"
    <3>1. store["msg"] \in [1 .. MsgLen -> Unit]
      BY DEF Basic, Types, StoreTypes, Memory
    <3>2. MsgLen \in Nat
      BY Sizes
    <3>3. store["msg"] \in Seq(Unit)
      BY <3>1, <3>2
    <3> QED
      BY <2>2, <3>3 DEF Units
  <2> QED
    BY <2>1, <2>2
<1>5. ASSUME NEW k \in 1 .. Len(Units)
      PROVE  /\ DeviceFrame(k) \in Message /\ DeviceFrame(k).type = "frame"
             /\ DeviceFrame(k) \in Download(k) /\ Units[k] \in Unit
  <2>1. Units[k] \in Unit /\ k \in Nat
    BY <1>4, <1>5, ElementOfSeq
  <2>2. <<Units[k]>> \in Seq(Unit)
    BY <2>1
  <2>3. DeviceFrame(k) = Frame(k, <<Units[k]>>)
    BY <1>2 DEF DeviceFrame
  <2>4. /\ DeviceFrame(k) \in Message /\ DeviceFrame(k).type = "frame"
        /\ DeviceFrame(k).num = k % FrameMod /\ DeviceFrame(k).data = <<Units[k]>>
    <3> DEFINE f == Frame(k, <<Units[k]>>)
    <3>1. f \in Message /\ f.type = "frame" /\ f.num = k % FrameMod /\ f.data = <<Units[k]>>
      BY <2>1, <2>2, FramesAreMessages
    <3> QED
      BY <2>3, <3>1
  <2>5. DeviceFrame(k) \in Framed
    BY <2>4, Kinds
  <2> QED
    BY <2>1, <2>4, <2>5 DEF Download
<1> QED
  BY <1>1, <1>2, <1>3, <1>4, <1>5

\* The blocks of a download have different numbers.
LEMMA Apart ==
  ASSUME NEW k \in Nat, NEW m \in Download(k)
  PROVE  m \notin Download(k + 1)
<1>1. (k + 1) % FrameMod # k % FrameMod
  <2>1. FrameMod \in Nat \ {0} /\ FrameMod > 1
    BY Sizes
  <2> QED
    BY <2>1, Multiples
<1> QED
  BY <1>1 DEF Download

LEMMA SendGoesOn ==
  ASSUME Basic, Types', session = "send", session' = "send",
         UNCHANGED <<mode, frame, offset, flash_offset, bank, store, host, commands>>,
         toDevice' = toDevice \/ (toDevice # <<>> /\ toDevice' = Tail(toDevice)),
         NEW x \in Message, x.type \in {"frame", "eof"},
         toHost' = toHost \/ (toHost' = toHost \o <<x>> /\ block # 0),
         Delivered'
  PROVE  Basic'
<1>1. /\ toDevice \in Seq(Message) /\ toHost \in Seq(Message)
      /\ UNCHANGED <<hpc, command, todo, block, errors, cancels, got, status, commands>>
      /\ Downloading /\ ~Uploading /\ ~UploadRuns
  BY Separate DEF host, Basic, Types, QueueTypes, Session, UploadRuns
<1>2. /\ \A S : Has(toDevice', S) => Has(toDevice, S)
      /\ toDevice = <<>> => toDevice' = <<>>
  BY <1>1, Heard
<1>3. /\ \A S : Has(toHost', S) => Has(toHost, S) \/ (x \in S /\ block # 0)
      /\ \A S, T : Follows(toHost', S, T) => Follows(toHost, S, T) \/ x \in T
  <2>1. CASE toHost' = toHost
    BY <2>1
  <2>2. CASE toHost' = toHost \o <<x>> /\ block # 0
    BY <1>1, <2>2, Said
  <2> QED
    BY <2>1, <2>2
<1>4. Places'
  BY <1>1, <1>2, SameFile DEF Basic, Places
<1>5. Handshake'
  <2>1. x \notin Lines /\ x \notin Yes
    BY Kinds
  <2>2. hpc = "line" => toDevice' = <<>> \/ toDevice' = toDevice
    <3>1. \A m : Tail(<<m>>) = <<>>
      OBVIOUS
    <3> QED
      BY <3>1 DEF Basic, Handshake
  <2> QED
    BY <1>1, <1>2, <1>3, <2>1, <2>2, SameFile DEF Basic, Handshake
<1>6. Session'
  BY <1>1, SameFile DEF Basic, Session, UploadRuns
<1>7. Clean'
  BY <1>1, <1>2, <1>3, SameFile DEF Basic, Clean, UploadRuns
<1>8. Fitting'
  BY <1>1, SameFile DEF Fitting, UploadRuns
<1> QED
  BY <1>4, <1>5, <1>6, <1>7, <1>8 DEF Basic

\* The types of what xmodem_send() does.
LEMMA SendingTypes ==
  ASSUME Basic, NEW record, NEW msgs,
         record \in [pc : {"start", "answer", "finish"}, block : Nat, errors : Nat,
                     cancels : Nat, tries : Nat],
         msgs = <<>> \/ \E x \in Message : msgs = <<x>>,
         Sending(record, msgs), UNCHANGED <<data, store, host, commands>>,
         faults' \in 0 .. MaxFaults, naks' \in 0 .. MaxNaks, toDevice' \in Seq(Message)
  PROVE  Types'
<1>1. /\ Types /\ DeviceTypes /\ StoreTypes /\ toHost \in Seq(Message)
  BY DEF Basic, Types, QueueTypes
<1>2. DeviceTypes'
  BY <1>1 DEF DeviceTypes, Sending
<1>3. StoreTypes'
  BY <1>1 DEF StoreTypes
<1>4. toHost' \in Seq(Message)
  BY <1>1, Words0 DEF Sending, Reply
<1> QED
  BY <1>1, <1>2, <1>3, <1>4, DeviceStepTypes
\* The messages the host has sent to a device that sends are no modes.
LEMMA InDownload ==
  ASSUME Basic, session = "send", toDevice # <<>>, Head(toDevice).type # "mode"
  PROVE  /\ hpc # "line" /\ block >= 1 /\ block # 0 /\ toDevice \in Seq(Message)
         /\ toHost \in Seq(Message) /\ Head(toDevice) \in Message /\ Downloading
         /\ Tail(toDevice) \in Seq(Message) /\ block \in Nat
<1>1. /\ toDevice \in Seq(Message) /\ toHost \in Seq(Message) /\ Head(toDevice) \in Message
      /\ Downloading /\ Tail(toDevice) \in Seq(Message) /\ block \in Nat
  BY HeadAndTail DEF Basic, Types, QueueTypes, HostTypes, Session
<1>2. hpc # "line"
  <2>1. toDevice # <<Mode(Head(todo))>> /\ toDevice # <<Mode("bad")>>
    BY DEF Mode
  <2> QED
    BY <2>1 DEF Basic, Handshake
<1>3. block # 0
  BY <1>2 DEF Basic, Places
<1> QED
  BY <1>1, <1>2, <1>3

LEMMA TriesGoOn ==
  ASSUME Basic, session = "send", tx.pc = "start",
         Sending([tx EXCEPT !.tries = @ + 1], <<>>),
         toDevice' = toDevice \/ (toDevice # <<>> /\ toDevice' = Tail(toDevice)),
         faults' \in 0 .. MaxFaults, UNCHANGED <<data, store, host, commands, naks>>
  PROVE  Basic'
<1> DEFINE record == [tx EXCEPT !.tries = @ + 1]
<1>1. /\ toDevice \in Seq(Message) /\ naks \in 0 .. MaxNaks
      /\ UNCHANGED <<hpc, command, todo, block, errors, cancels, got, status, commands>>
      /\ tx \in [pc : {"start", "answer", "finish"}, block : Nat, errors : Nat,
                 cancels : Nat, tries : Nat]
  BY DEF host, Basic, Types, QueueTypes, CountTypes, DeviceTypes
<1>7. toDevice' \in Seq(Message)
  BY <1>1, Heard
<1>2. /\ record \in [pc : {"start", "answer", "finish"}, block : Nat, errors : Nat,
                     cancels : Nat, tries : Nat]
      /\ record.pc = tx.pc /\ record.block = tx.block
  BY <1>1
<1>3. Types'
  BY <1>1, <1>2, <1>7, SendingTypes
<1>4. tx'.pc = tx.pc /\ tx'.block = tx.block /\ toHost' = toHost /\ session' = session
  BY <1>2, Words0 DEF Sending, Reply, Basic
<1>5. Delivered'
  <2>1. Units' = Units /\ \A k : Download(k)' = Download(k)
    BY <1>1, SameUnits
  <2>2. \A S : Has(toDevice', S) => Has(toDevice, S)
    BY <1>1, Heard
  <2> QED
    BY <1>1, <1>4, <2>1, <2>2, SameFile DEF Basic, Delivered
<1>6. Msg("eof") \in Message /\ Msg("eof").type = "eof"
  BY Signals
<1> QED
  BY <1>3, <1>4, <1>5, <1>6, SendGoesOn DEF Sending


\* What holds of the line when the device answers with one message.
LEMMA SendSays ==
  ASSUME Basic, session = "send", toDevice # <<>>, Head(toDevice).type # "mode",
         NEW record \in [pc : {"start", "answer", "finish"}, block : Nat, errors : Nat,
                         cancels : Nat, tries : Nat],
         NEW x \in Message, x.type \in {"frame", "eof"}, Sending(record, <<x>>),
         toDevice' = Tail(toDevice), faults' \in 0 .. MaxFaults,
         UNCHANGED <<data, store, host, commands, naks>>
  PROVE  /\ UNCHANGED <<session, hpc, command, block, got, status, commands>>
         /\ tx' = record /\ block # 0 /\ block \in Nat /\ Downloading /\ (Downloading' <=> Downloading)
         /\ Units' = Units /\ \A k : Download(k)' = Download(k)
         /\ \A S : Has(toDevice', S) => Has(toDevice, S)
         /\ \A S, T : Follows(toDevice', S, T) => Follows(toDevice, S, T)
         /\ \A S, T : Head(toDevice) \in S /\ Has(toDevice', T) => Follows(toDevice, S, T)
         /\ Head(toDevice) \in Acks => Has(toDevice, Acks)
         /\ \A S : Has(toHost', S) => Has(toHost, S) \/ x \in S
         /\ \A S, T : Follows(toHost', S, T) => Follows(toHost, S, T) \/ (Has(toHost, S) /\ x \in T)
         /\ Delivered' => Basic'
<1>1. /\ naks \in 0 .. MaxNaks
      /\ UNCHANGED <<hpc, command, todo, block, errors, cancels, got, status, commands>>
  BY DEF host, Basic, Types, CountTypes
<1>2. /\ toDevice \in Seq(Message) /\ toHost \in Seq(Message) /\ block # 0 /\ block \in Nat
      /\ Tail(toDevice) \in Seq(Message) /\ Downloading
  BY InDownload
<1>3. Types'
  BY <1>1, <1>2, SendingTypes
<1>4. UNCHANGED session /\ tx' = record /\ toHost' = toHost \o <<x>>
  BY DEF Sending, Reply
<1>5. Delivered' => Basic'
  BY <1>2, <1>3, <1>4, SendGoesOn DEF Sending
<1>6. /\ Units' = Units /\ \A k : Download(k)' = Download(k)
      /\ Downloading' <=> Downloading
  BY <1>1, SameUnits, SameFile
<1>7. /\ \A S : Has(toDevice', S) => Has(toDevice, S)
      /\ \A S, T : Follows(toDevice', S, T) => Follows(toDevice, S, T)
      /\ \A S, T : Head(toDevice) \in S /\ Has(toDevice', T) => Follows(toDevice, S, T)
      /\ Head(toDevice) \in Acks => Has(toDevice, Acks)
  BY <1>2, Heard
<1>8. /\ \A S : Has(toHost', S) => Has(toHost, S) \/ x \in S
      /\ \A S, T : Follows(toHost', S, T) => Follows(toHost, S, T) \/ (Has(toHost, S) /\ x \in T)
  BY <1>2, <1>4, Said
<1> QED
  BY <1>1, <1>2, <1>4, <1>5, <1>6, <1>7, <1>8

LEMMA SendBegins ==
  ASSUME Basic, session = "send", tx.pc = "start", toDevice # <<>>,
         Head(toDevice).type = "C",
         Sending([tx EXCEPT !.pc = "answer"], <<DeviceFrame(1)>>),
         toDevice' = Tail(toDevice),
         faults' \in 0 .. MaxFaults, UNCHANGED <<data, store, host, commands, naks>>
  PROVE  Basic'
<1> DEFINE record == [tx EXCEPT !.pc = "answer"]
           f == DeviceFrame(1)
<1>1. /\ record \in [pc : {"start", "answer", "finish"}, block : Nat, errors : Nat,
                     cancels : Nat, tries : Nat]
      /\ record.pc = "answer" /\ record.block = tx.block
  BY DEF Basic, Types, DeviceTypes
<1>2. tx.block \in 1 .. Len(Units) /\ Len(Units) \in Nat
  BY DeviceFrames
<1>3. f \in Message /\ f.type = "frame" /\ f \in Download(1)
  BY <1>2, DeviceFrames
<1> HIDE DEF f, record
<1>4. /\ UNCHANGED <<session, hpc, command, block, got, status, commands>>
      /\ tx' = record /\ block # 0 /\ block \in Nat /\ Downloading /\ (Downloading' <=> Downloading)
      /\ Units' = Units /\ \A k : Download(k)' = Download(k)
      /\ \A S : Has(toDevice', S) => Has(toDevice, S)
      /\ \A S : Has(toHost', S) => Has(toHost, S) \/ f \in S
      /\ \A S, T : Follows(toHost', S, T) => Follows(toHost, S, T) \/ (Has(toHost, S) /\ f \in T)
      /\ Delivered' => Basic'
  BY <1>1, <1>3, SendSays DEF f, record
<1>5. f \notin Eofs
  BY <1>3, Kinds
<1>6. CASE hpc = "receive"
  <2>1. block = 1 /\ tx.block = 1 /\ ~Has(toHost, Framed) /\ ~Has(toDevice, Acks)
    BY <1>4, <1>6 DEF Basic, Delivered
  <2>2. \A S : ~Has(toHost, Framed \ S)
    BY <2>1, HasLess
  <2>3. ~Has(toHost, Download(1))
    BY <2>1, HasLess DEF Download
  <2>4. ~Has(toHost', Framed \ (Download(0) \cup Download(1)))
    BY <1>3, <1>4, <2>2
  <2>5. ~Follows(toHost', Download(1), Download(0))
    BY <1>4, <1>6, <2>1, <2>3 DEF Basic, Delivered
  <2>6. ~Follows(toDevice', Acks, Acks)
    BY <1>4, <2>1 DEF Has, Follows
  <2>7. block - 1 = 0 /\ ~(block > Len(Units))
    BY <1>2, <2>1
  <2>8. Delivered'
    BY <1>1, <1>2, <1>4, <1>5, <1>6, <2>1, <2>4, <2>5, <2>6, <2>7 DEF Basic, Delivered
  <2> QED
    BY <1>4, <2>8
<1>7. CASE hpc # "receive"
  <2>1. Delivered'
    BY <1>1, <1>2, <1>4, <1>7 DEF Basic, Delivered
  <2> QED
    BY <1>4, <2>1
<1> QED
  BY <1>6, <1>7
\* A frame that is sent in answer: of the next block, or once more.
LEMMA SendContinues ==
  ASSUME Basic, session = "send", tx.pc = "answer", toDevice # <<>>,
         Head(toDevice).type # "mode",
         NEW record \in [pc : {"start", "answer", "finish"}, block : Nat, errors : Nat,
                         cancels : Nat, tries : Nat],
         record.pc = "answer",
         \/ /\ Head(toDevice).type = "ack" /\ tx.block < Len(Units)
            /\ record.block = tx.block + 1
         \/ Head(toDevice).type # "ack" /\ record.block = tx.block,
         Sending(record, <<DeviceFrame(record.block)>>),
         toDevice' = Tail(toDevice),
         faults' \in 0 .. MaxFaults, UNCHANGED <<data, store, host, commands, naks>>
  PROVE  Basic'
<1> DEFINE k == record.block
           f == DeviceFrame(k)
<1>1. tx.block \in 1 .. Len(Units) /\ Len(Units) \in Nat
  BY DeviceFrames
<1>2. k \in 1 .. Len(Units)
  BY <1>1
<1>3. f \in Message /\ f.type = "frame" /\ f \in Download(k)
  BY <1>2, DeviceFrames
<1> HIDE DEF f
<1>4. /\ UNCHANGED <<session, hpc, command, block, got, status, commands>>
      /\ tx' = record /\ block # 0 /\ block \in Nat /\ Downloading /\ (Downloading' <=> Downloading)
      /\ Units' = Units /\ \A j : Download(j)' = Download(j)
      /\ \A S : Has(toDevice', S) => Has(toDevice, S)
      /\ \A S, T : Follows(toDevice', S, T) => Follows(toDevice, S, T)
      /\ \A S, T : Head(toDevice) \in S /\ Has(toDevice', T) => Follows(toDevice, S, T)
      /\ Head(toDevice) \in Acks => Has(toDevice, Acks)
      /\ \A S : Has(toHost', S) => Has(toHost, S) \/ f \in S
      /\ \A S, T : Follows(toHost', S, T) => Follows(toHost, S, T) \/ (Has(toHost, S) /\ f \in T)
      /\ Delivered' => Basic'
  BY <1>3, SendSays DEF f
<1>5. f \notin Eofs
  BY <1>3, Kinds
<1>6. CASE hpc = "receive"
  <2>1. /\ tx.block \in {block - 1, block}
        /\ tx.block = block - 1 => ~Has(toHost, Framed \ Download(block - 1))
        /\ Has(toDevice, Acks) => tx.block = block - 1
        /\ ~Follows(toDevice, Acks, Acks)
        /\ ~Has(toHost, Framed \ (Download(block - 1) \cup Download(block)))
        /\ block > Len(Units) => ~Has(toHost, Framed \ Download(block - 1))
        /\ ~Follows(toHost, Download(block), Download(block - 1))
        /\ Has(toHost, Eofs) => block > Len(Units)
    BY <1>4, <1>6 DEF Basic, Delivered
  <2>2. Head(toDevice) \in Message
    BY InDownload
  <2>3. Head(toDevice) \in Acks <=> Head(toDevice).type = "ack"
    BY <2>2, Kinds
  <2>4. /\ k \in {block - 1, block}
        /\ k = block - 1 => tx.block = block - 1 /\ Head(toDevice).type # "ack"
        /\ Has(toDevice', Acks) => k = block - 1
    BY <1>1, <1>4, <2>1, <2>3
  <2>5. \A x \in Download(block - 1) : x \notin Download(block)
    <3>1. block - 1 \in Nat /\ (block - 1) + 1 = block
      BY <1>4
    <3> QED
      BY <3>1, Apart
  <2>6. ~Has(toHost', Framed \ (Download(block - 1) \cup Download(block)))
    BY <1>3, <1>4, <2>1, <2>4
  <2>7. k = block - 1 => ~Has(toHost', Framed \ Download(block - 1))
    BY <1>3, <1>4, <2>1, <2>4
  <2>8. block > Len(Units) => k = block - 1
    BY <1>2, <2>4
  <2>9. ~Follows(toHost', Download(block), Download(block - 1))
    <3>1. CASE k = block
      <4>1. f \notin Download(block - 1)
        BY <1>3, <2>5, <3>1
      <4> QED
        BY <1>4, <2>1, <4>1
    <3>2. CASE k = block - 1
      <4>1. \A x : x \in Download(block) => x \in Framed \ Download(block - 1)
        BY <2>5 DEF Download
      <4>2. ~Has(toHost, Download(block))
        BY <2>1, <2>4, <3>2, <4>1, HasLess
      <4> QED
        BY <1>4, <2>1, <4>2
    <3> QED
      BY <2>4, <3>1, <3>2
  <2>10. Delivered'
    BY <1>1, <1>2, <1>4, <1>5, <1>6, <2>1, <2>4, <2>6, <2>7, <2>8, <2>9 DEF Basic, Delivered
  <2> QED
    BY <1>4, <2>10
<1>7. CASE hpc # "receive"
  <2>1. Delivered'
    BY <1>1, <1>2, <1>4, <1>7 DEF Basic, Delivered
  <2> QED
    BY <1>4, <2>1
<1> QED
  BY <1>6, <1>7

LEMMA SendIsAtItsEnd ==
  ASSUME Basic, session = "send", tx.pc = "answer", toDevice # <<>>,
         Head(toDevice).type = "ack", tx.block = Len(Units),
         Sending([tx EXCEPT !.pc = "finish"], <<Msg("eof")>>),
         toDevice' = Tail(toDevice),
         faults' \in 0 .. MaxFaults, UNCHANGED <<data, store, host, commands, naks>>
  PROVE  Basic'
<1> DEFINE record == [tx EXCEPT !.pc = "finish"]
           f == Msg("eof")
<1>1. /\ record \in [pc : {"start", "answer", "finish"}, block : Nat, errors : Nat,
                     cancels : Nat, tries : Nat]
      /\ record.pc = "finish" /\ record.block = tx.block
  BY DEF Basic, Types, DeviceTypes
<1>2. tx.block \in 1 .. Len(Units) /\ Len(Units) \in Nat
  BY DeviceFrames
<1>3. f \in Message /\ f.type = "eof"
  BY Signals
<1> HIDE DEF f, record
<1>4. /\ UNCHANGED <<session, hpc, command, block, got, status, commands>>
      /\ tx' = record /\ block # 0 /\ block \in Nat /\ Downloading /\ (Downloading' <=> Downloading)
      /\ Units' = Units /\ \A j : Download(j)' = Download(j)
      /\ Head(toDevice) \in Acks => Has(toDevice, Acks)
      /\ \A S : Has(toHost', S) => Has(toHost, S) \/ f \in S
      /\ \A S, T : Follows(toHost', S, T) => Follows(toHost, S, T) \/ (Has(toHost, S) /\ f \in T)
      /\ Delivered' => Basic'
  BY <1>1, <1>3, SendSays DEF f, record
<1>5. f \notin Framed /\ \A j : f \notin Download(j)
  BY <1>3, Kinds DEF Download
<1>6. Head(toDevice) \in Acks
  BY InDownload, Kinds
<1>7. CASE hpc = "receive"
  <2>1. tx.block = block - 1
    BY <1>4, <1>6, <1>7 DEF Basic, Delivered
  <2>2. block > Len(Units)
    BY <1>2, <1>4, <2>1
  <2>3. Delivered'
    BY <1>1, <1>2, <1>4, <1>5, <1>7, <2>1, <2>2 DEF Basic, Delivered
  <2> QED
    BY <1>4, <2>3
<1>8. CASE hpc # "receive"
  <2>1. Delivered'
    BY <1>1, <1>2, <1>4, <1>8 DEF Basic, Delivered
  <2> QED
    BY <1>4, <2>1
<1> QED
  BY <1>7, <1>8

\* xmodem_send() returns, and firmware rescue is the mode again.
LEMMA SendFinishes ==
  ASSUME Basic, session = "send", SendFinish,
         toDevice' = toDevice \/ (toDevice # <<>> /\ toDevice' = Tail(toDevice)),
         faults' \in 0 .. MaxFaults, UNCHANGED <<data, store, host, commands, naks>>
  PROVE  Basic' /\ session' # "over"
<1>1. /\ toDevice \in Seq(Message) /\ toHost \in Seq(Message) /\ naks \in 0 .. MaxNaks
      /\ UNCHANGED <<hpc, command, todo, block, errors, cancels, got, status, commands>>
      /\ Downloading /\ ~Uploading /\ ~UploadRuns /\ Types
      /\ toDevice' \in Seq(Message)
  BY Separate, Heard DEF host, Basic, Types, QueueTypes, CountTypes, Session, UploadRuns
<1>2. block # 0 /\ hpc # "line"
  BY <1>1 DEF SendFinish, Basic, Delivered, Places
<1>3. /\ Line(TRUE) \in Message /\ Line(TRUE).type = "line"
      /\ <<>> \o <<Line(TRUE)>> = <<Line(TRUE)>>
  <2>1. Line(TRUE) \in Message /\ Line(TRUE).type = "line"
    BY Signals
  <2> QED
    BY <1>1, <2>1, Words0, ConcatEmptySeq
<1>4. /\ mode' = "RESQ" /\ frame' = 1 /\ offset' = 0 /\ flash_offset' = 0
      /\ bank' = "A" /\ session' = "recv" /\ tx'.block = 1
      /\ toHost' = toHost \o <<Line(TRUE)>>
  <2>1. /\ mode' = "RESQ" /\ frame' = 1 /\ offset' = 0 /\ flash_offset' = 0
        /\ bank' = CASE "RESQ" = "RESQ" -> "A" [] "RESQ" = "RESB" -> "B" [] OTHER -> bank
        /\ session' = IF "RESQ" \in SendModes THEN "send" ELSE "recv"
        /\ tx' = [pc |-> "start", block |-> 1, errors |-> 0, cancels |-> 0, tries |-> 0]
        /\ Reply(<<>> \o <<Line(TRUE)>>)
    BY DEF SendFinish, ValidateMode, Modes, ReceiveModes, SendModes
  <2>2. bank' = "A" /\ session' = "recv" /\ tx'.block = 1
    BY <2>1 DEF SendModes
  <2> QED
    BY <1>3, <2>1, <2>2 DEF Reply
<1>5. Types'
  <2>1. "RESQ" \in Modes \cup {"bad"}
    BY DEF Modes, ReceiveModes
  <2>2. DeviceTypes' /\ toHost' \in Seq(Message)
    BY <1>1, <2>1, ModeTypes DEF SendFinish
  <2>3. StoreTypes'
    BY DEF StoreTypes, Basic, Types
  <2> QED
    BY <1>1, <2>2, <2>3, DeviceStepTypes
<1>6. /\ \A S : Has(toDevice', S) => Has(toDevice, S)
      /\ \A S : Has(toHost', S) => Has(toHost, S) \/ Line(TRUE) \in S
      /\ \A S, T : Follows(toHost', S, T) =>
                     Follows(toHost, S, T) \/ (Has(toHost, S) /\ Line(TRUE) \in T)
  <2>1. \A S : Has(toDevice', S) => Has(toDevice, S)
    BY <1>1, Heard
  <2> QED
    BY <1>1, <1>3, <1>4, <2>1, Said
<1>7. Line(TRUE) \notin Framed /\ Line(TRUE) \notin Eofs /\ \A k : Line(TRUE) \notin Download(k)
  BY <1>3, Kinds DEF Download
<1>8. Places' /\ Handshake' /\ Session' /\ Clean' /\ Fitting'
  BY <1>1, <1>2, <1>4, <1>6, SameFile
    DEF Basic, Places, Handshake, Session, Clean, Fitting, UploadRuns, ReceiveModes, Target
<1>9. Delivered'
  <2>1. Units' = Units /\ \A k : Download(k)' = Download(k)
    BY <1>1, SameUnits
  <2> QED
    BY <1>1, <1>2, <1>4, <1>6, <1>7, <2>1, SameFile DEF Basic, Delivered
<1> QED
  BY <1>4, <1>5, <1>8, <1>9 DEF Basic
LEMMA SendFailsKeepsBasic ==
  ASSUME Basic, session = "send" \/ session = "recv", EndsWith(<<>>), toDevice' = <<>>,
         faults' \in 0 .. MaxFaults, UNCHANGED <<store, host, commands, naks>>
  PROVE  Basic' /\ session' = "over"
<1>1. Types /\ naks \in 0 .. MaxNaks
  BY DEF Basic, Types, CountTypes
<1>2. DeviceTypes' /\ toHost' \in Seq(Message) /\ session' = "over"
  BY <1>1, Words0, EndsTypes
<1>3. StoreTypes' /\ toDevice' \in Seq(Message)
  BY <1>1, EmptySeq DEF Types, StoreTypes
<1>4. Types'
  BY <1>1, <1>2, <1>3, DeviceStepTypes
<1> QED
  BY <1>2, <1>4, Over

LEMMA HandleSendModesKeepsBasic ==
  ASSUME Basic, session = "send", toDevice # <<>>, HandleSendModes(Head(toDevice)),
         toDevice' = IF session' = "over" THEN <<>> ELSE Tail(toDevice),
         UNCHANGED <<host, commands, naks>>
  PROVE  Basic'
<1> DEFINE m == Head(toDevice)
<1>1. UNCHANGED <<data, store>> /\ faults' \in 0 .. MaxFaults
      /\ tx \in [pc : {"start", "answer", "finish"}, block : Nat, errors : Nat,
                 cancels : Nat, tries : Nat]
      /\ SentUnits = Units
  BY DeviceFrames DEF HandleSendModes, Basic, Types, CountTypes, DeviceTypes
<1>2. CASE SendFails
  <2>1. toDevice' = <<>> /\ EndsWith(<<>>)
    BY <1>2 DEF SendFails, EndsWith
  <2> QED
    BY <1>1, <2>1, SendFailsKeepsBasic
<1>3. ASSUME NEW record, NEW msgs, Sending(record, msgs)
      PROVE  toDevice' = Tail(toDevice)
  BY <1>3 DEF Sending
<1>4. CASE SendStart(m)
  <2>1. CASE Sending([tx EXCEPT !.pc = "answer"], <<DeviceFrame(1)>>) /\ m.type = "C"
    BY <1>1, <1>3, <1>4, <2>1, SendBegins DEF SendStart
  <2>2. CASE Sending([tx EXCEPT !.tries = @ + 1], <<>>)
    BY <1>1, <1>3, <1>4, <2>2, TriesGoOn DEF SendStart
  <2> QED
    BY <1>2, <1>4, <2>1, <2>2 DEF SendStart, StartTry
<1>5. CASE SendAnswer(m)
  <2>1. CASE /\ m.type = "ack" /\ tx.block < Len(SentUnits)
             /\ Sending([tx EXCEPT !.block = @ + 1], <<DeviceFrame(tx.block + 1)>>)
    <3> DEFINE record == [tx EXCEPT !.block = @ + 1]
    <3>1. /\ record \in [pc : {"start", "answer", "finish"}, block : Nat, errors : Nat,
                         cancels : Nat, tries : Nat]
          /\ record.pc = "answer" /\ record.block = tx.block + 1
      BY <1>1, <1>5 DEF SendAnswer
    <3> QED
      BY <1>1, <1>3, <1>5, <2>1, <3>1, SendContinues DEF SendAnswer
  <2>2. CASE /\ m.type = "ack" /\ tx.block = Len(SentUnits)
             /\ Sending([tx EXCEPT !.pc = "finish"], <<Msg("eof")>>)
    BY <1>1, <1>3, <1>5, <2>2, SendIsAtItsEnd DEF SendAnswer
  <2>3. ASSUME m.type # "ack",
               \/ m.type = "can" /\ SendAgain([tx EXCEPT !.cancels = 1])
               \/ m.type \notin {"ack", "can"} /\ SendAgain([tx EXCEPT !.errors = @ + 1])
        PROVE  Basic'
    <3>1. CASE m.type = "mode"
      <4>1. hpc = "line"
        <5>1. m \in ModeSettings
          BY <3>1, Heard, Kinds DEF Basic, Types, QueueTypes
        <5> QED
          BY <5>1, Heard DEF Basic, Handshake, Types, QueueTypes
      <4> QED
        BY <1>5, <4>1 DEF Basic, Places, Delivered, Session, SendAnswer
    <3>2. CASE m.type # "mode"
      <4>1. PICK record \in {[tx EXCEPT !.cancels = 1], [tx EXCEPT !.errors = @ + 1]} :
              SendAgain(record)
        BY <2>3
      <4>2. /\ record \in [pc : {"start", "answer", "finish"}, block : Nat, errors : Nat,
                           cancels : Nat, tries : Nat]
            /\ record.pc = "answer" /\ record.block = tx.block
        BY <1>1, <1>5, <4>1 DEF SendAnswer
      <4>3. Sending(record, <<DeviceFrame(record.block)>>)
        BY <4>1, <4>2 DEF SendAgain
      <4>4. toDevice' = Tail(toDevice)
        BY <1>3, <4>3
      <4> QED
        BY <1>1, <1>5, <2>3, <3>2, <4>2, <4>3, <4>4, SendContinues DEF SendAnswer
    <3> QED
      BY <3>1, <3>2
  <2> QED
    BY <1>2, <1>5, <2>1, <2>2, <2>3 DEF SendAnswer
<1>6. CASE SendFinish
  <2>1. session' # "over"
    BY <1>6 DEF SendFinish, ValidateMode, Modes, ReceiveModes, SendModes
  <2> QED
    BY <1>1, <1>6, <2>1, SendFinishes
<1> QED
  BY <1>4, <1>5, <1>6 DEF HandleSendModes

LEMMA DeviceHearsKeepsBasic ==
  ASSUME Basic, DeviceHears
  PROVE  Basic'
<1>1. /\ toDevice # <<>>
      /\ toDevice' = IF session' = "over" THEN <<>> ELSE Tail(toDevice)
      /\ UNCHANGED <<host, commands, naks>>
  BY DEF DeviceHears
<1>2. CASE session = "recv" /\ Protocol(Head(toDevice))
  BY <1>1, <1>2, ProtocolKeepsBasic
<1>3. CASE session = "send" /\ HandleSendModes(Head(toDevice))
  BY <1>1, <1>3, HandleSendModesKeepsBasic
<1> QED
  BY <1>2, <1>3 DEF DeviceHears

LEMMA SendTimeoutKeepsBasic ==
  ASSUME Basic, SendTimeout
  PROVE  Basic'
<1>1. /\ session = "send" /\ toDevice = <<>>
      /\ UNCHANGED <<data, store, toDevice, host, commands, naks>>
      /\ faults' \in 0 .. MaxFaults
  BY Sizes DEF SendTimeout, Fault, Basic, Types, CountTypes
<1>2. CASE SendFails
  BY <1>1, <1>2, SendFailsKeepsBasic DEF SendFails
<1>3. CASE tx.pc = "start" /\ StartTry
  BY <1>1, <1>2, <1>3, TriesGoOn DEF StartTry
<1>4. CASE SendFinish
  BY <1>1, <1>4, SendFinishes
<1> QED
  BY <1>2, <1>3, <1>4 DEF SendTimeout

LEMMA UnexpectedResetKeepsBasic ==
  ASSUME Basic, UnexpectedReset
  PROVE  Basic'
<1>1. /\ session = "send" \/ session = "recv"
      /\ EndsWith(<<>>) /\ toDevice' = <<>> /\ UNCHANGED <<store, host, commands, naks>>
      /\ faults' \in 0 .. MaxFaults
  BY Sizes DEF UnexpectedReset, Fault, Basic, Types, CountTypes, DeviceTypes
<1> QED
  BY <1>1, SendFailsKeepsBasic

LEMMA TimeoutStartKeepsBasic ==
  ASSUME Basic, TimeoutStart
  PROVE  Basic'
<1>1. /\ session = "recv" /\ toDevice = <<>> /\ hpc # "line"
      /\ UNCHANGED <<store, toDevice, host, commands, naks>>
      /\ faults' \in 0 .. MaxFaults
  BY Sizes DEF TimeoutStart, Fault, Basic, Types, CountTypes
<1>2. CASE EndsWith(<<>>)
  BY <1>1, <1>2, SendFailsKeepsBasic
<1>3. CASE frame = 1 /\ Reply(<<Msg("C")>>) /\ UNCHANGED device
  <2>1. /\ toHost \in Seq(Message) /\ Msg("C") \in Message /\ Msg("C").type = "C" /\ Types
        /\ toHost' = toHost \o <<Msg("C")>> /\ naks \in 0 .. MaxNaks /\ toDevice \in Seq(Message)
        /\ UNCHANGED <<hpc, command, todo, block, errors, cancels, got, status, commands>>
        /\ UNCHANGED <<session, mode, wait, frame, offset, data, flash_offset, bank, tx>>
    BY <1>1, <1>3, Signals DEF Basic, Types, QueueTypes, CountTypes, Reply, host, device
  <2>2. /\ toHost' \in Seq(Message)
        /\ \A S : Has(toHost', S) => Has(toHost, S) \/ Msg("C") \in S
        /\ \A S, T : Follows(toHost', S, T) => Follows(toHost, S, T) \/ (Has(toHost, S) /\ Msg("C") \in T)
    BY <2>1, Said
  <2>3. Msg("C") \notin Framed \cup Acks \cup Eofs /\ \A k : Msg("C") \notin Download(k)
    BY <2>1, Kinds DEF Download
  <2>4. Types'
    <3>1. DeviceTypes' /\ StoreTypes'
      BY <1>1, <2>1 DEF Types, DeviceTypes, StoreTypes
    <3> QED
      BY <1>1, <2>1, <2>2, <3>1, DeviceStepTypes
  <2>5. Places' /\ Handshake' /\ Session' /\ Fitting'
    BY <1>1, <2>1, SameFile DEF Basic, Places, Handshake, Session, Fitting, UploadRuns
  <2>6. Clean'
    BY <1>1, <2>1, <2>2, <2>3, SameFile DEF Basic, Clean, UploadRuns
  <2>7. Delivered'
    <3>1. Units' = Units /\ \A k : Download(k)' = Download(k)
      BY <1>1, <2>1, SameUnits
    <3> QED
      BY <1>1, <2>1, <2>2, <2>3, <3>1, SameFile DEF Basic, Delivered
  <2> QED
    BY <2>4, <2>5, <2>6, <2>7 DEF Basic
<1> QED
  BY <1>2, <1>3 DEF TimeoutStart
-----------------------------------------------------------------------------
\* The host.
LEMMA HostStepTypes ==
  ASSUME Types, HostTypes', toDevice' \in Seq(Message), toHost' \in Seq(Message),
         UNCHANGED <<device, store, counts>>
  PROVE  Types'
<1>1. DeviceTypes' /\ StoreTypes' /\ CountTypes'
  BY DEF Types, DeviceTypes, StoreTypes, CountTypes, device, counts
<1> QED
  BY <1>1 DEF Types, QueueTypes

\* What the host says reaches a device that is in rescue mode.
LEMMA HostSays ==
  ASSUME Basic, NEW x \in Message, HostSends(<<x>>) \/ HostSends(<<x, x>>)
  PROVE  /\ toDevice' \in Seq(Message) /\ (session = "over" => toDevice' = <<>>)
         /\ \A S : Has(toDevice', S) => Has(toDevice, S) \/ x \in S
<1>1. toDevice \in Seq(Message)
  BY DEF Basic, Types, QueueTypes
<1>2. \A S : ~Has(<<>>, S)
  BY HasFew
<1>3. CASE HostSends(<<x>>)
  BY <1>1, <1>2, <1>3, Said, EmptySeq DEF HostSends
<1>4. CASE HostSends(<<x, x>>)
  BY <1>1, <1>2, <1>4, SaidTwo, EmptySeq DEF HostSends
<1> QED
  BY <1>3, <1>4

\* A step of the host from an answer it was waiting for to the next state.
LEMMA HostMoves ==
  ASSUME Basic, Types', Places', UNCHANGED <<device, store, command, commands>>,
         toHost' = toHost \/ (toHost # <<>> /\ toHost' = Tail(toHost)),
         hpc' # "line", hpc = "line" => toDevice = <<>>, block' >= block,
         session = "over" => toDevice' = <<>>,
         NEW x \in Message, \A S : Has(toDevice', S) => Has(toDevice, S) \/ x \in S,
         x \notin ModeSettings, x \in Framed \cup Eofs => UploadRuns',
         x \in Framed => Len(x.data) = command.block_len,
         Uploading /\ (hpc' = "start" \/ block' >= 1) /\ session = "recv" => mode = command.mode
  PROVE  Handshake' /\ Session' /\ Clean' /\ Fitting'
<1>1. /\ toHost \in Seq(Message) /\ block \in Nat /\ block' \in Nat
      /\ UNCHANGED <<session, mode, wait, frame, offset, data, flash_offset, bank, tx>>
      /\ (Uploading' <=> Uploading) /\ (Downloading' <=> Downloading)
  BY SameFile DEF Basic, Types, QueueTypes, HostTypes, device
<1>2. \A S : Has(toHost', S) => Has(toHost, S)
  BY <1>1, Heard
<1>3. \A S : ~Has(<<>>, S)
  BY HasFew
<1>4. UploadRuns => UploadRuns'
  BY <1>1 DEF UploadRuns
<1>5. Handshake'
  BY <1>3 DEF Basic, Handshake
<1>6. Session'
  BY <1>1 DEF Basic, Session, UploadRuns, Places
<1>7. Clean'
  BY <1>1, <1>2, <1>4 DEF Basic, Clean
<1>8. Fitting'
  <2>1. SUFFICES ASSUME UploadRuns' PROVE Fitting'
    BY DEF Fitting
  <2>2. session = "recv" => offset % command.block_len = 0
    <3>1. CASE UploadRuns
      BY <3>1 DEF Basic, Fitting
    <3>2. CASE ~UploadRuns /\ session = "recv"
      <4>1. offset = 0
        BY <3>2 DEF Basic, Clean
      <4>2. command.block_len \in Nat \ {0}
        BY <1>1, <2>1, CommandFacts DEF UploadRuns, Uploading, Basic, Types, HostTypes
      <4> QED
        BY <4>1, <4>2
    <3> QED
      BY <3>1, <3>2
  <2>3. ~Has(toDevice, {m \in Framed : Len(m.data) # command.block_len})
    <3>1. CASE UploadRuns
      BY <3>1 DEF Basic, Fitting
    <3>2. CASE ~UploadRuns
      BY <3>2, HasLess DEF Basic, Clean
    <3> QED
      BY <3>1, <3>2
  <2> QED
    BY <1>1, <2>2, <2>3 DEF Fitting
<1> QED
  BY <1>5, <1>6, <1>7, <1>8

LEMMA HostSkips ==
  ASSUME Basic, toHost # <<>>, toHost' = Tail(toHost), UNCHANGED <<device, store, counts, host, toDevice>>
  PROVE  Basic'
<1>1. /\ toHost \in Seq(Message) /\ toHost' \in Seq(Message) /\ toDevice \in Seq(Message)
      /\ UNCHANGED <<session, mode, wait, frame, offset, data, flash_offset, bank, tx>>
      /\ UNCHANGED <<hpc, command, todo, block, errors, cancels, got, status, commands>>
  BY Heard DEF Basic, Types, QueueTypes, device, host, counts
<1>2. /\ \A S : Has(toHost', S) => Has(toHost, S)
      /\ \A S, T : Follows(toHost', S, T) => Follows(toHost, S, T)
  BY <1>1, Heard
<1>3. Types'
  <2>1. HostTypes'
    BY <1>1 DEF Basic, Types, HostTypes
  <2> QED
    BY <1>1, <2>1, HostStepTypes DEF Basic
<1>4. Units' = Units /\ \A k : Download(k)' = Download(k)
  BY <1>1, SameUnits
<1>5. Places' /\ Handshake' /\ Session' /\ Clean' /\ Fitting'
  BY <1>1, <1>2, SameFile DEF Basic, Places, Handshake, Session, Clean, Fitting, UploadRuns
<1>6. Delivered'
  BY <1>1, <1>2, <1>4, SameFile DEF Basic, Delivered
<1> QED
  BY <1>3, <1>5, <1>6 DEF Basic

\* The host is done, or gives up.
LEMMA HostFinishes ==
  ASSUME Basic, hpc # "idle", UNCHANGED <<device, store, counts>>,
         toHost' = toHost \/ (toHost # <<>> /\ toHost' = Tail(toHost)),
         NEW result \in {"done", "failed"}, Finish(result),
         result = "done" /\ Downloading => block > Len(Units),
         hpc = "line" => toDevice = <<>>, block = 0 => toDevice' = <<>>,
         session = "over" => toDevice' = <<>>, toDevice' \in Seq(Message),
         NEW x \in Message, \A S : Has(toDevice', S) => Has(toDevice, S) \/ x \in S,
         x \notin ModeSettings, x \in Framed \cup Eofs => UploadRuns,
         x \in Framed => Len(x.data) = command.block_len
  PROVE  Basic'
<1>1. /\ toHost \in Seq(Message) /\ toHost' \in Seq(Message) /\ block \in Nat
      /\ UNCHANGED <<session, mode, wait, frame, offset, data, flash_offset, bank, tx>>
      /\ UNCHANGED <<command, todo, block, errors, cancels, got, commands>>
      /\ hpc' = "idle" /\ status' = result
  BY Heard DEF Basic, Types, QueueTypes, HostTypes, device, counts, Finish
<1>2. Types'
  <2>1. HostTypes'
    BY <1>1 DEF Basic, Types, HostTypes
  <2> QED
    BY <1>1, <2>1, HostStepTypes DEF Basic
<1>3. /\ (Uploading' <=> Uploading) /\ (Downloading' <=> Downloading) /\ (UploadRuns' <=> UploadRuns)
      /\ Units' = Units
  BY <1>1, SameFile, SameUnits DEF UploadRuns
<1>4. Places'
  BY <1>1 DEF Basic, Places
<1>5. Handshake' /\ Session' /\ Clean' /\ Fitting'
  <2>1. Uploading /\ block >= 1 /\ session = "recv" => mode = command.mode
    BY DEF Basic, Session, UploadRuns
  <2> QED
    BY <1>1, <1>2, <1>3, <1>4, <2>1, HostMoves
<1>6. Delivered'
  BY <1>1, <1>3 DEF Basic, Delivered
<1> QED
  BY <1>2, <1>4, <1>5, <1>6 DEF Basic
LEMMA HostStops ==
  ASSUME Basic, hpc # "idle", UNCHANGED <<device, store, counts, toDevice>>,
         toHost' = toHost \/ (toHost # <<>> /\ toHost' = Tail(toHost)),
         NEW result \in {"done", "failed"}, Finish(result),
         result = "done" /\ Downloading => block > Len(Units),
         hpc = "line" => toDevice = <<>>
  PROVE  Basic'
<1>1. block = 0 => toDevice' = <<>>
  BY DEF Basic, Places
<1>2. (session = "over" => toDevice' = <<>>) /\ toDevice' \in Seq(Message)
  BY DEF Basic, Places, Types, QueueTypes
<1>3. /\ Msg("C") \in Message /\ Msg("C") \notin ModeSettings
      /\ Msg("C") \notin Framed \cup Eofs
  BY Signals, Kinds
<1> QED
  BY <1>1, <1>2, <1>3, HostFinishes

LEMMA UnitsAreSome ==
  ASSUME Types
  PROVE  Len(Units) \in Nat \ {0} /\ Units \in Seq(Unit)
<1>1. CASE command.mode = "BLOG"
  BY <1>1, Units0 DEF Units
<1>2. CASE command.mode # "BLOG"
  <2>1. Units = store["msg"] /\ store["msg"] \in [1 .. MsgLen -> Unit]
    BY <1>2 DEF Units, Types, StoreTypes, Memory
  <2>2. Units \in Seq(Unit) /\ Len(Units) = MsgLen
    BY <2>1, Sizes
  <2> QED
    BY <2>2, Sizes
<1> QED
  BY <1>1, <1>2

LEMMA HostLineKeepsBasic ==
  ASSUME Basic, toHost # <<>>, toHost' = Tail(toHost), UNCHANGED <<device, store, counts>>,
         HostLine(Head(toHost))
  PROVE  Basic'
<1> DEFINE m == Head(toHost)
<1>1. /\ toHost \in Seq(Message) /\ toHost' \in Seq(Message) /\ toDevice \in Seq(Message)
      /\ m \in Message
      /\ UNCHANGED <<session, mode, wait, frame, offset, data, flash_offset, bank, tx>>
      /\ UNCHANGED <<commands, naks, faults>> /\ counts' = counts
  BY Heard DEF Basic, Types, QueueTypes, device, counts
<1>2. /\ hpc = "line" /\ block = 0 /\ status = "busy"
      /\ command \in Commands /\ command # None /\ ~UploadRuns
      /\ todo = <<command.mode>> \/ todo = <<"WAIT", command.mode>>
  BY NoneAssumption DEF HostLine, Basic, Places, Handshake, Types, HostTypes, UploadRuns
<1>3. command.mode \in ReceiveModes \cup SendModes \cup {"REBO"}
  BY <1>2, CommandFacts
<1>4. /\ \A S : Has(toHost', S) => Has(toHost, S)
      /\ \A S, T : Follows(toHost', S, T) => Follows(toHost, S, T)
      /\ \A S, T : m \in S /\ Has(toHost', T) => Follows(toHost, S, T)
      /\ \A S : m \in S => Has(toHost, S)
  BY <1>1, Heard
<1>5. ASSUME m.type = "line"
      PROVE  toDevice = <<>> /\ ~Has(toHost', Lines)
  <2>1. m \in Lines
    BY <1>1, <1>5, Kinds
  <2> QED
    BY <1>2, <1>4, <2>1 DEF Basic, Handshake
<1>6. CASE UNCHANGED <<host, toDevice>>
  BY <1>1, <1>6, HostSkips
<1>7. CASE m.type = "line" /\ Finish("failed") /\ UNCHANGED toDevice
  BY <1>2, <1>5, <1>7, HostStops
<1>8. CASE m.type = "line" /\ command.mode = "REBO" /\ Finish("done") /\ UNCHANGED toDevice
  BY <1>2, <1>5, <1>8, HostStops DEF Downloading, SendModes
<1>9. CASE /\ m.type = "line" /\ m.ok /\ Len(todo) = 1 /\ command.mode \in ReceiveModes
           /\ HostWaits("start") /\ UNCHANGED <<toDevice, block>>
  <2>1. /\ hpc' = "start" /\ UNCHANGED <<command, todo, errors, cancels, got, status, block>>
        /\ toDevice = <<>> /\ toDevice' = <<>> /\ ~Downloading
    BY <1>2, <1>5, <1>9, Separate DEF HostWaits, Uploading
  <2>2. Types'
    <3>1. HostTypes'
      BY <2>1 DEF Basic, Types, HostTypes
    <3> QED
      BY <1>1, <2>1, <3>1, HostStepTypes DEF Basic
  <2>3. Places'
    BY <1>1, <1>2, <1>9, <2>1 DEF Basic, Places, Uploading
  <2>4. Uploading /\ session = "recv" => mode = command.mode
    <3>1. m \in Yes
      BY <1>1, <1>9, Kinds
    <3> QED
      BY <1>2, <1>4, <1>9, <3>1 DEF Basic, Handshake
  <2>5. /\ Msg("C") \in Message /\ Msg("C") \notin ModeSettings
        /\ Msg("C") \notin Framed \cup Eofs
    BY Signals, Kinds
  <2>6. Handshake' /\ Session' /\ Clean' /\ Fitting'
    <3>1. hpc' # "line" /\ block' >= block
      BY <1>2, <2>1
    <3>2. UNCHANGED <<device, store, command, commands>>
      BY <1>1, <2>1
    <3>3. /\ toHost' = toHost \/ (toHost # <<>> /\ toHost' = Tail(toHost))
          /\ session = "over" => toDevice' = <<>>
          /\ hpc = "line" => toDevice = <<>>
          /\ Uploading /\ (hpc' = "start" \/ block' >= 1) /\ session = "recv" => mode = command.mode
      BY <2>1, <2>4
    <3> QED
      BY <2>1, <2>2, <2>3, <2>5, <3>1, <3>2, <3>3, HostMoves
  <2>7. Delivered'
    BY <1>1, <2>1, SameFile DEF Delivered
  <2> QED
    BY <2>2, <2>3, <2>6, <2>7 DEF Basic
<1>10. CASE /\ m.type = "line" /\ m.ok /\ Len(todo) = 1 /\ command.mode \in SendModes
            /\ HostWaits("receive") /\ HostSends(<<Msg("C")>>) /\ block' = 1
  <2>1. /\ hpc' = "receive" /\ UNCHANGED <<command, todo, errors, cancels, got, status>>
        /\ toDevice = <<>> /\ ~Uploading /\ Downloading
        /\ Msg("C") \in Message /\ Msg("C").type = "C"
        /\ Msg("C") \notin ModeSettings /\ Msg("C") \notin Framed \cup Eofs \cup Acks
    BY <1>1, <1>2, <1>5, <1>10, Signals, Kinds, Separate DEF HostWaits, Downloading
  <2>2. /\ toDevice' \in Seq(Message) /\ (session = "over" => toDevice' = <<>>)
        /\ \A S : Has(toDevice', S) => Has(toDevice, S) \/ Msg("C") \in S
    <3>1. ~Has(<<>>, Acks)
      BY HasFew
    <3>2. CASE session = "over"
      BY <1>10, <3>2, EmptySeq, HasFew DEF HostSends
    <3>3. CASE session # "over"
      BY <1>1, <1>10, <2>1, <3>3, Said DEF HostSends
    <3> QED
      BY <3>2, <3>3
  <2>3. Types'
    <3>1. HostTypes'
      BY <1>10, <2>1 DEF Basic, Types, HostTypes
    <3> QED
      BY <1>1, <2>2, <3>1, HostStepTypes DEF Basic
  <2>4. Places'
    BY <1>1, <1>2, <1>10, <2>1, <2>2 DEF Basic, Places, Downloading
  <2>5. Handshake' /\ Session' /\ Clean' /\ Fitting'
    <3>1. hpc' # "line" /\ block' >= block
      BY <1>2, <1>10, <2>1
    <3>2. UNCHANGED <<device, store, command, commands>>
      BY <1>1, <2>1
    <3>3. /\ toHost' = toHost \/ (toHost # <<>> /\ toHost' = Tail(toHost))
          /\ session = "over" => toDevice' = <<>>
          /\ hpc = "line" => toDevice = <<>>
          /\ Uploading /\ (hpc' = "start" \/ block' >= 1) /\ session = "recv" => mode = command.mode
      BY <2>1, <2>2
    <3> QED
      BY <2>1, <2>2, <2>3, <2>4, <3>1, <3>2, <3>3, HostMoves
  <2>6. Delivered'
    <3>1. Units' = Units /\ \A k : Download(k)' = Download(k)
      BY <1>1, <2>1, SameUnits
    <3>2. ~Has(toHost', Framed \cup Acks \cup Eofs)
      BY <1>2, <1>4 DEF Basic, Clean
    <3>3. /\ \A S : ~Has(toHost', Framed \ S)
          /\ \A k : ~Has(toHost', Download(k))
          /\ ~Has(toHost', Eofs) /\ ~Has(toHost', Framed)
      BY <3>2, HasLess DEF Download
    <3>4. ~Follows(toHost', Download(1), Download(0))
      BY <3>3 DEF Has, Follows
    <3>5. got = <<>> /\ Len(got) = 0 /\ (session = "send" => tx.pc = "start" /\ tx.block = 1 /\ tx.block \in 1 .. Len(Units))
      BY <1>2, <2>1 DEF Basic, Delivered
    <3>6. ~Has(toDevice', Acks)
      <4>1. ~Has(<<>>, Acks)
        BY HasFew
      <4> QED
        BY <2>1, <2>2, <4>1
    <3>7. Len(Units) \in Nat \ {0}
      BY UnitsAreSome DEF Basic
    <3>8. Download(0)' = Download(0) /\ Download(1)' = Download(1)
      BY <3>1
    <3>9. block' = 1 /\ block' - 1 = 0 /\ ~(block' > Len(Units')) /\ Len(got') = block' - 1
      BY <1>10, <2>1, <3>1, <3>5, <3>7
    <3> QED
      <4>1. Downloading'
        BY <1>1, <2>1, SameFile
      <4>2. status' # "done" /\ tx' = tx /\ session' = session
        BY <1>1, <1>2, <2>1
      <4>3. ~Has(toHost', Framed \ (Download(0) \cup Download(1)))
        BY <3>3
      <4>4. Units' = Units
        BY <3>1
      <4> QED
        <5>1. /\ ~Has(toHost', (Framed \ (Download(block - 1) \cup Download(block)))')
              /\ ~Follows(toHost', Download(block)', Download(block - 1)')
          BY <3>4, <3>8, <3>9, <4>3
        <5>2. /\ session' = "send" => tx'.block \in 1 .. Len(Units')
              /\ block' # 0 /\ block' - 1 <= Len(Units') /\ Len(got') = block' - 1
              /\ \A i \in 1 .. block' - 1 : got'[i] = Units'[i]
              /\ session' = "send" => tx'.pc = "start" /\ block' = 1 /\ tx'.block = 1
          BY <3>5, <3>7, <3>9, <4>2, <4>4
        <5> QED
          BY <3>3, <3>6, <3>9, <4>2, <5>1, <5>2 DEF Delivered
  <2> QED
    BY <2>3, <2>4, <2>5, <2>6 DEF Basic
<1>11. CASE /\ m.type = "line" /\ m.ok /\ Len(todo) > 1
            /\ HostSends(<<Mode(todo[2])>>) /\ todo' = Tail(todo)
            /\ UNCHANGED <<hpc, command, block, errors, cancels, got, status>>
  <2>1. /\ todo = <<"WAIT", command.mode>> /\ todo' = <<command.mode>>
        /\ todo[2] = command.mode /\ Head(todo') = command.mode
    <3>1. todo = <<"WAIT", command.mode>>
      BY <1>2, <1>11
    <3>2. Tail(<<"WAIT", command.mode>>) = <<command.mode>>
      OBVIOUS
    <3> QED
      BY <1>11, <3>1, <3>2
  <2>2. toDevice' = <<>> \/ toDevice' = <<Mode(command.mode)>>
    <3>1. Mode(command.mode) \in Message
      BY <1>3, Signals DEF Modes
    <3>2. <<>> \o <<Mode(command.mode)>> = <<Mode(command.mode)>>
      BY <3>1, Words0, ConcatEmptySeq DEF Basic
    <3> QED
      BY <1>1, <1>5, <1>11, <2>1, <3>2 DEF HostSends
  <2>3. Mode(command.mode) \in Message /\ command.mode \in Modes
        /\ Mode(command.mode).type = "mode"
    BY <1>3, Signals DEF Modes
  <2>4. <<Mode(command.mode)>> \in Seq(Message)
    BY <2>3
  <2>5. Types'
    <3>1. HostTypes'
      BY <1>11, <2>1, <2>3 DEF Basic, Types, HostTypes
    <3>2. toDevice' \in Seq(Message)
      BY <2>2, <2>4, EmptySeq
    <3> QED
      BY <1>1, <3>1, <3>2, HostStepTypes DEF Basic
  <2>6. session = "over" => toDevice' = <<>>
    BY <1>11 DEF HostSends
  <2>7. Places'
    BY <1>1, <1>2, <1>11, <2>6 DEF Basic, Places, Uploading, Downloading
  <2>8. Handshake'
    <3>1. ~Has(toHost', Yes)
      BY <1>5, <1>11, HasLess DEF Yes
    <3>2. ~Follows(toHost', Lines, Lines)
      BY <1>2, <1>4 DEF Basic, Handshake
    <3> QED
      BY <1>2, <1>5, <1>11, <2>1, <2>2, <3>1, <3>2 DEF Handshake
  <2>9. Session' /\ Fitting'
    BY <1>1, <1>2, <1>11, SameFile DEF Basic, Session, Fitting, UploadRuns
  <2>10. Clean'
    <3>1. ~Has(toDevice', Framed \cup Eofs)
      <4>1. Mode(command.mode) \notin Framed \cup Eofs
        BY <2>3, Kinds
      <4>2. ~Has(<<>>, Framed \cup Eofs) /\ ~Has(<<Mode(command.mode)>>, Framed \cup Eofs)
        BY <4>1, HasFew
      <4> QED
        BY <2>2, <4>2
    <3> QED
      BY <1>1, <1>2, <1>4, <1>11, <3>1, SameFile DEF Basic, Clean, UploadRuns
  <2>11. Delivered'
    <3>1. Units' = Units
      BY <1>1, <1>11, SameUnits
    <3> QED
      BY <1>1, <1>2, <1>11, <3>1, SameFile DEF Basic, Delivered
  <2> QED
    BY <2>5, <2>7, <2>8, <2>9, <2>10, <2>11 DEF Basic
<1> QED
  BY <1>6, <1>7, <1>8, <1>9, <1>10, <1>11 DEF HostLine

LEMMA HostLineTimeoutKeepsBasic ==
  ASSUME Basic, HostLineTimeout
  PROVE  Basic'
  BY HostStops DEF HostLineTimeout
\* The host sends a frame of its file, or the end of it, and waits for the answer.
LEMMA HostUploads ==
  ASSUME Basic, toHost # <<>>, toHost' = Tail(toHost), UNCHANGED <<device, store, counts>>,
         hpc \in {"start", "answer"}, hpc' \in {"answer", "finish"},
         block' \in Nat, block' >= block, block' >= 1, errors' \in Nat,
         UNCHANGED <<command, todo, cancels, got, status>>,
         NEW x \in Message, HostSends(<<x>>), x.type \in {"frame", "eof"},
         x.type = "frame" => Len(x.data) = command.block_len
  PROVE  Basic'
<1>1. /\ toHost \in Seq(Message) /\ toHost' \in Seq(Message)
      /\ UNCHANGED <<session, mode, wait, frame, offset, data, flash_offset, bank, tx, commands>>
  BY Heard DEF Basic, Types, QueueTypes, device, counts
<1>2. /\ hpc # "line" /\ Uploading /\ ~Downloading /\ command # None /\ status = "busy"
  BY Separate DEF Basic, Places, Uploading
<1>3. Uploading' /\ ~Downloading' /\ UploadRuns'
  BY <1>1, <1>2, SameFile DEF UploadRuns
<1>4. /\ toDevice' \in Seq(Message) /\ (session = "over" => toDevice' = <<>>)
      /\ \A S : Has(toDevice', S) => Has(toDevice, S) \/ x \in S
  BY HostSays
<1>5. Types'
  <2>1. HostTypes'
    BY DEF Basic, Types, HostTypes
  <2> QED
    BY <1>1, <1>4, <2>1, HostStepTypes DEF Basic
<1>6. Places'
  BY <1>1, <1>2, <1>3, <1>4 DEF Basic, Places
<1>7. Handshake' /\ Session' /\ Clean' /\ Fitting'
  <2>1. x \notin ModeSettings /\ (x \in Framed => x.type = "frame")
    BY Kinds
  <2>2. session = "recv" => mode = command.mode
    BY <1>2 DEF Basic, Session, Places, UploadRuns
  <2>3. UNCHANGED <<device, store, command, commands>>
    BY <1>1
  <2> QED
    BY <1>2, <1>3, <1>4, <1>5, <1>6, <2>1, <2>2, <2>3, HostMoves
<1>8. Delivered'
  BY <1>3 DEF Delivered
<1> QED
  BY <1>5, <1>6, <1>7, <1>8 DEF Basic

LEMMA HostStartKeepsBasic ==
  ASSUME Basic, toHost # <<>>, toHost' = Tail(toHost), UNCHANGED <<device, store, counts>>,
         HostStart(Head(toHost))
  PROVE  Basic'
<1>1. hpc = "start" /\ block = 0 /\ Uploading /\ command \in Commands /\ commands \in Nat
  BY DEF HostStart, Basic, Places, Uploading, Types, HostTypes, CountTypes
<1>2. CASE UNCHANGED <<host, toDevice>>
  BY <1>2, HostSkips
<1>3. CASE Finish("failed") /\ UNCHANGED toDevice
  BY <1>1, <1>3, HostStops
<1>4. CASE HostWaits("answer") /\ HostSends(<<HostFrame(1)>>) /\ block' = 1
  <2>1. HostFrame(1) \in Message /\ HostFrame(1).type = "frame"
        /\ Len(HostFrame(1).data) = command.block_len
    BY <1>1, HostFrames
  <2>2. hpc' = "answer" /\ UNCHANGED <<command, todo, errors, cancels, got, status>>
    BY <1>4 DEF HostWaits
  <2>3. errors \in Nat
    BY DEF Basic, Types, HostTypes
  <2> QED
    BY <1>1, <1>4, <2>1, <2>2, <2>3, HostUploads
<1> QED
  BY <1>2, <1>3, <1>4 DEF HostStart

LEMMA HostAnswerKeepsBasic ==
  ASSUME Basic, toHost # <<>>, toHost' = Tail(toHost), UNCHANGED <<device, store, counts>>,
         HostAnswer(Head(toHost))
  PROVE  Basic'
<1> DEFINE m == Head(toHost)
<1>1. /\ hpc = "answer" /\ block >= 1 /\ Uploading /\ ~Downloading /\ UploadRuns
      /\ command \in Commands /\ commands \in Nat /\ block \in Nat /\ errors \in Nat
  BY Separate DEF HostAnswer, Basic, Places, Uploading, UploadRuns, Types, HostTypes, CountTypes
<1>2. \A k \in Nat \ {0} : HostFrame(k) \in Message /\ HostFrame(k).type = "frame"
                             /\ Len(HostFrame(k).data) = command.block_len
  BY <1>1, HostFrames
<1>3. CASE /\ HostWaits("answer") /\ HostSends(<<HostFrame(block + 1)>>) /\ block' = block + 1
  <2>1. hpc' = "answer" /\ UNCHANGED <<command, todo, errors, cancels, got, status>>
    BY <1>3 DEF HostWaits
  <2>2. HostFrame(block + 1) \in Message /\ HostFrame(block + 1).type = "frame"
        /\ Len(HostFrame(block + 1).data) = command.block_len
    BY <1>1, <1>2
  <2>3. block' \in Nat /\ block' >= 1 /\ block' >= block /\ errors' \in Nat
    BY <1>1, <1>3, <2>1
  <2> QED
    BY <1>1, <1>3, <2>1, <2>2, <2>3, HostUploads
<1>4. CASE /\ HostWaits("finish") /\ HostSends(<<Msg("eof")>>) /\ UNCHANGED block
  <2>1. hpc' = "finish" /\ UNCHANGED <<command, todo, errors, cancels, got, status>>
    BY <1>4 DEF HostWaits
  <2>2. Msg("eof") \in Message /\ Msg("eof").type = "eof"
    BY Signals
  <2>3. block' \in Nat /\ block' >= 1 /\ block' >= block /\ errors' \in Nat
    BY <1>1, <1>4, <2>1
  <2> QED
    BY <1>1, <1>4, <2>1, <2>2, <2>3, HostUploads
<1>5. CASE /\ errors' = errors + 1 /\ HostSends(<<HostFrame(block)>>)
           /\ UNCHANGED <<hpc, command, todo, block, cancels, got, status>>
  <2>1. HostFrame(block) \in Message /\ HostFrame(block).type = "frame"
        /\ Len(HostFrame(block).data) = command.block_len
    BY <1>1, <1>2
  <2>2. block' \in Nat /\ block' >= 1 /\ block' >= block /\ errors' \in Nat
    BY <1>1, <1>5
  <2> QED
    BY <1>1, <1>5, <2>1, <2>2, HostUploads
<1>6. CASE Finish("failed") /\ UNCHANGED toDevice
  BY <1>1, <1>6, HostStops
<1>7. CASE Finish("failed") /\ HostSends(<<HostFrame(block), HostFrame(block)>>)
  <2>1. HostFrame(block) \in Message /\ HostFrame(block).type = "frame"
        /\ Len(HostFrame(block).data) = command.block_len
    BY <1>1, <1>2
  <2>2. HostFrame(block) \notin ModeSettings
    BY <2>1, Kinds
  <2>3. /\ toDevice' \in Seq(Message) /\ (session = "over" => toDevice' = <<>>)
        /\ \A S : Has(toDevice', S) => Has(toDevice, S) \/ HostFrame(block) \in S
    BY <1>7, <2>1, HostSays
  <2> QED
    BY <1>1, <1>7, <2>1, <2>2, <2>3, HostFinishes
<1> QED
  BY <1>3, <1>4, <1>5, <1>6, <1>7 DEF HostAnswer

LEMMA HostFinishKeepsBasic ==
  ASSUME Basic, toHost # <<>>, toHost' = Tail(toHost), UNCHANGED <<device, store, counts>>,
         HostFinish(Head(toHost))
  PROVE  Basic'
<1>1. hpc = "finish" /\ ~Downloading
  BY Separate DEF HostFinish, Basic, Places
<1>2. PICK result \in {"done", "failed"} : Finish(result)
  BY DEF HostFinish
<1> QED
  BY <1>1, <1>2, HostStops DEF HostFinish
\* A step of a download after which the host still receives.
LEMMA HostReceives ==
  ASSUME Basic, toHost # <<>>, toHost' = Tail(toHost), UNCHANGED <<device, store, counts>>,
         hpc = "receive", block' \in Nat, block' >= block, errors' \in Nat, got' \in Seq(Unit),
         UNCHANGED <<hpc, command, todo, cancels, status>>,
         NEW x \in Message, HostSends(<<x>>), x.type \in {"ack", "nak"}, Delivered'
  PROVE  Basic'
<1>1. /\ toHost \in Seq(Message) /\ toHost' \in Seq(Message) /\ block \in Nat /\ block >= 1
      /\ UNCHANGED <<session, mode, wait, frame, offset, data, flash_offset, bank, tx, commands>>
      /\ Downloading /\ ~Uploading
  BY Heard, Separate DEF Basic, Types, QueueTypes, HostTypes, device, counts, Places
<1>2. /\ toDevice' \in Seq(Message) /\ (session = "over" => toDevice' = <<>>)
      /\ \A S : Has(toDevice', S) => Has(toDevice, S) \/ x \in S
  BY HostSays
<1>3. Types'
  <2>1. HostTypes'
    BY DEF Basic, Types, HostTypes
  <2> QED
    BY <1>1, <1>2, <2>1, HostStepTypes DEF Basic
<1>4. Places'
  BY <1>1, <1>2, SameFile DEF Basic, Places
<1>5. Handshake' /\ Session' /\ Clean' /\ Fitting'
  <2>1. x \notin ModeSettings /\ x \notin Framed \cup Eofs
    BY Kinds
  <2>2. UNCHANGED <<device, store, command, commands>>
    BY <1>1
  <2> QED
    BY <1>1, <1>2, <1>3, <1>4, <2>1, <2>2, HostMoves
<1> QED
  BY <1>3, <1>4, <1>5 DEF Basic

LEMMA HostReceivesFrame ==
  ASSUME Basic, toHost # <<>>, toHost' = Tail(toHost), UNCHANGED <<device, store, counts>>,
         hpc = "receive", Head(toHost).type = "frame", HostExpected(Head(toHost)),
         got' = got \o Head(toHost).data, block' = block + 1, HostSends(<<Msg("ack")>>),
         UNCHANGED <<hpc, command, todo, errors, cancels, status>>
  PROVE  Basic'
<1> DEFINE m == Head(toHost)
<1>1. /\ toHost \in Seq(Message) /\ block \in Nat /\ block >= 1 /\ m \in Message
      /\ UNCHANGED <<session, mode, wait, frame, offset, data, flash_offset, bank, tx, commands>>
      /\ Downloading /\ got \in Seq(Unit) /\ errors \in Nat /\ status = "busy"
      /\ toDevice \in Seq(Message)
  BY Heard DEF Basic, Types, QueueTypes, HostTypes, device, counts, Places
<1>2. Msg("ack") \in Message /\ Msg("ack").type = "ack"
  BY Signals
<1>3. /\ ~Has(toHost, Framed \ (Download(block - 1) \cup Download(block)))
      /\ block > Len(Units) => ~Has(toHost, Framed \ Download(block - 1))
      /\ ~Follows(toHost, Download(block), Download(block - 1))
      /\ Len(got) = block - 1 /\ block - 1 <= Len(Units)
      /\ \A i \in 1 .. block - 1 : got[i] = Units[i]
  BY <1>1 DEF Basic, Delivered
<1>4. /\ \A S : Has(toHost', S) => Has(toHost, S)
      /\ \A S, T : m \in S /\ Has(toHost', T) => Follows(toHost, S, T)
      /\ \A S : m \in S => Has(toHost, S)
  BY <1>1, Heard
<1>5. Len(Units) \in Nat /\ Units \in Seq(Unit)
  BY UnitsAreSome DEF Basic
<1>6. \A k \in Nat : \A x \in Download(k) : x \notin Download(k + 1)
  BY Apart
<1>7. m \in Framed /\ m \notin Download(block - 1)
  <2>1. FrameMod \in Nat \ {0} /\ FrameMod > 1 /\ block - 1 \in Nat
    BY <1>1, Sizes
  <2>2. ((block - 1) + 1) % FrameMod # (block - 1) % FrameMod
    BY <2>1, Multiples
  <2>3. (block - 1) + 1 = block
    BY <1>1
  <2>4. m.num # (block - 1) % FrameMod
    BY <2>2, <2>3 DEF HostExpected
  <2> QED
    BY <1>1, <2>4, Kinds DEF Download
<1>8. m \in Download(block) /\ block <= Len(Units)
  BY <1>1, <1>3, <1>4, <1>5, <1>7
<1>9. m.data = <<Units[block]>> /\ Units[block] \in Unit
  BY <1>1, <1>5, <1>8, ElementOfSeq DEF Download
<1>10. /\ got' \in Seq(Unit) /\ Len(got') = block
       /\ \A i \in 1 .. block : got'[i] = Units[i]
  <2> DEFINE u == <<Units[block]>>
             b == block - 1
  <2>1. u \in Seq(Unit) /\ Len(u) = 1 /\ u[1] = Units[block] /\ b \in Nat /\ block = b + 1
    BY <1>1, <1>9
  <2>2. got' = got \o u /\ Len(got) = b /\ \A i \in 1 .. b : got[i] = Units[i]
    BY <1>3, <1>9
  <2> HIDE DEF u, b
  <2>3. /\ got \o u \in Seq(Unit) /\ Len(got \o u) = b + 1
        /\ \A i \in 1 .. b + 1 : (got \o u)[i] = IF i <= b THEN got[i] ELSE u[i - b]
    <3>1. got \in Seq(Unit) /\ u \in Seq(Unit)
      BY <1>1, <2>1
    <3>2. /\ got \o u \in Seq(Unit) /\ Len(got \o u) = Len(got) + Len(u)
          /\ \A i \in 1 .. Len(got) + Len(u) :
               (got \o u)[i] = IF i <= Len(got) THEN got[i] ELSE u[i - Len(got)]
      BY <3>1, ConcatProperties
    <3> QED
      BY <2>1, <2>2, <3>2
  <2>4. ASSUME NEW i \in 1 .. b + 1 PROVE (got \o u)[i] = Units[i]
    <3>1. CASE i <= b
      BY <2>1, <2>2, <2>3, <3>1
    <3>2. CASE i = b + 1
      <4>1. i - b = 1 /\ ~(i <= b)
        BY <2>1, <3>2
      <4> QED
        BY <2>1, <2>3, <3>2, <4>1
    <3>3. i <= b \/ i = b + 1
      BY <2>1
    <3> QED
      BY <3>1, <3>2, <3>3
  <2> QED
    BY <2>1, <2>2, <2>3, <2>4
<1>11. ~Has(toHost', Download(block - 1)) /\ ~Has(toHost', Framed \ Download(block))
  <2>1. ~Has(toHost', Download(block - 1))
    BY <1>3, <1>4, <1>8
  <2>2. ~Has(toHost', Framed \ (Download(block - 1) \cup Download(block)))
    BY <1>3, <1>4
  <2> QED
    BY <2>1, <2>2 DEF Has
<1>12. /\ ~Has(toHost', Framed \ (Download(block) \cup Download(block + 1)))
       /\ ~Follows(toHost', Download(block + 1), Download(block))
  <2>1. \A x : x \in Framed \ (Download(block) \cup Download(block + 1)) => x \in Framed \ Download(block)
    OBVIOUS
  <2>2. \A x : x \in Download(block + 1) => x \in Framed \ Download(block)
    BY <1>1, <1>6 DEF Download
  <2>3. ~Has(toHost', Download(block + 1))
    BY <1>11, <2>2, HasLess
  <2> QED
    BY <1>11, <2>1, <2>3, HasLess DEF Has, Follows
<1>13. Units' = Units /\ (\A k : Download(k)' = Download(k)) /\ (Downloading' <=> Downloading)
  BY <1>1, SameUnits, SameFile
<1>14. /\ toDevice' \in Seq(Message)
       /\ \A S : Has(toDevice', S) => Has(toDevice, S) \/ Msg("ack") \in S
       /\ session # "over" => \A S, T : Follows(toDevice', S, T) =>
            Follows(toDevice, S, T) \/ (Has(toDevice, S) /\ Msg("ack") \in T)
  <2>1. session # "over" => toDevice' = toDevice \o <<Msg("ack")>>
    BY DEF HostSends
  <2> QED
    BY <1>1, <1>2, <2>1, HostSays, Said
<1>15. session = "send" => tx.pc = "answer" /\ tx.block = block /\ ~Follows(toDevice', Acks, Acks)
  <2>1. SUFFICES ASSUME session = "send"
                 PROVE  tx.pc = "answer" /\ tx.block = block /\ ~Follows(toDevice', Acks, Acks)
    OBVIOUS
  <2>2. tx.pc \in {"start", "answer", "finish"}
    BY DEF Basic, Types, DeviceTypes
  <2>3. tx.pc # "start"
    BY <1>1, <1>4, <1>7, <2>1 DEF Basic, Delivered
  <2>4. tx.pc # "finish"
    BY <1>1, <1>5, <1>8, <2>1 DEF Basic, Delivered
  <2>5. tx.block = block
    <3>1. m \in Framed \ Download(block - 1)
      BY <1>7
    <3> QED
      BY <1>1, <1>4, <2>1, <2>2, <2>3, <2>4, <3>1 DEF Basic, Delivered
  <2>6. ~Has(toDevice, Acks) /\ ~Follows(toDevice, Acks, Acks)
    BY <1>1, <2>1, <2>2, <2>3, <2>4, <2>5 DEF Basic, Delivered
  <2> QED
    BY <1>14, <2>1, <2>2, <2>3, <2>4, <2>5, <2>6
<1>16. ~Has(toHost', Eofs)
  BY <1>1, <1>4, <1>5, <1>8 DEF Basic, Delivered
<1>17. Delivered'
  <2>1. /\ block' # 0 /\ block' >= 1 /\ block' - 1 = block /\ block' = block + 1
        /\ Len(got') = block' - 1 /\ block' - 1 <= Len(Units')
        /\ \A i \in 1 .. block' - 1 : got'[i] = Units'[i]
    <3>1. block' = block + 1 /\ block' - 1 = block /\ block' # 0 /\ block' >= 1
      BY <1>1
    <3>2. Len(got') = block /\ block <= Len(Units') /\ \A i \in 1 .. block : got'[i] = Units'[i]
      BY <1>1, <1>5, <1>8, <1>10, <1>13
    <3> QED
      BY <3>1, <3>2
  <2>2. /\ ~Has(toHost', (Framed \ (Download(block - 1) \cup Download(block)))')
        /\ block' > Len(Units') => ~Has(toHost', (Framed \ Download(block - 1))')
        /\ ~Follows(toHost', Download(block)', Download(block - 1)')
        /\ Has(toHost', Eofs) => block' > Len(Units')
    <3>1. Download(block - 1)' = Download(block) /\ Download(block)' = Download(block + 1)
      BY <1>13, <2>1
    <3> QED
      BY <1>11, <1>12, <1>16, <3>1
  <2>3. session' = "send" => tx'.pc = "answer" /\ tx'.block = block' - 1 /\ tx'.block \in 1 .. Len(Units')
                             /\ ~Follows(toDevice', Acks, Acks)
                             /\ ~Has(toHost', (Framed \ Download(block - 1))')
    <3>1. Download(block - 1)' = Download(block)
      BY <1>13, <2>1
    <3>2. ~Has(toHost', (Framed \ Download(block - 1))')
      BY <1>11, <3>1
    <3>3. block \in 1 .. Len(Units') /\ session' = session /\ tx' = tx
      BY <1>1, <1>5, <1>8, <1>13
    <3> QED
      BY <1>15, <2>1, <3>2, <3>3
  <2>4. status' # "done"
    BY <1>1
  <2> QED
    BY <1>1, <2>1, <2>2, <2>3, <2>4 DEF Delivered
<1> QED
  BY <1>1, <1>2, <1>10, <1>17, HostReceives
LEMMA HostReceiveKeepsBasic ==
  ASSUME Basic, toHost # <<>>, toHost' = Tail(toHost), UNCHANGED <<device, store, counts>>,
         HostReceive(Head(toHost))
  PROVE  Basic'
<1> DEFINE m == Head(toHost)
<1>1. /\ hpc = "receive" /\ Downloading /\ ~Uploading /\ ~UploadRuns /\ block >= 1 /\ block \in Nat
      /\ status = "busy" /\ toHost \in Seq(Message) /\ m \in Message /\ errors \in Nat
      /\ toDevice \in Seq(Message)
  BY Heard, Separate
    DEF HostReceive, Basic, Places, Types, QueueTypes, HostTypes, UploadRuns
<1>2. \A t \in {"ack", "nak", "can"} : /\ Msg(t) \in Message /\ Msg(t).type = t
                                       /\ Msg(t) \notin ModeSettings
                                       /\ Msg(t) \notin Framed \cup Eofs
  <2>1. \A t \in {"ack", "nak", "can"} : Msg(t) \in Message /\ Msg(t).type = t
    BY Signals
  <2> QED
    BY <2>1, Kinds
<1>3. ASSUME NEW t \in {"ack", "nak", "can"}, NEW result \in {"done", "failed"}, Finish(result),
             HostSends(<<Msg(t)>>) \/ HostSends(<<Msg(t), Msg(t)>>),
             result = "done" => block > Len(Units)
      PROVE  Basic'
  <2>1. /\ toDevice' \in Seq(Message) /\ (session = "over" => toDevice' = <<>>)
        /\ \A S : Has(toDevice', S) => Has(toDevice, S) \/ Msg(t) \in S
    BY <1>2, <1>3, HostSays
  <2> QED
    BY <1>1, <1>2, <1>3, <2>1, HostFinishes
<1>4. CASE /\ m.type = "frame" /\ HostExpected(m)
           /\ got' = got \o m.data /\ block' = block + 1 /\ HostSends(<<Msg("ack")>>)
           /\ UNCHANGED <<hpc, command, todo, errors, cancels, status>>
  BY <1>1, <1>4, HostReceivesFrame
<1>5. CASE /\ errors' = errors + 1 /\ HostSends(<<Msg("nak")>>)
           /\ UNCHANGED <<hpc, command, todo, block, cancels, got, status>>
  <2>1. /\ toDevice' \in Seq(Message)
        /\ \A S : Has(toDevice', S) => Has(toDevice, S) \/ Msg("nak") \in S
    BY <1>2, <1>5, HostSays
  <2>2. Msg("nak") \notin Acks
    BY <1>2, Kinds
  <2>3. \A S, T : session = "send" /\ Follows(toDevice', S, T) =>
             Follows(toDevice, S, T) \/ Msg("nak") \in T
    <3>1. session = "send" => toDevice' = toDevice \o <<Msg("nak")>>
      BY <1>5 DEF HostSends
    <3> QED
      BY <1>1, <1>2, <3>1, Said
  <2>4. /\ UNCHANGED <<session, tx, commands>>
        /\ \A S : Has(toHost', S) => Has(toHost, S)
        /\ \A S, T : Follows(toHost', S, T) => Follows(toHost, S, T)
    BY <1>1, Heard DEF device, counts
  <2>5. Units' = Units /\ (\A k : Download(k)' = Download(k)) /\ (Downloading' <=> Downloading)
    BY <1>5, <2>4, SameUnits, SameFile
  <2>6. Delivered'
    BY <1>1, <1>5, <2>1, <2>2, <2>3, <2>4, <2>5 DEF Basic, Delivered
  <2>7. block' \in Nat /\ block' >= block /\ errors' \in Nat /\ got' \in Seq(Unit)
    BY <1>1, <1>5 DEF Basic, Types, HostTypes
  <2> QED
    BY <1>1, <1>2, <1>5, <2>6, <2>7, HostReceives
<1>6. CASE Finish("failed") /\ HostSends(<<Msg("nak")>>)
  BY <1>3, <1>6
<1>7. CASE Finish("failed") /\ HostSends(<<Msg("can"), Msg("can")>>)
  BY <1>3, <1>7
<1>8. CASE m.type = "eof" /\ Finish("done") /\ HostSends(<<Msg("ack")>>)
  <2>1. Has(toHost, Eofs)
    BY <1>1, <1>8, Kinds, Heard
  <2>2. block > Len(Units)
    BY <1>1, <2>1 DEF Basic, Delivered
  <2> QED
    BY <1>3, <1>8, <2>2
<1>9. CASE Finish("failed") /\ UNCHANGED toDevice
  BY <1>1, <1>9, HostStops
<1> QED
  BY <1>4, <1>5, <1>6, <1>7, <1>8, <1>9 DEF HostReceive

LEMMA HostHearsKeepsBasic ==
  ASSUME Basic, HostHears
  PROVE  Basic'
<1>1. toHost # <<>> /\ toHost' = Tail(toHost) /\ UNCHANGED <<device, store, counts>>
  BY DEF HostHears
<1> QED
  BY <1>1, HostLineKeepsBasic, HostStartKeepsBasic, HostAnswerKeepsBasic, HostFinishKeepsBasic,
     HostReceiveKeepsBasic DEF HostHears

LEMMA EnterKeepsBasic ==
  ASSUME Basic, Enter
  PROVE  Basic'
<1>1. /\ command' \in Commands /\ command' # None
      /\ command'.mode \in ReceiveModes \cup SendModes \cup {"REBO"}
      /\ command'.wait \in BOOLEAN
  BY CommandFacts DEF Enter
<1>2. todo' = <<command'.mode>> \/ todo' = <<"WAIT", command'.mode>>
  <2>1. todo' = (IF command'.wait THEN <<"WAIT">> ELSE <<>>) \o <<command'.mode>>
    BY DEF Enter
  <2>2. <<>> \o <<command'.mode>> = <<command'.mode>>
        /\ <<"WAIT">> \o <<command'.mode>> = <<"WAIT", command'.mode>>
    <3>1. /\ <<"WAIT">> \in Seq(Modes) /\ <<command'.mode>> \in Seq(Modes)
          /\ <<"WAIT", command'.mode>> \in Seq(Modes)
      BY <1>1 DEF Modes
    <3> DEFINE n == command'.mode
    <3>2. /\ Len(<<"WAIT">>) = 1 /\ <<"WAIT">>[1] = "WAIT" /\ Len(<<n>>) = 1 /\ <<n>>[1] = n
          /\ Len(<<"WAIT", n>>) = 2 /\ <<"WAIT", n>>[1] = "WAIT" /\ <<"WAIT", n>>[2] = n
      OBVIOUS
    <3> HIDE DEF n
    <3>3. /\ <<"WAIT">> \o <<n>> \in Seq(Modes) /\ Len(<<"WAIT">> \o <<n>>) = 2
          /\ \A i \in 1 .. 1 + 1 : (<<"WAIT">> \o <<n>>)[i] =
               IF i <= 1 THEN <<"WAIT">>[i] ELSE <<n>>[i - 1]
      BY <3>1, <3>2, ConcatProperties DEF n
    <3>4. \A i \in 1 .. 2 : (<<"WAIT">> \o <<n>>)[i] = <<"WAIT", n>>[i]
      <4>1. ASSUME NEW i \in 1 .. 2 PROVE i = 1 \/ i = 2
        OBVIOUS
      <4> QED
        BY <3>2, <3>3, <4>1
    <3>5. <<"WAIT">> \o <<n>> = <<"WAIT", n>>
      BY <3>1, <3>2, <3>3, <3>4, SeqEqual DEF n
    <3> QED
      BY <3>1, <3>5, ConcatEmptySeq DEF n
  <2> QED
    BY <1>1, <2>1, <2>2
<1>3. toDevice' = <<Mode(Head(todo'))>> /\ Head(todo') \in Modes /\ todo' \in Seq(Modes)
  BY <1>1, <1>2 DEF Enter, Modes
<1>4. Mode(Head(todo')) \in Message /\ Mode(Head(todo')).type = "mode"
      /\ Msg("C") \in Message /\ Msg("C").type = "C"
  BY <1>3, Signals
<1>5. toDevice' \in Seq(Message) /\ toHost' \in Seq(Message)
  <2>1. <<Msg("C")>> \in Seq(Message) /\ <<Mode(Head(todo'))>> \in Seq(Message)
    BY <1>4
  <2> QED
    BY <1>3, <2>1, EmptySeq DEF Enter
<1>6. /\ \A S : Has(toHost', S) => Msg("C") \in S
      /\ \A S, T : ~Follows(toHost', S, T)
      /\ \A S : Has(toDevice', S) => Mode(Head(todo')) \in S
  <2>1. \A S, T : /\ ~Has(<<>>, S) /\ ~Follows(<<>>, S, T)
                  /\ \A x : (Has(<<x>>, S) => x \in S) /\ ~Follows(<<x>>, S, T)
    BY HasFew
  <2>2. toHost' = <<>> \/ toHost' = <<Msg("C")>>
    BY DEF Enter
  <2> QED
    BY <1>3, <2>1, <2>2
<1>7. Types'
  <2>1. DeviceTypes'
    <3>1. Fill(Garbage) \in Page /\ 0 \in 0 .. Pages + 1 /\ 0 \in 0 .. Buffer - 1
      BY Units0, Sizes DEF Page
    <3>2. /\ session' = "recv" /\ mode' = "RESQ" /\ wait' = FALSE /\ frame' = 1 /\ offset' = 0
          /\ data' \in Page /\ flash_offset' = 0 /\ bank' = "A" /\ tx' = tx
      BY <3>1 DEF Enter
    <3>3. wait' \in BOOLEAN /\ mode' \in ReceiveModes \cup SendModes /\ bank' \in Slots
      BY <3>2 DEF ReceiveModes, Slots
    <3>4. tx' \in [pc : {"start", "answer", "finish"}, block : Nat, errors : Nat,
                  cancels : Nat, tries : Nat]
      BY <3>2 DEF Basic, Types, DeviceTypes
    <3> QED
      BY <3>1, <3>2, <3>3, <3>4 DEF DeviceTypes
  <2>2. HostTypes'
    <3>1. <<>> \in Seq(Unit)
      BY EmptySeq
    <3> QED
      BY <1>1, <1>3, <3>1 DEF Enter, HostTypes
  <2>3. StoreTypes' /\ CountTypes'
    BY Sizes DEF Enter, Basic, Types, StoreTypes, CountTypes
  <2> QED
    BY <1>5, <2>1, <2>2, <2>3 DEF Types, QueueTypes
<1>8. Places'
  BY <1>1 DEF Enter, Places, Uploading, Downloading
<1>9. Handshake'
  <2>1. Msg("C") \notin Lines /\ Msg("C") \notin Yes
    BY <1>4, Kinds
  <2> QED
    BY <1>2, <1>3, <1>6, <2>1 DEF Enter, Handshake
<1>10. Session'
  BY DEF Enter, Session, Target, ReceiveModes, UploadRuns
<1>11. Clean' /\ Fitting'
  <2>1. /\ Msg("C") \notin Framed \cup Acks \cup Eofs /\ Mode(Head(todo')) \notin Framed \cup Eofs
        /\ ~UploadRuns'
    BY <1>4, Kinds DEF Enter, UploadRuns
  <2> QED
    BY <1>6, <2>1 DEF Enter, Clean, Fitting
<1>12. Delivered'
  BY DEF Enter, Delivered
<1> QED
  BY <1>7, <1>8, <1>9, <1>10, <1>11, <1>12 DEF Basic
-----------------------------------------------------------------------------
\* The line.
LEMMA Weaker ==
  ASSUME NEW q \in Seq(Message), q # <<>>, NEW x \in Message,
         NEW r, r = Tail(q) \/ r = <<x>> \o Tail(q)
  PROVE  /\ r \in Seq(Message)
         /\ \A S : (x \in S => Head(q) \in S) => (Has(r, S) => Has(q, S))
         /\ \A S, T : (x \in S => Head(q) \in S) => (Follows(r, S, T) => Follows(q, S, T))
<1>1. /\ Tail(q) \in Seq(Message)
      /\ \A S : Has(Tail(q), S) => Has(q, S)
      /\ \A S : Head(q) \in S => Has(q, S)
      /\ \A S, T : Follows(Tail(q), S, T) => Follows(q, S, T)
      /\ \A S, T : Head(q) \in S /\ Has(Tail(q), T) => Follows(q, S, T)
  BY Heard
<1>2. CASE r = Tail(q)
  BY <1>1, <1>2
<1>3. CASE r = <<x>> \o Tail(q)
  <2>1. /\ r \in Seq(Message)
        /\ \A S : Has(r, S) => x \in S \/ Has(Tail(q), S)
        /\ \A S, T : Follows(r, S, T) => (x \in S /\ Has(Tail(q), T)) \/ Follows(Tail(q), S, T)
    BY <1>3, Damaged
  <2> QED
    BY <1>1, <2>1
<1> QED
  BY <1>2, <1>3

LEMMA Retyped ==
  ASSUME NEW m \in Message, m.type = "frame", NEW t \in {"crc", "number", "short"}
  PROVE  \E x \in Message : /\ x = [m EXCEPT !.type = t]
                            /\ x.type = t /\ x.num = m.num /\ x.data = m.data
<1>1. m.type \in {"frame", "crc", "number", "short"}
  OBVIOUS
<1>2. \A s \in {"frame", "crc", "number", "short"} :
        /\ [m EXCEPT !.type = s] \in Message
        /\ [m EXCEPT !.type = s].type = s /\ [m EXCEPT !.type = s].num = m.num
        /\ [m EXCEPT !.type = s].data = m.data
  BY <1>1, MessageKinds
<1>3. t \in {"frame", "crc", "number", "short"}
  OBVIOUS
<1>4. /\ [m EXCEPT !.type = t] \in Message
      /\ [m EXCEPT !.type = t].type = t /\ [m EXCEPT !.type = t].num = m.num
      /\ [m EXCEPT !.type = t].data = m.data
  BY <1>2, <1>3
<1> QED
  BY <1>4

\* What a message on the way to the host can become.
LEMMA DamagesToHost ==
  ASSUME Types, DamageToHost
  PROVE  \E x \in Message :
           /\ toHost' = Tail(toHost) \/ toHost' = <<x>> \o Tail(toHost)
           /\ x \notin Acks \cup Eofs \cup Lines
           /\ x \in Framed => /\ Head(toHost) \in Framed
                              /\ x.num = Head(toHost).num /\ x.data = Head(toHost).data
<1> DEFINE m == Head(toHost)
<1>1. toHost # <<>> /\ toHost \in Seq(Message) /\ m \in Message
  BY Heard DEF DamageToHost, Types, QueueTypes
<1>2. CASE m.type = "frame" /\ \E t \in {"crc", "number", "short"} :
                                 toHost' = <<[m EXCEPT !.type = t]>> \o Tail(toHost)
  <2>1. PICK t \in {"crc", "number", "short"} : toHost' = <<[m EXCEPT !.type = t]>> \o Tail(toHost)
    BY <1>2
  <2>2. PICK x \in Message : /\ x = [m EXCEPT !.type = t]
                             /\ x.type = t /\ x.num = m.num /\ x.data = m.data
    BY <1>1, <1>2, Retyped
  <2>3. x \notin Acks \cup Eofs \cup Lines /\ m \in Framed
    BY <1>1, <1>2, <2>2, Kinds
  <2>4. toHost' = <<x>> \o Tail(toHost)
    BY <2>1, <2>2
  <2> QED
    BY <2>2, <2>3, <2>4
<1>3. CASE toHost' = <<Msg("chars")>> \o Tail(toHost) \/ toHost' = Tail(toHost)
  <2>1. Msg("chars") \in Message /\ Msg("chars").type = "chars"
    BY Signals
  <2>2. Msg("chars") \notin Acks \cup Eofs \cup Lines /\ Msg("chars") \notin Framed
    BY <2>1, Kinds
  <2> QED
    BY <1>3, <2>1, <2>2
<1> QED
  BY <1>2, <1>3 DEF DamageToHost

LEMMA DamageToHostKeepsBasic ==
  ASSUME Basic, DamageToHost
  PROVE  Basic'
<1> DEFINE m == Head(toHost)
<1>1. /\ toHost # <<>> /\ toHost \in Seq(Message) /\ toDevice \in Seq(Message) /\ m \in Message
      /\ UNCHANGED <<toDevice, session, mode, wait, frame, offset, data, flash_offset, bank, tx>>
      /\ UNCHANGED <<hpc, command, todo, block, errors, cancels, got, status, commands, naks, store>>
      /\ faults' \in 0 .. MaxFaults
  BY Heard, Sizes
    DEF DamageToHost, Fault, Basic, Types, QueueTypes, CountTypes, host, device
<1>2. PICK x \in Message :
        /\ toHost' = Tail(toHost) \/ toHost' = <<x>> \o Tail(toHost)
        /\ x \notin Acks \cup Eofs \cup Lines
        /\ x \in Framed => m \in Framed /\ x.num = m.num /\ x.data = m.data
  BY DamagesToHost DEF Basic
<1>3. /\ toHost' \in Seq(Message)
      /\ \A S : (x \in S => m \in S) => (Has(toHost', S) => Has(toHost, S))
      /\ \A S, T : (x \in S => m \in S) => (Follows(toHost', S, T) => Follows(toHost, S, T))
  BY <1>1, <1>2, Weaker
<1>4. \A k : x \in Download(k) <=> m \in Download(k) /\ x \in Framed
  BY <1>2 DEF Download
<1>5. x \notin Yes
  BY <1>2 DEF Yes
<1>6. Types'
  BY <1>1, <1>3 DEF Basic, Types, DeviceTypes, StoreTypes, QueueTypes, HostTypes, CountTypes
<1>7. Places' /\ Session' /\ Fitting'
  BY <1>1, SameFile DEF Basic, Places, Session, Fitting, UploadRuns
<1>8. Handshake' /\ Clean'
  <2>1. /\ Has(toHost', Lines) => Has(toHost, Lines)
        /\ Has(toHost', Yes) => Has(toHost, Yes)
        /\ Follows(toHost', Lines, Lines) => Follows(toHost, Lines, Lines)
        /\ Has(toHost', Framed \cup Acks \cup Eofs) => Has(toHost, Framed \cup Acks \cup Eofs)
    BY <1>2, <1>3, <1>5
  <2> QED
    BY <1>1, <2>1, SameFile DEF Basic, Handshake, Clean, UploadRuns
<1>9. Delivered'
  <2>1. Units' = Units /\ \A k : Download(k)' = Download(k)
    BY <1>1, SameUnits
  <2>2. ASSUME NEW j, NEW k
        PROVE  /\ Has(toHost', Framed \ Download(k)) => Has(toHost, Framed \ Download(k))
               /\ Has(toHost', Framed \ (Download(j) \cup Download(k))) =>
                    Has(toHost, Framed \ (Download(j) \cup Download(k)))
               /\ Follows(toHost', Download(j), Download(k)) => Follows(toHost, Download(j), Download(k))
    BY <1>2, <1>3, <1>4
  <2>3. /\ Has(toHost', Eofs) => Has(toHost, Eofs)
        /\ Has(toHost', Framed) => Has(toHost, Framed)
    BY <1>2, <1>3
  <2> QED
    BY <1>1, <2>1, <2>2, <2>3, SameFile DEF Basic, Delivered
<1> QED
  BY <1>6, <1>7, <1>8, <1>9 DEF Basic

\* What a message on the way to the device can become.
LEMMA DamagesToDevice ==
  ASSUME Types, DamageToDevice
  PROVE  \E x \in Message :
           /\ toDevice' = Tail(toDevice) \/ toDevice' = <<x>> \o Tail(toDevice)
           /\ x \notin Acks \cup Lines
           /\ x \in Framed => /\ Head(toDevice) \in Framed /\ Head(toDevice).type = "frame"
                              /\ x.num = Head(toDevice).num /\ x.data = Head(toDevice).data
           /\ x \in Eofs => Head(toDevice) \in Framed /\ "eof" \in Junk
           /\ x \in ModeSettings => x = Mode("bad") /\ Head(toDevice) \in ModeSettings
<1> DEFINE m == Head(toDevice)
           Becomes(x) ==
             /\ toDevice' = Tail(toDevice) \/ toDevice' = <<x>> \o Tail(toDevice)
             /\ x \notin Acks \cup Lines
             /\ x \in Framed => /\ m \in Framed /\ m.type = "frame"
                                /\ x.num = m.num /\ x.data = m.data
             /\ x \in Eofs => m \in Framed /\ "eof" \in Junk
             /\ x \in ModeSettings => x = Mode("bad") /\ m \in ModeSettings
<1>1. toDevice # <<>> /\ toDevice \in Seq(Message) /\ m \in Message
  BY Heard DEF DamageToDevice, Types, QueueTypes
<1>2. ASSUME NEW t \in {"crc", "number", "short"}, m.type = "frame",
             toDevice' = <<[m EXCEPT !.type = t]>> \o Tail(toDevice)
      PROVE  \E x \in Message : Becomes(x)
  <2>1. PICK x \in Message : /\ x = [m EXCEPT !.type = t]
                             /\ x.type = t /\ x.num = m.num /\ x.data = m.data
    BY <1>1, <1>2, Retyped
  <2>2. toDevice' = <<x>> \o Tail(toDevice)
    BY <1>2, <2>1
  <2>3. x \notin Acks \cup Lines /\ m \in Framed /\ x \notin Eofs /\ x \notin ModeSettings
    BY <1>1, <1>2, <2>1, Kinds
  <2>4. Becomes(x)
    BY <1>2, <2>1, <2>2, <2>3
  <2> QED
    BY <2>1, <2>4
<1>3. ASSUME NEW t \in {"chars", "eof"}, toDevice' = <<Msg(t)>> \o Tail(toDevice),
             t = "eof" => m.type = "frame" /\ "eof" \in Junk
      PROVE  \E x \in Message : Becomes(x)
  <2> DEFINE x == Msg(t)
  <2>1. x \in Message /\ x.type = t
    BY Signals
  <2>2. toDevice' = <<x>> \o Tail(toDevice)
    BY <1>3
  <2> HIDE DEF x
  <2>3. /\ x \notin Acks \cup Lines /\ x \notin Framed /\ x \notin ModeSettings
        /\ x \in Eofs => t = "eof"
    BY <2>1, Kinds
  <2>4. x \in Eofs => m \in Framed /\ "eof" \in Junk
    <3>1. CASE t = "eof"
      <4>1. m.type = "frame"
        BY <1>3, <3>1
      <4>2. m \in Framed
        BY <1>1, <4>1, Kinds
      <4> QED
        BY <1>3, <3>1, <4>2
    <3>2. CASE t # "eof"
      <4>1. x \notin Eofs
        BY <2>3, <3>2
      <4> QED
        BY <4>1
    <3> QED
      BY <3>1, <3>2
  <2>5. Becomes(x)
    <3>1. x \in Framed => /\ m \in Framed /\ m.type = "frame"
                         /\ x.num = m.num /\ x.data = m.data
      BY <2>3
    <3>2. x \in ModeSettings => x = Mode("bad") /\ m \in ModeSettings
      BY <2>3
    <3> QED
      BY <2>2, <2>3, <2>4, <3>1, <3>2
  <2> QED
    BY <2>1, <2>5
<1>4. ASSUME m.type = "mode", toDevice' = <<Mode("bad")>> \o Tail(toDevice)
      PROVE  \E x \in Message : Becomes(x)
  <2>1. Mode("bad") \in Message /\ Mode("bad").type = "mode"
    BY Signals
  <2>2. /\ Mode("bad") \notin Acks \cup Lines /\ Mode("bad") \notin Framed
        /\ Mode("bad") \notin Eofs /\ m \in ModeSettings
    BY <1>1, <1>4, <2>1, Kinds
  <2>3. Becomes(Mode("bad"))
    BY <1>4, <2>2
  <2> QED
    BY <2>1, <2>3
<1>5. ASSUME toDevice' = Tail(toDevice)
      PROVE  \E x \in Message : Becomes(x)
  <2>1. Msg("chars") \in Message /\ Msg("chars").type = "chars"
    BY Signals
  <2>2. /\ Msg("chars") \notin Acks \cup Lines /\ Msg("chars") \notin Framed
        /\ Msg("chars") \notin Eofs /\ Msg("chars") \notin ModeSettings
    BY <2>1, Kinds
  <2>3. Becomes(Msg("chars"))
    BY <1>5, <2>2
  <2> QED
    BY <2>1, <2>3
<1>6. \E x \in Message : Becomes(x)
  <2>1. CASE m.type = "frame" /\ toDevice' = <<[m EXCEPT !.type = "crc"]>> \o Tail(toDevice)
    BY <1>2, <2>1
  <2>2. CASE m.type = "frame" /\ \E d \in DamagedFrame(m) : toDevice' = <<d>> \o Tail(toDevice)
    <3>1. PICK d \in DamagedFrame(m) : toDevice' = <<d>> \o Tail(toDevice)
      BY <2>2
    <3>2. CASE \E t \in {"number", "short"} : d = [m EXCEPT !.type = t]
      BY <1>2, <2>2, <3>1, <3>2
    <3>3. CASE \E t \in Junk : d = Msg(t)
      <4>1. PICK t \in Junk : d = Msg(t)
        BY <3>3
      <4>2. t \in {"chars", "eof"} /\ (t = "eof" => "eof" \in Junk)
        BY <4>1, ConstantsAssumption
      <4> QED
        BY <1>3, <2>2, <3>1, <4>1, <4>2
    <3> QED
      BY <3>1, <3>2, <3>3 DEF DamagedFrame
  <2>3. CASE m.type = "mode" /\ toDevice' = <<Mode("bad")>> \o Tail(toDevice)
    BY <1>4, <2>3
  <2>4. CASE toDevice' = <<Msg("chars")>> \o Tail(toDevice)
    BY <1>3, <2>4
  <2> QED
    BY <1>5, <2>1, <2>2, <2>3, <2>4 DEF DamageToDevice
<1> QED
  BY <1>6

LEMMA DamageToDeviceKeepsBasic ==
  ASSUME Basic, DamageToDevice
  PROVE  Basic'
<1> DEFINE m == Head(toDevice)
<1>1. /\ toDevice # <<>> /\ toHost \in Seq(Message) /\ toDevice \in Seq(Message) /\ m \in Message
      /\ UNCHANGED <<toHost, session, mode, wait, frame, offset, data, flash_offset, bank, tx>>
      /\ UNCHANGED <<hpc, command, todo, block, errors, cancels, got, status, commands, store>>
      /\ faults' \in 0 .. MaxFaults /\ naks' \in 0 .. MaxNaks
  BY Heard, Sizes
    DEF DamageToDevice, Fault, Basic, Types, QueueTypes, CountTypes, host, device
<1>2. PICK x \in Message :
        /\ toDevice' = Tail(toDevice) \/ toDevice' = <<x>> \o Tail(toDevice)
        /\ x \notin Acks \cup Lines
        /\ x \in Framed => m \in Framed /\ x.num = m.num /\ x.data = m.data
        /\ x \in Eofs => m \in Framed
        /\ x \in ModeSettings => x = Mode("bad") /\ m \in ModeSettings
  BY DamagesToDevice DEF Basic
<1>3. /\ toDevice' \in Seq(Message)
      /\ \A S : (x \in S => m \in S) => (Has(toDevice', S) => Has(toDevice, S))
      /\ \A S, T : (x \in S => m \in S) => (Follows(toDevice', S, T) => Follows(toDevice, S, T))
  BY <1>1, <1>2, Weaker
<1>4. Types'
  BY <1>1, <1>3 DEF Basic, Types, DeviceTypes, StoreTypes, QueueTypes, HostTypes, CountTypes
<1>5. hpc = "line" => toDevice' = <<>> \/ toDevice' = <<Mode("bad")>>
  <2>1. SUFFICES ASSUME hpc = "line" PROVE toDevice' = <<>> \/ toDevice' = <<Mode("bad")>>
    OBVIOUS
  <2>2. \A y : Tail(<<y>>) = <<>>
    OBVIOUS
  <2>3. Tail(toDevice) = <<>>
    BY <1>1, <2>1, <2>2 DEF Basic, Handshake
  <2>4. m = Mode(Head(todo)) \/ m = Mode("bad")
    BY <1>1, <2>1 DEF Basic, Handshake
  <2>5. m.type = "mode"
    BY <2>4 DEF Mode
  <2>6. toDevice' = Tail(toDevice) \/ toDevice' = <<Mode("bad")>> \o Tail(toDevice)
    BY <2>5 DEF DamageToDevice
  <2>7. <<Mode("bad")>> \o <<>> = <<Mode("bad")>>
    <3>1. Mode("bad") \in Message
      BY Signals
    <3> QED
      BY <3>1, ConcatEmptySeq, Words0 DEF Basic
  <2> QED
    BY <2>3, <2>6, <2>7
<1>6. Places'
  <2>1. block = 0 /\ hpc # "line" => FALSE
    BY <1>1 DEF Basic, Places
  <2> QED
    BY <1>1, <2>1, SameFile DEF Basic, Places
<1>7. Session'
  BY <1>1, SameFile DEF Basic, Session, UploadRuns
<1>8. Handshake'
  <2>1. Has(toDevice', ModeSettings) => Has(toDevice, ModeSettings)
    BY <1>2, <1>3
  <2> QED
    BY <1>1, <1>5, <2>1, SameFile DEF Basic, Handshake
<1>9. Clean'
  <2>1. Has(toDevice', Framed \cup Eofs) => Has(toDevice, Framed \cup Eofs)
    BY <1>2, <1>3
  <2> QED
    BY <1>1, <2>1, SameFile DEF Basic, Clean, UploadRuns
<1>10. Fitting'
  <2>1. Has(toDevice', {z \in Framed : Len(z.data) # command.block_len}) =>
          Has(toDevice, {z \in Framed : Len(z.data) # command.block_len})
    <3> DEFINE S == {z \in Framed : Len(z.data) # command.block_len}
    <3>1. x \in S => m \in S
      BY <1>2
    <3> HIDE DEF S
    <3> QED
      BY <1>3, <3>1 DEF S
  <2> QED
    BY <1>1, <2>1, SameFile DEF Basic, Fitting, UploadRuns
<1>11. Delivered'
  <2>1. Units' = Units /\ \A k : Download(k)' = Download(k)
    BY <1>1, SameUnits
  <2>2. /\ Has(toDevice', Acks) => Has(toDevice, Acks)
        /\ Follows(toDevice', Acks, Acks) => Follows(toDevice, Acks, Acks)
    BY <1>2, <1>3
  <2> QED
    BY <1>1, <2>1, <2>2, SameFile DEF Basic, Delivered
<1> QED
  BY <1>4, <1>6, <1>7, <1>8, <1>9, <1>10, <1>11 DEF Basic

LEMMA StutterKeepsBasic ==
  ASSUME Basic, UNCHANGED vars
  PROVE  Basic'
<1>1. /\ UNCHANGED <<session, mode, wait, frame, offset, data, flash_offset, bank, tx>>
      /\ UNCHANGED <<store, toDevice, toHost>>
      /\ UNCHANGED <<hpc, command, todo, block, errors, cancels, got, status, commands, naks, faults>>
  BY DEF vars, device, host, counts
<1>2. Units' = Units /\ \A k : Download(k)' = Download(k)
  BY <1>1, SameUnits
<1>3. Types'
  BY <1>1 DEF Basic, Types, DeviceTypes, StoreTypes, QueueTypes, HostTypes, CountTypes
<1>4. Places' /\ Handshake' /\ Session' /\ Clean' /\ Fitting'
  BY <1>1, SameFile DEF Basic, Places, Handshake, Session, Clean, Fitting, UploadRuns
<1>5. Delivered'
  BY <1>1, <1>2, SameFile DEF Basic, Delivered
<1> QED
  BY <1>3, <1>4, <1>5 DEF Basic

LEMMA InitIsBasic ==
  ASSUME Init
  PROVE  Basic
<1>1. Types
  <2>1. DeviceTypes
    <3>1. Fill(Old) \in Page /\ 0 \in 0 .. Pages + 1 /\ 0 \in 0 .. Buffer - 1
      BY Units0, Sizes DEF Page
    <3>2. /\ session = "over" /\ mode = "RESQ" /\ wait = FALSE /\ frame = 1 /\ offset = 0
          /\ data \in Page /\ flash_offset = 0 /\ bank = "A"
          /\ tx = [pc |-> "start", block |-> 1, errors |-> 0, cancels |-> 0, tries |-> 0]
      BY <3>1 DEF Init
    <3>3. wait \in BOOLEAN /\ mode \in ReceiveModes \cup SendModes /\ bank \in Slots
      BY <3>2 DEF ReceiveModes, Slots
    <3>4. tx \in [pc : {"start", "answer", "finish"}, block : Nat, errors : Nat,
                  cancels : Nat, tries : Nat]
      BY <3>2
    <3> QED
      BY <3>1, <3>2, <3>3, <3>4 DEF DeviceTypes
  <2>2. StoreTypes
    <3> DEFINE V(t) == CASE t \in Slots -> [p \in 1 .. Pages |-> Fill(Old)]
                         [] t = "owner" -> Fill(Old)
                         [] t = "msg" -> [i \in 1 .. MsgLen |-> Old]
    <3>1. Fill(Old) \in Page /\ Old \in Unit
      BY Units0 DEF Page
    <3>2. [p \in 1 .. Pages |-> Fill(Old)] \in [1 .. Pages -> Page]
      BY <3>1
    <3>3. [i \in 1 .. MsgLen |-> Old] \in [1 .. MsgLen -> Unit]
      BY <3>1
    <3>4. \A t \in Slots : V(t) = [p \in 1 .. Pages |-> Fill(Old)]
      BY DEF Slots
    <3>5. V("owner") = Fill(Old) /\ V("msg") = [i \in 1 .. MsgLen |-> Old]
      BY DEF Slots
    <3>6. store = [t \in Targets |-> V(t)]
      BY DEF Init
    <3> HIDE DEF V
    <3>7. \A t \in Targets : V(t) \in Contents
      BY <3>1, <3>2, <3>3, <3>4, <3>5 DEF Targets, Slots, Contents, Page
    <3>8. store \in [Targets -> Contents]
      BY <3>6, <3>7
    <3>9. /\ \A t \in Slots : store[t] = V(t)
          /\ store["owner"] = V("owner") /\ store["msg"] = V("msg")
      BY <3>6 DEF Targets
    <3> QED
      BY <3>1, <3>2, <3>3, <3>4, <3>5, <3>8, <3>9 DEF StoreTypes, Memory
  <2>3. QueueTypes /\ HostTypes /\ CountTypes
    BY EmptySeq, Sizes DEF Init, QueueTypes, HostTypes, CountTypes
  <2> QED
    BY <2>1, <2>2, <2>3 DEF Types
<1>2. \A S : ~Has(<<>>, S)
  BY HasFew
<1>3. Places /\ Handshake /\ Session /\ Clean /\ Fitting /\ Delivered
  BY <1>2 DEF Init, Places, Handshake, Session, Clean, Fitting, Delivered, UploadRuns, Uploading,
    Downloading
<1> QED
  BY <1>1, <1>3 DEF Basic

LEMMA NextKeepsBasic == Basic /\ [Next]_vars => Basic'
<1> SUFFICES ASSUME Basic, [Next]_vars PROVE Basic'
  OBVIOUS
<1>1. CASE Device
  BY <1>1, DeviceHearsKeepsBasic, TimeoutStartKeepsBasic, SendTimeoutKeepsBasic DEF Device
<1>2. CASE Host
  BY <1>2, HostHearsKeepsBasic, HostLineTimeoutKeepsBasic DEF Host
<1>3. CASE Enter
  BY <1>3, EnterKeepsBasic
<1>4. CASE Damage
  BY <1>4, DamageToDeviceKeepsBasic, DamageToHostKeepsBasic, UnexpectedResetKeepsBasic DEF Damage
<1>5. CASE UNCHANGED vars
  BY <1>5, StutterKeepsBasic
<1> QED
  BY <1>1, <1>2, <1>3, <1>4, <1>5 DEF Next

LEMMA BasicAlways == Spec => []Basic
<1>1. Init => Basic
  BY InitIsBasic
<1> QED
  BY <1>1, NextKeepsBasic, PTL DEF Spec

\* TypeOK: the type invariant of Rescue.
THEOREM TypeCorrect == Spec => []TypeOK
<1>1. Basic => TypeOK
  BY TypesAreTypeOK DEF Basic
<1> QED
  BY <1>1, BasicAlways, PTL

\* FramesFit: xmodem_recv_frame() puts a frame at rescue_state.data + offset and
\* checks no bound; whatever is damaged, refused, repeated or lost, and whatever a
\* damaged frame is read as, the frame is within the buffer.
THEOREM FramesAlwaysFit == Spec => []FramesFit
<1>1. ASSUME Basic, session = "recv", toDevice # <<>>,
             Head(toDevice).type \in {"frame", "crc", "number"}
      PROVE  offset + Len(Head(toDevice).data) <= Buffer
  <2>1. Head(toDevice) \in Framed
    BY <1>1, Heard, Kinds DEF Basic, Types, QueueTypes
  <2>2. /\ Len(Head(toDevice).data) = command.block_len
        /\ offset + command.block_len \in 1 .. Buffer
    BY <1>1, <2>1, FitsHere
  <2> QED
    BY <2>2
<1>2. Basic => FramesFit
  BY <1>1 DEF FramesFit
<1> QED
  BY <1>2, BasicAlways, PTL

\* DownloadIsExact: the host that xmodem_send() has told the end of the file has
\* exactly what the device held, whatever the line did to frames and answers.
THEOREM DownloadsAreExact == Spec => []DownloadIsExact
<1>1. ASSUME Basic, status = "done", command.mode \in SendModes, command # None
      PROVE  got = Units
  <2>1. Downloading /\ block \in Nat /\ got \in Seq(Unit)
    BY <1>1 DEF Downloading, Basic, Types, HostTypes
  <2>2. Len(Units) \in Nat /\ Units \in Seq(Unit)
    BY <1>1, UnitsAreSome DEF Basic
  <2>3. block > Len(Units) /\ block >= 1
    BY <1>1, <2>1, <2>2 DEF Basic, Delivered
  <2>4. Len(got) = Len(Units) /\ \A i \in 1 .. Len(got) : got[i] = Units[i]
    BY <1>1, <2>1, <2>2, <2>3 DEF Basic, Delivered
  <2> QED
    BY <2>1, <2>2, <2>4, SeqEqual
<1>2. Basic /\ status = "done" => command # None
  BY DEF Basic, Places
<1>3. Basic => DownloadIsExact
  BY <1>1, <1>2 DEF DownloadIsExact, Units
<1> QED
  BY <1>3, BasicAlways, PTL
-----------------------------------------------------------------------------
\* What an upload leaves, as long as a damaged frame does not read as an end of
\* file.  The file is cut into blocks, the last one padded.
LEMMA LastBlockFacts ==
  ASSUME NEW c \in Commands, command = c
  PROVE  /\ LastBlock \in Nat \ {0}
         /\ command.len <= LastBlock * command.block_len
         /\ (LastBlock - 1) * command.block_len < command.len
<1> DEFINE L == command.block_len
           a == command.len + L - 1
<1>1. command.len \in Nat \ {0} /\ L \in Nat \ {0}
  BY CommandFacts
<1>2. a \in Nat /\ a >= L
  BY <1>1
<1>3. a = L * LastBlock + (a % L) /\ a % L \in 0 .. L - 1 /\ LastBlock \in Nat
  <2>1. LastBlock = a \div L
    BY DEF LastBlock
  <2> HIDE DEF a, L
  <2> QED
    BY <1>1, <1>2, <2>1, Division
<1> HIDE DEF L
<1>4. LastBlock # 0
  <2>1. SUFFICES ASSUME LastBlock = 0 PROVE FALSE
    OBVIOUS
  <2>2. L * 0 = 0
    BY <1>1
  <2>3. a < L
    BY <1>1, <1>2, <1>3, <2>1, <2>2
  <2> QED
    BY <1>1, <1>2, <2>3
<1>5. L * LastBlock = LastBlock * L /\ (LastBlock - 1) * L = LastBlock * L - L
      /\ LastBlock * L \in Nat
  BY <1>1, <1>3
<1> HIDE DEF a
<1>6. a = command.len + L - 1
  BY DEF a
<1>7. command.len <= LastBlock * L /\ (LastBlock - 1) * L < command.len
  BY <1>1, <1>3, <1>5, <1>6
<1> QED
  BY <1>3, <1>4, <1>7 DEF L

LEMMA UploadsApart ==
  ASSUME NEW k \in Nat \ {0}, NEW m
  PROVE  /\ m \in Upload(k) => m \notin Upload(k - 1) /\ m.num = k % FrameMod
         /\ m \in Upload(k - 1) => m.num # k % FrameMod
<1>1. PICK j \in Nat : k = j + 1 /\ k - 1 = j
  OBVIOUS
<1>2. k % FrameMod # (k - 1) % FrameMod
  <2>0. FrameMod \in Nat \ {0} /\ FrameMod > 1
    BY Sizes
  <2>1. (j + 1) % FrameMod # j % FrameMod
    BY <2>0, Multiples
  <2> QED
    BY <1>1, <2>1
<1>3. HostFrame(k).num = k % FrameMod /\ HostFrame(k - 1).num = (k - 1) % FrameMod
  BY DEF HostFrame, Frame
<1> QED
  BY <1>2, <1>3 DEF Upload

LEMMA HostFramesAreSent ==
  ASSUME command \in Commands, commands \in Nat, NEW k \in Nat \ {0}
  PROVE  HostFrame(k) \in Upload(k) /\ HostFrame(k) \in Framed
<1>1. HostFrame(k) \in Message /\ HostFrame(k).type = "frame"
  BY HostFrames
<1> QED
  BY <1>1, Kinds DEF Upload

\* A page of the file, and the pages behind its end.
LEMMA GoalPages ==
  ASSUME command \in Commands, command.mode \in {"RESQ", "RESB"}
  PROVE  \A p \in 1 .. Pages :
           /\ Goal[p] = [i \in 1 .. Buffer |-> FileUnit((p - 1) * Buffer + i)]
           /\ (p - 1) * Buffer >= command.len => Goal[p] = Fill(Pad)
<1>1. Goal = [p \in 1 .. Pages |-> [i \in 1 .. Buffer |-> FileUnit((p - 1) * Buffer + i)]]
  BY DEF Goal
<1>2. ASSUME NEW p \in 1 .. Pages
      PROVE  /\ Goal[p] = [i \in 1 .. Buffer |-> FileUnit((p - 1) * Buffer + i)]
             /\ (p - 1) * Buffer >= command.len => Goal[p] = Fill(Pad)
  <2>1. Goal[p] = [i \in 1 .. Buffer |-> FileUnit((p - 1) * Buffer + i)]
    BY <1>1
  <2>2. ASSUME (p - 1) * Buffer >= command.len PROVE Goal[p] = Fill(Pad)
    <3>1. command.len \in Nat /\ (p - 1) * Buffer \in Nat
      BY CommandFacts, Sizes
    <3>2. \A i \in 1 .. Buffer : FileUnit((p - 1) * Buffer + i) = Pad
      BY <2>2, <3>1, Sizes DEF FileUnit
    <3> QED
      BY <2>1, <3>2 DEF Fill
  <2> QED
    BY <2>1, <2>2
<1> QED
  BY <1>2
-----------------------------------------------------------------------------
\* Steps that do not disturb an upload.
LEMMA NoUpload ==
  ASSUME Basic', ~UploadRuns', Uploading' => status' # "done"
  PROVE  Sent'
<1>1. Frames' /\ Buffered'
  BY DEF Frames, Buffered
<1>2. Acknowledged'
  BY DEF Basic, Places, Acknowledged, UploadRuns
<1>3. PagesInOrder'
  BY DEF Basic, Clean, PagesInOrder
<1> QED
  BY <1>1, <1>2, <1>3 DEF Sent

LEMMA NoUploadStays ==
  ASSUME Inv, Basic', ~UploadRuns, UNCHANGED <<block, status, command>>
  PROVE  Sent'
<1>1. ~UploadRuns' /\ (Uploading' <=> Uploading)
  BY DEF UploadRuns, Uploading
<1>2. Uploading => status # "done"
  BY DEF Inv, Basic, Types, HostTypes, Sent, Acknowledged, UploadRuns
<1> QED
  BY <1>1, <1>2, NoUpload

LEMMA FramesStay ==
  ASSUME Frames, UNCHANGED <<hpc, command, block, commands, session, frame>>,
         toDevice # <<>> \/ toDevice' = <<>>,
         \A j, k : Has(toDevice', Framed \ (Upload(j) \cup Upload(k))) =>
                     Has(toDevice, Framed \ (Upload(j) \cup Upload(k))),
         \A k : Has(toDevice', Framed \ Upload(k)) => Has(toDevice, Framed \ Upload(k)),
         \A j, k : Follows(toDevice', Upload(j), Upload(k)) =>
                     Follows(toDevice, Upload(j), Upload(k)),
         Has(toDevice', Eofs) => Has(toDevice, Eofs),
         Follows(toDevice', Eofs, Message) => Follows(toDevice, Eofs, Message)
  PROVE  Frames'
<1>1. /\ \A k : Upload(k)' = Upload(k)
      /\ LastBlock' = LastBlock /\ (UploadRuns' <=> UploadRuns)
  BY SameFile DEF UploadRuns
<1>2. SUFFICES ASSUME UploadRuns PROVE Frames'
  BY <1>1 DEF Frames
<1>3. UNCHANGED <<LastBlock, Upload(block - 1), Upload(block)>>
  BY <1>1
<1> QED
  BY <1>1, <1>2, <1>3 DEF Frames

\* An upload that is over for the device: it has reset.
LEMMA Silent ==
  ASSUME Inv, Basic', session' = "over", toDevice' = <<>>, UNCHANGED <<host, commands>>,
         Has(toHost', Acks) => Has(toHost, Acks),
         Follows(toHost', Acks, Acks) => Follows(toHost, Acks, Acks),
         toDevice # <<>> \/ UNCHANGED store
  PROVE  Sent'
<1>1. /\ UNCHANGED <<hpc, command, block, status, commands>>
      /\ \A k : Upload(k)' = Upload(k)
      /\ LastBlock' = LastBlock /\ Goal' = Goal /\ (Fits' <=> Fits)
      /\ (Uploading' <=> Uploading) /\ (UploadRuns' <=> UploadRuns)
  BY SameFile DEF host, UploadRuns
<1>2. \A S, T : ~Has(<<>>, S) /\ ~Follows(<<>>, S, T)
  BY HasFew
<1>3. Frames'
  BY <1>1, <1>2 DEF Inv, Sent, Frames
<1>4. Acknowledged'
  BY <1>1 DEF Inv, Sent, Acknowledged, Stored
<1>5. Buffered' /\ PagesInOrder'
  BY DEF Buffered, PagesInOrder
<1> QED
  BY <1>3, <1>4, <1>5 DEF Sent

\* What is stored and what is in the buffer stay as they are.
LEMMA BufferStays ==
  ASSUME Inv, Basic', UploadRuns,
         UNCHANGED <<session, mode, frame, offset, flash_offset, bank, store, command, commands>>,
         \A i \in 1 .. offset : data'[i] = data[i]
  PROVE  Buffered' /\ PagesInOrder'
<1>1. /\ \A i : FileUnit(i)' = FileUnit(i)
      /\ Goal' = Goal /\ (Uploading' <=> Uploading)
  BY SameFile
<1>2. Received' = Received /\ Written' = Written /\ Size' = Size
  BY DEF Received, Written, Size
<1>3. Buffered'
  BY <1>1, <1>2 DEF Inv, Sent, Buffered
<1>4. PagesInOrder'
  BY <1>1 DEF Inv, Sent, PagesInOrder
<1> QED
  BY <1>3, <1>4
-----------------------------------------------------------------------------
\* The host's side of an upload.
LEMMA FollowsHas ==
  ASSUME NEW q, NEW S, NEW T, Follows(q, S, T)
  PROVE  Has(q, S) /\ Has(q, T)
  BY DEF Has, Follows

LEMMA HostSaysOnce ==
  ASSUME Basic, session # "over", NEW x \in Message, HostSends(<<x>>) \/ HostSends(<<x, x>>)
  PROVE  /\ \A S : Has(toDevice', S) => Has(toDevice, S) \/ x \in S
         /\ \A S, T : x \notin T => (Follows(toDevice', S, T) => Follows(toDevice, S, T))
         /\ \A S, T : HostSends(<<x>>) /\ ~Has(toDevice, S) => ~Follows(toDevice', S, T)
<1>1. toDevice \in Seq(Message)
  BY DEF Basic, Types, QueueTypes
<1>2. \A S, T : Follows(toDevice, S, T) => Has(toDevice, S)
  BY FollowsHas
<1>3. CASE HostSends(<<x>>)
  <2>1. toDevice' = toDevice \o <<x>>
    BY <1>3 DEF HostSends
  <2>2. /\ \A S : Has(toDevice', S) => Has(toDevice, S) \/ x \in S
        /\ \A S, T : Follows(toDevice', S, T) =>
                       Follows(toDevice, S, T) \/ (Has(toDevice, S) /\ x \in T)
    BY <1>1, <2>1, Said
  <2> QED
    BY <1>2, <2>2
<1>4. CASE HostSends(<<x, x>>)
  <2>1. toDevice' = toDevice \o <<x, x>>
    BY <1>4 DEF HostSends
  <2>2. /\ \A S : Has(toDevice', S) => Has(toDevice, S) \/ x \in S
        /\ \A S, T : Follows(toDevice', S, T) =>
                       \/ Follows(toDevice, S, T) \/ (x \in S /\ x \in T)
                       \/ (Has(toDevice, S) /\ x \in T)
    BY <1>1, <2>1, SaidTwo
  <2>3. ASSUME HostSends(<<x>>) PROVE FALSE
    <3>1. toDevice \o <<x>> = toDevice \o <<x, x>>
      BY <2>1, <2>3 DEF HostSends
    <3>2. Len(toDevice \o <<x>>) = Len(toDevice) + 1 /\ Len(toDevice \o <<x, x>>) = Len(toDevice) + 2
      BY <1>1
    <3> QED
      BY <1>1, <3>1, <3>2
  <2> QED
    BY <2>2, <2>3
<1> QED
  BY <1>3, <1>4

\* The first frame.
LEMMA FirstFrameIsSent ==
  ASSUME Inv, Basic', toHost # <<>>, toHost' = Tail(toHost), UNCHANGED <<device, store, counts>>,
         hpc = "start", HostWaits("answer"), HostSends(<<HostFrame(1)>>), block' = 1
  PROVE  Sent'
<1> DEFINE x == HostFrame(1)
<1>1. /\ Uploading /\ block = 0 /\ toDevice = <<>> /\ status = "busy" /\ toHost \in Seq(Message)
      /\ session # "over" => frame = 1 /\ offset = 0 /\ flash_offset = 0
      /\ ~Has(toHost, Acks) /\ command # None /\ command \in Commands /\ commands \in Nat
  <2>1. /\ Uploading /\ block = 0 /\ toDevice = <<>> /\ status = "busy" /\ toHost \in Seq(Message)
    BY DEF Inv, Basic, Places, Types, QueueTypes
  <2>2. command # None /\ command \in Commands /\ commands \in Nat /\ ~UploadRuns
    BY <2>1, Sizes DEF Uploading, UploadRuns, Inv, Basic, Types, HostTypes, CountTypes
  <2>3. ~Has(toHost, Framed \cup Acks \cup Eofs)
    BY <2>1, <2>2 DEF Inv, Basic, Clean
  <2>4. ~Has(toHost, Acks)
    BY <2>3 DEF Has
  <2> QED
    BY <2>1, <2>2, <2>4 DEF Inv, Basic, Clean
<1>2. /\ UNCHANGED <<session, mode, frame, offset, data, flash_offset, bank, commands, command, status>>
      /\ hpc' = "answer"
  BY DEF device, counts, HostWaits
<1>3. /\ \A k : Upload(k)' = Upload(k)
      /\ LastBlock' = LastBlock /\ (Uploading' <=> Uploading) /\ LastBlock \in Nat \ {0}
  BY <1>1, <1>2, SameFile, LastBlockFacts
<1>4. x \in Message /\ x \in Upload(1) /\ x \in Framed /\ x \notin Eofs
  <2>1. x \in Message /\ x.type = "frame"
    BY <1>1, HostFrames
  <2> QED
    BY <1>1, <2>1, Kinds, HostFramesAreSent
<1> HIDE DEF x
<1>5. /\ \A S : Has(toDevice', S) => x \in S
      /\ \A S, T : ~Follows(toDevice', S, T)
  <2>1. toDevice' = <<>> \/ toDevice' = <<x>>
    <3>1. <<x>> \in Seq(Message)
      BY <1>4
    <3>2. <<>> \o <<x>> = <<x>>
      BY <3>1, ConcatEmptySeq
    <3> QED
      BY <1>1, <3>2 DEF HostSends, x
  <2>2. \A S, T : /\ ~Has(<<>>, S) /\ ~Follows(<<>>, S, T)
                  /\ \A y : (Has(<<y>>, S) => y \in S) /\ ~Follows(<<y>>, S, T)
    BY HasFew
  <2> QED
    BY <2>1, <2>2
<1>6. Frames'
  <2>2. Upload(block)' = Upload(1)
    BY <1>3
  <2>3. /\ block' <= LastBlock' /\ ~(frame' = block' + 1 /\ session' = "recv")
        /\ session' = "recv" => frame' = block'
    BY <1>1, <1>2, <1>3
  <2>4. ~Has(toDevice', (Framed \ (Upload(block - 1) \cup Upload(block)))')
    BY <1>4, <1>5, <2>2
  <2> QED
    BY <1>2, <1>4, <1>5, <2>3, <2>4 DEF Frames
<1>7. Acknowledged'
  <2>1. ~Has(toHost', Acks)
    BY <1>1, Heard
  <2>2. ~Follows(toHost', Acks, Acks)
    BY <2>1, FollowsHas
  <2> QED
    BY <1>1, <1>2, <2>1, <2>2 DEF Acknowledged
<1>8. Buffered'
  <2>1. SUFFICES ASSUME session = "recv" PROVE Buffered'
    BY <1>2 DEF Buffered
  <2>2. Received' = 0 /\ Written' = 0 /\ offset' = 0 /\ flash_offset' = 0
    <3>1. command.block_len \in Nat
      BY <1>1, CommandFacts
    <3> QED
      BY <1>1, <1>2, <2>1, <3>1 DEF Received, Written
  <2>3. Size' \in Nat \ {0}
    BY Sizes DEF Size
  <2>4. Written' * Buffer + offset' = 0
    BY <2>2, Sizes
  <2> QED
    BY <2>2, <2>3, <2>4 DEF Buffered
<1>9. PagesInOrder'
  BY <1>1, <1>2 DEF PagesInOrder
<1> QED
  BY <1>6, <1>7, <1>8, <1>9 DEF Sent

LEMMA HostStartKeepsSent ==
  ASSUME Inv, Basic', toHost # <<>>, toHost' = Tail(toHost), UNCHANGED <<device, store, counts>>,
         HostStart(Head(toHost))
  PROVE  Sent'
<1>1. hpc = "start" /\ block = 0 /\ ~UploadRuns
  BY DEF HostStart, Inv, Basic, Places, UploadRuns
<1>2. CASE HostWaits("answer") /\ HostSends(<<HostFrame(1)>>) /\ block' = 1
  BY <1>1, <1>2, FirstFrameIsSent
<1>3. CASE Finish("failed")
  <2>1. block' = block /\ command' = command /\ status' = "failed"
    BY <1>3 DEF Finish
  <2>2. ~UploadRuns'
    BY <1>1, <2>1 DEF UploadRuns
  <2> QED
    BY <2>1, <2>2, NoUpload
<1>4. CASE UNCHANGED host
  BY <1>1, <1>4, NoUploadStays DEF host
<1> QED
  BY <1>2, <1>3, <1>4 DEF HostStart
\* The frames that follow, and the end of the file.
LEMMA Answering ==
  ASSUME Inv, hpc = "answer", toHost # <<>>
  PROVE  /\ UploadRuns /\ Uploading /\ status = "busy" /\ toHost \in Seq(Message)
         /\ command \in Commands /\ commands \in Nat
         /\ block \in Nat \ {0} /\ block <= LastBlock /\ LastBlock \in Nat \ {0}
         /\ session \in {"recv", "over"} /\ (session = "over" => toDevice = <<>>)
         /\ session = "recv" => frame \in {block, block + 1}
         /\ ~Has(toDevice, Eofs)
         /\ session = "recv" /\ Has(toHost, Acks) => frame = block + 1
         /\ Has(Tail(toHost), Acks) => Has(toHost, Acks) /\ Head(toHost) \notin Acks
         /\ ~Follows(Tail(toHost), Acks, Acks)
<1>1. /\ Uploading /\ UploadRuns /\ status = "busy" /\ block \in Nat \ {0}
      /\ toHost \in Seq(Message)
  BY DEF Inv, Basic, Places, Types, HostTypes, QueueTypes, UploadRuns
<1>2. command \in Commands /\ commands \in Nat
  BY <1>1, Sizes DEF Uploading, Inv, Basic, Types, HostTypes, CountTypes
<1>3. session \in {"recv", "over"}
  BY <1>1, Separate DEF Inv, Basic, Types, DeviceTypes, Session
<1>4. /\ Has(Tail(toHost), Acks) => Has(toHost, Acks)
      /\ Follows(Tail(toHost), Acks, Acks) => Follows(toHost, Acks, Acks)
      /\ Head(toHost) \in Acks /\ Has(Tail(toHost), Acks) => Follows(toHost, Acks, Acks)
  BY <1>1, Heard
<1>5. ~Follows(toHost, Acks, Acks)
  BY <1>1 DEF Inv, Sent, Acknowledged
<1> QED
  BY <1>1, <1>2, <1>3, <1>4, <1>5, LastBlockFacts
    DEF Inv, Basic, Sent, Frames, Acknowledged, Places

LEMMA NextFrameIsSent ==
  ASSUME Inv, Basic', toHost # <<>>, toHost' = Tail(toHost), UNCHANGED <<device, store, counts>>,
         hpc = "answer", Head(toHost) \in Acks, block < LastBlock,
         HostWaits("answer"), HostSends(<<HostFrame(block + 1)>>), block' = block + 1
  PROVE  Frames'
<1> DEFINE x == HostFrame(block + 1)
<1>1. /\ UploadRuns /\ Uploading /\ toHost \in Seq(Message)
      /\ command \in Commands /\ commands \in Nat /\ block \in Nat \ {0} /\ LastBlock \in Nat \ {0}
      /\ session \in {"recv", "over"} /\ (session = "over" => toDevice = <<>>)
      /\ ~Has(toDevice, Eofs) /\ Has(toHost, Acks)
      /\ session = "recv" => frame = block + 1
  BY Answering, Heard
<1>2. UNCHANGED <<session, frame, command, commands>> /\ hpc' = "answer"
  BY DEF device, counts, HostWaits
<1>3. \A k : Upload(k)' = Upload(k) /\ LastBlock' = LastBlock
  BY <1>2, SameFile
<1>4. x \in Message /\ x \in Upload(block + 1) /\ x \notin Eofs
  <2>1. block + 1 \in Nat \ {0}
    BY <1>1
  <2>2. x \in Message /\ x.type = "frame"
    BY <1>1, <2>1, HostFrames
  <2> QED
    BY <1>1, <2>1, <2>2, Kinds, HostFramesAreSent
<1>5. Upload(block)' = Upload(block + 1) /\ Upload(block - 1)' = Upload(block)
  <2>1. block' - 1 = block
    BY <1>1
  <2> QED
    BY <1>3, <2>1
<1>6. CASE session = "over"
  <2>1. toDevice' = <<>>
    BY <1>6 DEF HostSends
  <2>2. \A S, T : ~Has(<<>>, S) /\ ~Follows(<<>>, S, T)
    BY HasFew
  <2> QED
    BY <1>1, <1>2, <1>3, <1>6, <2>1, <2>2 DEF Frames
<1>7. CASE session = "recv"
  <2> HIDE DEF x
  <2>1. HostSends(<<x>>)
    BY DEF x
  <2>2. /\ \A S : Has(toDevice', S) => Has(toDevice, S) \/ x \in S
        /\ \A S, T : x \notin T => (Follows(toDevice', S, T) => Follows(toDevice, S, T))
        /\ \A S, T : ~Has(toDevice, S) => ~Follows(toDevice', S, T)
    BY <1>4, <1>7, <2>1, HostSaysOnce DEF Inv
  <2>3. ~Has(toDevice, Framed \ Upload(block))
    BY <1>1, <1>7 DEF Inv, Sent, Frames
  <2>4. ~Has(toDevice', Framed \ (Upload(block) \cup Upload(block + 1)))
    <3>1. ~Has(toDevice, Framed \ (Upload(block) \cup Upload(block + 1)))
      BY <2>3, HasLess
    <3> QED
      BY <1>4, <2>2, <3>1
  <2>5. ~Follows(toDevice', Upload(block + 1), Upload(block))
    <3>1. \A m : m \in Upload(block + 1) => m \in Framed \ Upload(block)
      <4>1. block + 1 \in Nat \ {0} /\ (block + 1) - 1 = block
        BY <1>1
      <4>2. \A m : m \in Upload(block + 1) => m \notin Upload((block + 1) - 1)
        BY <4>1, UploadsApart
      <4> QED
        BY <4>1, <4>2 DEF Upload
    <3>2. ~Has(toDevice, Upload(block + 1))
      BY <2>3, <3>1, HasLess
    <3> QED
      BY <2>2, <3>2
  <2>6. ~Has(toDevice', Eofs) /\ ~Follows(toDevice', Eofs, Message)
    BY <1>1, <1>4, <2>2
  <2>7. /\ block' <= LastBlock' /\ hpc' = "answer" /\ frame' = block' /\ frame' # block' + 1
    BY <1>1, <1>2, <1>3, <1>7
  <2>8. /\ ~Has(toDevice', (Framed \ (Upload(block - 1) \cup Upload(block)))')
        /\ ~Follows(toDevice', Upload(block)', Upload(block - 1)')
    BY <1>5, <2>4, <2>5
  <2> QED
    BY <2>6, <2>7, <2>8 DEF Frames
<1> QED
  BY <1>1, <1>6, <1>7

LEMMA EndIsSent ==
  ASSUME Inv, Basic', toHost # <<>>, toHost' = Tail(toHost), UNCHANGED <<device, store, counts>>,
         hpc = "answer", Head(toHost) \in Acks, block = LastBlock,
         HostWaits("finish"), HostSends(<<Msg("eof")>>), UNCHANGED block
  PROVE  Frames'
<1> DEFINE x == Msg("eof")
<1>1. /\ UploadRuns /\ Uploading /\ toHost \in Seq(Message)
      /\ command \in Commands /\ commands \in Nat /\ block \in Nat \ {0} /\ LastBlock \in Nat \ {0}
      /\ session \in {"recv", "over"} /\ (session = "over" => toDevice = <<>>)
      /\ ~Has(toDevice, Eofs) /\ Has(toHost, Acks)
      /\ session = "recv" => frame = block + 1
  BY Answering, Heard
<1>2. UNCHANGED <<session, frame, command, commands>> /\ hpc' = "finish"
  BY DEF device, counts, HostWaits
<1>3. /\ \A k : Upload(k)' = Upload(k)
      /\ LastBlock' = LastBlock
  BY <1>2, SameFile
<1>4. x \in Message /\ x \notin Framed
  <2>1. x \in Message /\ x.type = "eof"
    BY Signals
  <2> QED
    BY <2>1, Kinds
<1>5. Upload(block)' = Upload(block) /\ Upload(block - 1)' = Upload(block - 1)
  BY <1>3
<1>6. CASE session = "over"
  <2>1. toDevice' = <<>>
    BY <1>6 DEF HostSends
  <2>2. \A S, T : ~Has(<<>>, S) /\ ~Follows(<<>>, S, T)
    BY HasFew
  <2>3. /\ session' # "recv" /\ block' = LastBlock' /\ block' <= LastBlock' /\ hpc' = "finish"
    BY <1>1, <1>2, <1>3, <1>6
  <2> HIDE DEF x
  <2> QED
    BY <2>1, <2>2, <2>3 DEF Frames
<1>7. CASE session = "recv"
  <2> HIDE DEF x
  <2>1. HostSends(<<x>>)
    BY DEF x
  <2>2. /\ \A S : Has(toDevice', S) => Has(toDevice, S) \/ x \in S
        /\ \A S, T : x \notin T => (Follows(toDevice', S, T) => Follows(toDevice, S, T))
        /\ \A S, T : ~Has(toDevice, S) => ~Follows(toDevice', S, T)
    BY <1>4, <1>7, <2>1, HostSaysOnce DEF Inv
  <2>3. /\ ~Has(toDevice, Framed \ Upload(block))
        /\ ~Has(toDevice, Framed \ (Upload(block - 1) \cup Upload(block)))
        /\ ~Follows(toDevice, Upload(block), Upload(block - 1))
    BY <1>1, <1>7 DEF Inv, Sent, Frames
  <2>4. /\ ~Has(toDevice', Framed \ Upload(block))
        /\ ~Has(toDevice', Framed \ (Upload(block - 1) \cup Upload(block)))
        /\ ~Follows(toDevice', Upload(block), Upload(block - 1))
    <3>1. x \notin Upload(block - 1)
      BY <1>4 DEF Upload
    <3> QED
      BY <1>4, <2>2, <2>3, <3>1
  <2>5. ~Follows(toDevice', Eofs, Message)
    BY <1>1, <2>2
  <2>6. /\ block' = LastBlock' /\ block' <= LastBlock' /\ hpc' = "finish"
        /\ frame' = block' + 1
    BY <1>1, <1>2, <1>3, <1>7
  <2>7. /\ ~Has(toDevice', (Framed \ (Upload(block - 1) \cup Upload(block)))')
        /\ ~Has(toDevice', (Framed \ Upload(block))')
        /\ ~Follows(toDevice', Upload(block)', Upload(block - 1)')
    BY <1>5, <2>4
  <2> QED
    BY <2>5, <2>6, <2>7 DEF Frames
<1> QED
  BY <1>1, <1>6, <1>7
LEMMA FrameIsRepeated ==
  ASSUME Inv, Basic', toHost # <<>>, toHost' = Tail(toHost), UNCHANGED <<device, store, counts>>,
         hpc = "answer", hpc' \in {"answer", "idle"}, UNCHANGED <<command, block>>,
         \/ HostSends(<<HostFrame(block)>>) \/ HostSends(<<HostFrame(block), HostFrame(block)>>)
         \/ UNCHANGED toDevice
  PROVE  Frames'
<1> DEFINE x == HostFrame(block)
<1>1. /\ UploadRuns /\ Uploading
      /\ command \in Commands /\ commands \in Nat /\ block \in Nat \ {0} /\ block <= LastBlock
      /\ session \in {"recv", "over"} /\ (session = "over" => toDevice = <<>>)
      /\ ~Has(toDevice, Eofs)
      /\ session = "recv" => frame \in {block, block + 1}
  BY Answering
<1>2. UNCHANGED <<session, frame, command, commands, block>>
  BY DEF device, counts
<1>3. /\ \A k : Upload(k)' = Upload(k)
      /\ LastBlock' = LastBlock
  BY <1>2, SameFile
<1>4. x \in Message /\ x \in Upload(block) /\ x \in Framed /\ x \notin Eofs /\ x \notin Upload(block - 1)
  <2>1. x \in Message /\ x.type = "frame"
    BY <1>1, HostFrames
  <2>2. x \in Upload(block) /\ x \notin Upload(block - 1)
    BY <1>1, HostFramesAreSent, UploadsApart
  <2> QED
    BY <1>1, <2>1, <2>2, Kinds
<1>5. Upload(block)' = Upload(block) /\ Upload(block - 1)' = Upload(block - 1)
  BY <1>2, <1>3
<1>6. CASE session = "over"
  <2>1. toDevice' = <<>>
    BY <1>1, <1>6 DEF HostSends
  <2>2. \A S, T : ~Has(<<>>, S) /\ ~Follows(<<>>, S, T)
    BY HasFew
  <2> QED
    BY <1>1, <1>2, <1>3, <1>6, <2>1, <2>2 DEF Frames
<1>7. CASE session = "recv"
  <2>1. /\ \A S : Has(toDevice', S) => Has(toDevice, S) \/ x \in S
        /\ \A S, T : x \notin T => (Follows(toDevice', S, T) => Follows(toDevice, S, T))
    <3>1. CASE HostSends(<<x>>) \/ HostSends(<<x, x>>)
      <4> HIDE DEF x
      <4> QED
        BY <1>4, <1>7, <3>1, HostSaysOnce DEF Inv
    <3>2. CASE UNCHANGED toDevice
      BY <3>2
    <3> QED
      BY <3>1, <3>2
  <2> HIDE DEF x
  <2>2. /\ frame = block + 1 => ~Has(toDevice, Framed \ Upload(block))
        /\ ~Has(toDevice, Framed \ (Upload(block - 1) \cup Upload(block)))
        /\ ~Follows(toDevice, Upload(block), Upload(block - 1))
    BY <1>1, <1>7 DEF Inv, Sent, Frames
  <2>3. /\ frame = block + 1 => ~Has(toDevice', Framed \ Upload(block))
        /\ ~Has(toDevice', Framed \ (Upload(block - 1) \cup Upload(block)))
        /\ ~Follows(toDevice', Upload(block), Upload(block - 1))
    BY <1>4, <2>1, <2>2
  <2>4. ~Has(toDevice', Eofs) /\ ~Follows(toDevice', Eofs, Message)
    <3>1. ~Has(toDevice', Eofs)
      BY <1>1, <1>4, <2>1
    <3> QED
      BY <3>1, FollowsHas
  <2>5. /\ block' <= LastBlock' /\ hpc' # "finish" /\ frame' \in {block', block' + 1}
    BY <1>1, <1>2, <1>3, <1>7
  <2>6. /\ ~Has(toDevice', (Framed \ (Upload(block - 1) \cup Upload(block)))')
        /\ frame' = block' + 1 => ~Has(toDevice', (Framed \ Upload(block))')
        /\ ~Follows(toDevice', Upload(block)', Upload(block - 1)')
    BY <1>2, <1>5, <2>3
  <2> QED
    BY <2>4, <2>5, <2>6 DEF Frames
<1> QED
  BY <1>1, <1>6, <1>7

LEMMA HostAnswerKeepsSent ==
  ASSUME Inv, Basic', toHost # <<>>, toHost' = Tail(toHost), UNCHANGED <<device, store, counts>>,
         HostAnswer(Head(toHost))
  PROVE  Sent'
<1> DEFINE m == Head(toHost)
<1>1. hpc = "answer"
  BY DEF HostAnswer
<1>2. /\ UploadRuns /\ Uploading /\ status = "busy" /\ toHost \in Seq(Message)
      /\ session = "recv" /\ Has(toHost, Acks) => frame = block + 1
      /\ Has(Tail(toHost), Acks) => Has(toHost, Acks) /\ m \notin Acks
      /\ ~Follows(Tail(toHost), Acks, Acks)
  BY <1>1, Answering
<1>3. m \in Acks <=> m.type = "ack"
  <2>1. m \in Message
    BY <1>2, Heard
  <2> QED
    BY <2>1, Kinds
<1>4. /\ UNCHANGED <<session, frame, command, commands, mode, offset, data, flash_offset, bank, store>>
      /\ hpc' = "answer" => status' = status
      /\ hpc' = "finish" => m \in Acks /\ status' = status
      /\ hpc' = "idle" => status' = "failed"
      /\ hpc' \in {"answer", "finish", "idle"}
      /\ hpc' = "answer" => m \in Acks \/ block' = block
      /\ (Uploading' <=> Uploading)
  BY <1>1, <1>3 DEF HostAnswer, device, counts, HostWaits, Finish, Uploading
<1>5. Frames'
  <2>1. CASE /\ m.type = "ack" /\ block < LastBlock
             /\ HostWaits("answer") /\ HostSends(<<HostFrame(block + 1)>>) /\ block' = block + 1
    BY <1>1, <1>3, <2>1, NextFrameIsSent
  <2>2. CASE /\ m.type = "ack" /\ block = LastBlock
             /\ HostWaits("finish") /\ HostSends(<<Msg("eof")>>) /\ UNCHANGED block
    BY <1>1, <1>3, <2>2, EndIsSent
  <2>3. CASE m.type # "ack"
    <3>1. /\ hpc' \in {"answer", "idle"} /\ UNCHANGED <<command, block>>
          /\ \/ HostSends(<<HostFrame(block)>>) \/ HostSends(<<HostFrame(block), HostFrame(block)>>)
             \/ UNCHANGED toDevice
      BY <1>1, <2>3 DEF HostAnswer, Finish
    <3> QED
      BY <1>1, <3>1, FrameIsRepeated
  <2> QED
    BY <2>1, <2>2, <2>3 DEF HostAnswer
<1>6. Acknowledged'
  BY <1>2, <1>4 DEF Acknowledged
<1>7. Buffered' /\ PagesInOrder'
  BY <1>2, <1>4, BufferStays
<1> QED
  BY <1>5, <1>6, <1>7 DEF Sent
LEMMA HostFinishKeepsSent ==
  ASSUME Inv, Basic', toHost # <<>>, toHost' = Tail(toHost), UNCHANGED <<device, store, counts>>,
         HostFinish(Head(toHost))
  PROVE  Sent'
<1> DEFINE m == Head(toHost)
<1>1. /\ hpc = "finish" /\ hpc' = "idle" /\ Uploading /\ UploadRuns /\ toHost \in Seq(Message)
      /\ status' = IF m.type = "ack" THEN "done" ELSE "failed"
      /\ UNCHANGED <<toDevice, block, command, commands, session, mode, frame, offset, data,
                     flash_offset, bank, store>>
  BY DEF HostFinish, Finish, device, counts, Inv, Basic, Places, Types, HostTypes, QueueTypes,
         UploadRuns
<1>2. /\ \A k : Upload(k)' = Upload(k)
      /\ LastBlock' = LastBlock /\ Goal' = Goal /\ (Fits' <=> Fits)
      /\ (UploadRuns' <=> UploadRuns) /\ (Uploading' <=> Uploading)
  BY <1>1, SameFile DEF UploadRuns
<1>3. UNCHANGED <<Upload(block - 1), Upload(block)>>
  BY <1>1, <1>2
<1>4. Frames'
  BY <1>1, <1>2, <1>3 DEF Inv, Sent, Frames
<1>5. Acknowledged'
  <2>1. m.type = "ack" => Has(toHost, Acks)
    BY <1>1, Heard, Kinds
  <2>2. status' = "done" => block >= 1 /\ toDevice = <<>> /\ Stored
    BY <1>1, <2>1 DEF Inv, Sent, Acknowledged
  <2> QED
    BY <1>1, <1>2, <2>2 DEF Acknowledged, Stored
<1>6. Buffered' /\ PagesInOrder'
  BY <1>1, BufferStays
<1> QED
  BY <1>4, <1>5, <1>6 DEF Sent

LEMMA HostHearsKeepsSent ==
  ASSUME Inv, Basic', HostHears
  PROVE  Sent'
<1> DEFINE m == Head(toHost)
<1>1. toHost # <<>> /\ toHost' = Tail(toHost) /\ UNCHANGED <<device, store, counts>>
  BY DEF HostHears
<1>2. CASE HostLine(m)
  <2>1. hpc = "line" /\ block = 0 /\ command # None
    BY <1>2 DEF HostLine, Inv, Basic, Places
  <2>2. CASE UNCHANGED <<block, status, command>>
    <3>1. ~UploadRuns
      BY <2>1 DEF UploadRuns
    <3> QED
      BY <2>2, <3>1, NoUploadStays DEF Inv
  <2>3. CASE \/ Finish("failed")
             \/ Finish("done") /\ command.mode = "REBO"
             \/ command.mode \in SendModes /\ UNCHANGED command
    <3>1. command' = command
      BY <1>2, <2>3 DEF HostLine, host, HostWaits, Finish
    <3>2. block' = block \/ command.mode \in SendModes
      BY <2>3 DEF Finish
    <3>3. ~UploadRuns'
      BY <2>1, <3>1, <3>2 DEF UploadRuns, Uploading, ReceiveModes, SendModes
    <3>4. Uploading' => status' # "done"
      BY <2>3, <3>1 DEF Finish, Uploading, ReceiveModes, SendModes
    <3> QED
      BY <3>3, <3>4, NoUpload
  <2>4. CASE command.mode \in ReceiveModes /\ HostWaits("start") /\ UNCHANGED block
    BY <2>2, <2>4 DEF HostWaits
  <2>5. CASE command.mode \in SendModes /\ HostWaits("receive")
    BY <2>3, <2>5 DEF HostWaits
  <2>6. CASE UNCHANGED host
    BY <2>2, <2>6 DEF host
  <2> QED
    BY <1>2, <2>2, <2>3, <2>4, <2>5, <2>6 DEF HostLine
<1>3. CASE HostStart(m)
  BY <1>1, <1>3, HostStartKeepsSent
<1>4. CASE HostAnswer(m)
  BY <1>1, <1>4, HostAnswerKeepsSent
<1>5. CASE HostFinish(m)
  BY <1>1, <1>5, HostFinishKeepsSent
<1>6. CASE HostReceive(m)
  <2>1. Downloading /\ command' = command
    BY <1>6 DEF HostReceive, Finish, Inv, Basic, Places
  <2>2. ~Uploading'
    BY <2>1, Separate DEF Uploading, Downloading
  <2> QED
    BY <2>2, NoUpload DEF UploadRuns
<1> QED
  BY <1>2, <1>3, <1>4, <1>5, <1>6 DEF HostHears

LEMMA HostBeginsKeepsSent ==
  ASSUME Inv, Basic', HostLineTimeout \/ Enter
  PROVE  Sent'
<1>1. block' = 0 /\ status' # "done"
  BY DEF HostLineTimeout, Finish, Enter, Inv, Basic, Places
<1> QED
  BY <1>1, NoUpload DEF UploadRuns
-----------------------------------------------------------------------------
\* What the device has got and stored.
LEMMA Receiving ==
  ASSUME Inv, UploadRuns, session = "recv"
  PROVE  /\ Uploading /\ command \in Commands /\ commands \in Nat /\ block \in Nat \ {0}
         /\ mode = command.mode /\ mode \in ReceiveModes
         /\ command.block_len \in Nat \ {0} /\ command.len \in Nat \ {0}
         /\ frame \in Nat \ {0} /\ Received \in Nat /\ offset \in 0 .. Buffer - 1
         /\ data \in Page /\ store \in Memory /\ bank \in Slots
         /\ flash_offset \in 0 .. Pages + 1 /\ Written \in Nat
         /\ mode \in {"RESQ", "RESB"} =>
              /\ bank = Target(command.mode) /\ NextPage = Written + 1
              /\ Received = Written * Buffer + offset
              /\ \A i \in 1 .. offset : data[i] = FileUnit(Written * Buffer + i)
         /\ mode \in {"OWNR", "BREQ"} =>
              /\ Received < Size => Received = offset /\ \A i \in 1 .. offset : data[i] = FileUnit(i)
              /\ Received >= Size => offset = 0 /\ store[Target(command.mode)] = Goal
              /\ flash_offset = 0
<1>1. /\ Uploading /\ block \in Nat \ {0} /\ mode = command.mode /\ mode \in ReceiveModes
      /\ frame \in Nat \ {0} /\ offset \in 0 .. Buffer - 1 /\ data \in Page /\ store \in Memory
      /\ bank \in Slots /\ flash_offset \in 0 .. Pages + 1
      /\ mode \in {"RESQ", "RESB"} => bank = Target(mode)
  BY DEF Inv, Basic, Types, DeviceTypes, StoreTypes, HostTypes, Session, UploadRuns
<1>2. command \in Commands /\ commands \in Nat
  BY <1>1, Sizes DEF Uploading, Inv, Basic, Types, HostTypes, CountTypes
<1>3. command.block_len \in Nat \ {0} /\ command.len \in Nat \ {0}
  BY <1>2, CommandFacts
<1>4. Received \in Nat
  <2>1. frame - 1 \in Nat
    BY <1>1
  <2> QED
    BY <1>3, <2>1 DEF Received
<1>5. Written \in Nat
  BY <1>1, Sizes DEF Written
<1>6. mode \in {"RESQ", "RESB"} =>
        /\ bank = Target(command.mode) /\ NextPage = Written + 1
        /\ Received = Written * Buffer + offset
        /\ \A i \in 1 .. offset : data[i] = FileUnit(Written * Buffer + i)
  <2>1. SUFFICES ASSUME mode \in {"RESQ", "RESB"}
                 PROVE  /\ bank = Target(command.mode) /\ NextPage = Written + 1
                        /\ Received = Written * Buffer + offset
                        /\ \A i \in 1 .. offset : data[i] = FileUnit(Written * Buffer + i)
    OBVIOUS
  <2>2. /\ flash_offset # 1 /\ Received = Written * Buffer + offset
        /\ \A i \in 1 .. offset : data[i] = FileUnit(Written * Buffer + i)
    BY <2>1 DEF Inv, Sent, Buffered
  <2>3. NextPage = Written + 1
    BY <1>1, Sizes DEF NextPage, Written
  <2> QED
    BY <1>1, <2>1, <2>2, <2>3
<1>7. mode \in {"OWNR", "BREQ"} =>
        /\ Received < Size => Received = offset /\ \A i \in 1 .. offset : data[i] = FileUnit(i)
        /\ Received >= Size => offset = 0 /\ store[Target(command.mode)] = Goal
        /\ flash_offset = 0
  BY DEF Inv, Sent, Buffered
<1> QED
  BY <1>1, <1>2, <1>3, <1>4, <1>5, <1>6, <1>7

LEMMA PageIsStored ==
  ASSUME Inv, UploadRuns, session = "recv", mode \in {"RESQ", "RESB"}, NEW buffer \in Page,
         NextPage <= Pages => buffer = Goal[NextPage], FlashFirmwareBlock(buffer)
  PROVE  /\ NextPage \in 1 .. Pages
         /\ store' \in Memory
         /\ \A p \in 1 .. Pages :
              store'[bank][p] = IF p < NextPage + 1 THEN Goal[p] ELSE Fill(Pad)
<1>1. /\ store \in Memory /\ bank \in Slots /\ flash_offset \in 0 .. Pages + 1
      /\ NextPage \in 1 .. Pages
      /\ store' = [store EXCEPT ![bank] = [SlotBefore EXCEPT ![NextPage] = buffer]]
  <2>1. NextPage \in Nat \ {0} /\ NextPage <= Pages
    BY SlotsBefore DEF Inv, Basic, FlashFirmwareBlock
  <2> QED
    BY <2>1, Receiving, Sizes DEF FlashFirmwareBlock
<1>2. SlotBefore \in [1 .. Pages -> Page] /\ [SlotBefore EXCEPT ![NextPage] = buffer] \in [1 .. Pages -> Page]
  BY SlotsBefore DEF Inv, Basic
<1>3. store' \in Memory
  BY <1>1, <1>2, MemoryUpdates
<1>4. store'[bank] = [SlotBefore EXCEPT ![NextPage] = buffer]
  <2>1. bank \in DOMAIN store
    BY <1>1 DEF Memory, Targets
  <2> QED
    BY <1>1, <2>1
<1>5. ASSUME NEW p \in 1 .. Pages
      PROVE  store'[bank][p] = IF p < NextPage + 1 THEN Goal[p] ELSE Fill(Pad)
  <2>1. store'[bank][p] = IF p = NextPage THEN buffer ELSE SlotBefore[p]
    BY <1>2, <1>4
  <2>2. CASE p = NextPage
    BY <1>1, <2>1, <2>2
  <2>3. CASE p # NextPage
    <3>1. CASE flash_offset = 0
      <4>1. NextPage = 1 /\ SlotBefore[p] = Fill(Pad)
        BY <3>1 DEF NextPage, SlotBefore
      <4> QED
        BY <2>1, <2>3, <4>1
    <3>2. CASE flash_offset # 0
      <4>1. NextPage = flash_offset /\ SlotBefore[p] = store[bank][p]
        BY <3>2 DEF NextPage, SlotBefore
      <4>2. store[bank][p] = IF p < flash_offset THEN Goal[p] ELSE Fill(Pad)
        BY <3>2 DEF Inv, Sent, PagesInOrder
      <4> QED
        BY <1>1, <2>1, <2>3, <4>1, <4>2
    <3> QED
      BY <3>1, <3>2
  <2> QED
    BY <2>2, <2>3
<1> QED
  BY <1>1, <1>3, <1>5

LEMMA FrameIsPlaced ==
  ASSUME Inv, UploadRuns, session = "recv", frame = block, NEW units, units = HostFrame(block).data,
         NEW base \in Nat, Received = base + offset,
         offset + command.block_len <= Buffer,
         \A i \in 1 .. offset : data[i] = FileUnit(base + i)
  PROVE  /\ Placed(units) \in Page
         /\ \A i \in 1 .. offset + command.block_len : Placed(units)[i] = FileUnit(base + i)
<1> DEFINE L == command.block_len
<1>1. /\ command \in Commands /\ commands \in Nat /\ block \in Nat \ {0} /\ L \in Nat \ {0}
      /\ offset \in Nat
  BY Receiving, Sizes
<1>2. /\ units \in Seq(Unit) /\ Len(units) = L
      /\ \A i \in 1 .. L : units[i] = FileUnit((block - 1) * L + i)
  BY <1>1, HostFrames
<1>3. (block - 1) * L = base + offset
  BY DEF Received
<1> HIDE DEF L
<1>4. ASSUME NEW i \in 1 .. offset + L
      PROVE  Placed(units)[i] = FileUnit(base + i)
  <2>1. Placed(units)[i] = IF i \in offset + 1 .. offset + L THEN units[i - offset] ELSE data[i]
    <3>1. offset + L <= Buffer
      BY DEF L
    <3>2. i \in 1 .. Buffer
      BY <1>1, <3>1, Sizes
    <3> QED
      BY <1>2, <3>2 DEF Placed
  <2>2. CASE i <= offset
    BY <1>1, <2>1, <2>2
  <2>3. CASE i > offset
    <3>1. i - offset \in 1 .. L /\ i \in offset + 1 .. offset + L
      BY <1>1, <2>3
    <3>2. units[i - offset] = FileUnit((block - 1) * L + (i - offset))
      BY <1>2, <3>1
    <3>3. (block - 1) * L + (i - offset) = base + i
      BY <1>1, <1>3
    <3> QED
      BY <2>1, <3>1, <3>2, <3>3
  <2> QED
    BY <1>1, <2>2, <2>3
<1>5. Placed(units) \in Page
  BY <1>2, PlacedTypes DEF Inv, Basic
<1> QED
  BY <1>4, <1>5 DEF L
\* A good frame of the firmware: it extends the page in the buffer, or ends it.
LEMMA FirmwareExtends ==
  ASSUME Inv, Basic', UploadRuns, session = "recv", mode \in {"RESQ", "RESB"}, frame = block,
         offset + command.block_len <= Buffer,
         NEW units, units = HostFrame(block).data,
         HandleRecvModes(offset + command.block_len, Placed(units)),
         data' = Placed(units), frame' = frame + 1,
         UNCHANGED <<session, mode, bank, host, commands>>
  PROVE  Buffered' /\ PagesInOrder'
<1> DEFINE L == command.block_len
           base == Written * Buffer
<1>1. /\ command \in Commands /\ commands \in Nat /\ L \in Nat \ {0} /\ offset \in 0 .. Buffer - 1
      /\ mode = command.mode /\ bank = Target(command.mode) /\ frame \in Nat \ {0}
      /\ NextPage = Written + 1 /\ Written \in Nat /\ Received = base + offset /\ Received \in Nat
      /\ \A i \in 1 .. offset : data[i] = FileUnit(base + i)
  BY Receiving
<1>2. base \in Nat
  BY <1>1, Sizes
<1>3. /\ Placed(units) \in Page
      /\ \A i \in 1 .. offset + L : Placed(units)[i] = FileUnit(base + i)
  BY <1>1, <1>2, FrameIsPlaced
<1>4. /\ UNCHANGED <<command, commands, mode, bank>> /\ session' = "recv"
      /\ \A i : FileUnit(i)' = FileUnit(i)
      /\ Goal' = Goal
  BY SameFile DEF host
<1>5. Received' = Received + L
  <2>1. command'.block_len = L
    BY <1>4
  <2>2. ((frame + 1) - 1) * L = (frame - 1) * L + L
    BY <1>1
  <2>3. Received' = (frame' - 1) * command'.block_len /\ Received = (frame - 1) * L
    BY DEF Received
  <2> QED
    BY <2>1, <2>2, <2>3
<1>6. CASE ~Enough(offset + L)
  <2>1. offset' = offset + L /\ UNCHANGED <<store, flash_offset>> /\ Written' = Written
    BY <1>6 DEF HandleRecvModes, Written
  <2>2. Received' = Written' * Buffer + offset' /\ flash_offset' # 1
    <3>1. flash_offset # 1
      BY DEF Inv, Sent, Buffered
    <3> QED
      BY <1>1, <1>2, <1>5, <2>1, <3>1
  <2>3. \A i \in 1 .. offset' : data'[i] = FileUnit(Written * Buffer + i)'
    BY <1>3, <1>4, <2>1
  <2>4. Buffered'
    BY <1>4, <2>2, <2>3 DEF Buffered
  <2>5. PagesInOrder'
    BY <1>4, <2>1 DEF Inv, Sent, PagesInOrder
  <2> QED
    BY <2>4, <2>5
<1>7. CASE Enough(offset + L)
  <2>1. /\ offset + L = Buffer /\ FlashFirmwareBlock(Placed(units)) /\ offset' = 0
        /\ flash_offset' = NextPage + 1
    <3>1. mode # "BREQ" /\ mode # "OWNR"
      OBVIOUS
    <3> QED
      BY <1>1, <1>7, <3>1 DEF Enough, HandleRecvModes, Store
  <2>2. NextPage <= Pages => Placed(units) = Goal[NextPage]
    <3>1. SUFFICES ASSUME NextPage <= Pages PROVE Placed(units) = Goal[NextPage]
      OBVIOUS
    <3>2. NextPage \in 1 .. Pages /\ (NextPage - 1) * Buffer = base
      BY <1>1, <3>1, Sizes
    <3>3. Goal[NextPage] = [i \in 1 .. Buffer |-> FileUnit(base + i)]
      BY <1>1, <3>2, GoalPages
    <3> QED
      BY <1>3, <2>1, <3>3 DEF Page
  <2>3. \A p \in 1 .. Pages :
          store'[bank][p] = IF p < NextPage + 1 THEN Goal[p] ELSE Fill(Pad)
    BY <1>3, <2>1, <2>2, PageIsStored
  <2>4. Written' = Written + 1
    BY <1>1, <2>1 DEF Written
  <2>5. Received' = Written' * Buffer + offset' /\ flash_offset' # 1
    <3>1. (Written + 1) * Buffer + 0 = base + Buffer
      BY <1>1, Sizes
    <3> QED
      BY <1>1, <1>2, <1>5, <2>1, <2>4, <3>1
  <2>6. \A i \in 1 .. offset' : data'[i] = FileUnit(Written * Buffer + i)'
    BY <2>1
  <2>7. Buffered'
    BY <1>4, <2>5, <2>6 DEF Buffered
  <2>8. PagesInOrder'
    BY <1>4, <2>1, <2>3 DEF PagesInOrder
  <2> QED
    BY <2>7, <2>8
<1> QED
  BY <1>6, <1>7

\* A good frame of an owner block or a message, which are stored once.
LEMMA BlockExtends ==
  ASSUME Inv, Basic', UploadRuns, session = "recv", mode \in {"OWNR", "BREQ"}, frame = block,
         offset + command.block_len <= Buffer,
         NEW units, units = HostFrame(block).data,
         HandleRecvModes(offset + command.block_len, Placed(units)),
         data' = Placed(units), frame' = frame + 1,
         UNCHANGED <<session, mode, bank, host, commands>>
  PROVE  Buffered' /\ PagesInOrder'
<1> DEFINE L == command.block_len
<1>1. /\ command \in Commands /\ commands \in Nat /\ L \in Nat \ {0} /\ offset \in 0 .. Buffer - 1
      /\ mode = command.mode /\ frame \in Nat \ {0} /\ block \in Nat \ {0}
      /\ Received \in Nat /\ store \in Memory /\ command.len \in Nat
      /\ Received < Size => Received = offset /\ \A i \in 1 .. offset : data[i] = FileUnit(i)
      /\ flash_offset = 0
  BY Receiving
<1>2. Size \in Nat \ {0} /\ Size <= Buffer /\ command.len <= Size
  BY <1>1, CommandFacts, Sizes DEF Size
<1>3. Received = offset /\ \A i \in 1 .. offset : data[i] = FileUnit(i)
  <2>1. block <= LastBlock /\ LastBlock \in Nat /\ (LastBlock - 1) * L < command.len
    BY <1>1, LastBlockFacts DEF Inv, Sent, Frames
  <2>2. (block - 1) * L <= (LastBlock - 1) * L
    <3>1. CASE block = LastBlock
      BY <1>1, <3>1
    <3>2. CASE block < LastBlock
      <4>1. PICK j \in Nat : j = block - 1
        BY <1>1
      <4>2. PICK k \in Nat : k = LastBlock - 1
        BY <1>1, <2>1
      <4>3. j < k
        BY <1>1, <2>1, <3>2, <4>1, <4>2
      <4>4. L * j + L <= L * k /\ L * j = j * L /\ L * k = k * L /\ j * L \in Nat /\ k * L \in Nat
        <5>1. L * j + L <= L * k
          BY <1>1, <4>3, Larger
        <5> QED
          BY <1>1, <5>1
      <4> QED
        BY <1>1, <4>1, <4>2, <4>4
    <3> QED
      BY <1>1, <2>1, <3>1, <3>2
  <2>3. Received = (block - 1) * L
    BY DEF Received
  <2>4. (LastBlock - 1) * L \in Int
    BY <1>1, <2>1
  <2> QED
    BY <1>1, <1>2, <2>1, <2>2, <2>3, <2>4
<1>4. /\ Placed(units) \in Page
      /\ \A i \in 1 .. offset + L : Placed(units)[i] = FileUnit(i)
  <2>1. 0 \in Nat /\ Received = 0 + offset /\ \A i \in 1 .. offset : data[i] = FileUnit(0 + i)
    BY <1>1, <1>3
  <2>2. /\ Placed(units) \in Page
        /\ \A i \in 1 .. offset + L : Placed(units)[i] = FileUnit(0 + i)
    BY <2>1, FrameIsPlaced
  <2> QED
    BY <1>1, <2>2
<1>5. /\ UNCHANGED <<command, commands, mode, bank>> /\ session' = "recv"
      /\ \A i : FileUnit(i)' = FileUnit(i)
      /\ Goal' = Goal /\ Size' = Size
  BY SameFile DEF host, Size
<1>6. Received' = offset + L
  <2>1. command'.block_len = L
    BY <1>5
  <2>2. ((frame + 1) - 1) * L = (frame - 1) * L + L
    BY <1>1
  <2>3. Received' = (frame' - 1) * command'.block_len /\ Received = (frame - 1) * L
    BY DEF Received
  <2> QED
    BY <1>3, <2>1, <2>2, <2>3
<1>7. flash_offset' = 0
  BY <1>1 DEF HandleRecvModes
<1>8. PagesInOrder'
  BY <1>7 DEF PagesInOrder
<1>9. CASE ~Enough(offset + L)
  <2>1. offset' = offset + L
    BY <1>9 DEF HandleRecvModes
  <2>2. offset + L < Size
    BY <1>1, <1>9, Sizes DEF Enough, Size
  <2>3. Received' < Size' /\ Received' = offset'
    BY <1>5, <1>6, <2>1, <2>2
  <2>4. \A i \in 1 .. offset' : data'[i] = FileUnit(i)'
    BY <1>4, <1>5, <2>1
  <2>5. ~(Received' >= Size')
    BY <1>1, <1>2, <1>5, <1>6, <2>2
  <2> QED
    BY <1>5, <1>7, <1>8, <2>3, <2>4, <2>5 DEF Buffered
<1>10. CASE Enough(offset + L)
  <2>1. offset' = 0 /\ Store(Placed(units)) /\ offset + L >= Size
    BY <1>1, <1>10, Sizes DEF HandleRecvModes, Enough, Size
  <2>2. store'[Target(command.mode)] = Goal
    <3>1. CASE mode = "BREQ"
      <4>1. store' = [store EXCEPT !["msg"] = [i \in 1 .. MsgLen |-> Placed(units)[i]]]
        BY <2>1, <3>1 DEF Store, CopyMessage
      <4>2. store'["msg"] = [i \in 1 .. MsgLen |-> Placed(units)[i]]
        BY <1>1, <4>1 DEF Memory, Targets
      <4>3. \A i \in 1 .. MsgLen : Placed(units)[i] = FileUnit(i)
        BY <1>1, <1>4, <2>1, <3>1, Sizes DEF Size
      <4>4. Goal = [i \in 1 .. MsgLen |-> FileUnit(i)] /\ Target(command.mode) = "msg"
        BY <1>1, <3>1 DEF Goal, Target
      <4> QED
        BY <4>2, <4>3, <4>4
    <3>2. CASE mode = "OWNR"
      <4>1. store' = [store EXCEPT !["owner"] = Placed(units)]
        BY <2>1, <3>2 DEF Store, FlashOwnerBlock
      <4>2. store'["owner"] = Placed(units)
        BY <1>1, <4>1 DEF Memory, Targets
      <4>3. \A i \in 1 .. Buffer : Placed(units)[i] = FileUnit(i)
        BY <1>1, <1>4, <2>1, <3>2, Sizes DEF Size
      <4>4. Goal = [i \in 1 .. Buffer |-> FileUnit(i)] /\ Target(command.mode) = "owner"
        BY <1>1, <3>2 DEF Goal, Target
      <4> QED
        BY <1>4, <4>2, <4>3, <4>4 DEF Page
    <3> QED
      BY <3>1, <3>2
  <2>3. Received' >= Size' /\ ~(Received' < Size')
    BY <1>1, <1>2, <1>5, <1>6, <2>1
  <2>4. (store[Target(command.mode)] = Goal)'
    BY <1>5, <2>2
  <2> QED
    BY <1>5, <1>7, <1>8, <2>1, <2>3, <2>4 DEF Buffered
<1> QED
  BY <1>8, <1>9, <1>10
\* The end of the file: what is in the buffer is padded and stored.
LEMMA FirmwareIsStored ==
  ASSUME Inv, UploadRuns, session = "recv", mode \in {"RESQ", "RESB"},
         Received >= command.len,
         \/ offset = 0 /\ UNCHANGED store
         \/ offset # 0 /\ Store(Padded)
  PROVE  Fits /\ store'[Target(command.mode)] = Goal
<1>1. /\ command \in Commands /\ commands \in Nat /\ offset \in 0 .. Buffer - 1
      /\ command.len \in Nat \ {0} /\ data \in Page /\ store \in Memory /\ bank \in Slots
      /\ mode = command.mode /\ bank = Target(command.mode)
      /\ NextPage = Written + 1 /\ Written \in Nat /\ Received = Written * Buffer + offset
      /\ \A i \in 1 .. offset : data[i] = FileUnit(Written * Buffer + i)
      /\ flash_offset \in 0 .. Pages + 1
  BY Receiving
<1>2. PICK k \in Nat : k = Written * Buffer
  BY <1>1, Sizes
<1>3. /\ Goal \in [1 .. Pages -> Page]
      /\ \A p \in 1 .. Pages :
           /\ Goal[p] = [i \in 1 .. Buffer |-> FileUnit((p - 1) * Buffer + i)]
           /\ (p - 1) * Buffer >= command.len => Goal[p] = Fill(Pad)
  <2>1. Goal = [p \in 1 .. Pages |-> [i \in 1 .. Buffer |-> FileUnit((p - 1) * Buffer + i)]]
    BY <1>1 DEF Goal
  <2>2. ASSUME NEW p \in 1 .. Pages
        PROVE  [i \in 1 .. Buffer |-> FileUnit((p - 1) * Buffer + i)] \in Page
    <3>1. ASSUME NEW i \in 1 .. Buffer PROVE FileUnit((p - 1) * Buffer + i) \in Unit
      <4>1. (p - 1) * Buffer + i \in Nat
        BY Sizes
      <4> QED
        BY <1>1, <4>1, FileUnits
    <3> QED
      BY <3>1 DEF Page
  <2> QED
    BY <1>1, <2>1, <2>2, GoalPages
<1>4. ASSUME NEW last \in 1 .. Pages, last * Buffer >= command.len, store' \in Memory,
             \A p \in 1 .. Pages :
               store'[bank][p] = IF p < last + 1 THEN Goal[p] ELSE Fill(Pad)
      PROVE  Fits /\ store'[Target(command.mode)] = Goal
  <2>1. ASSUME NEW p \in 1 .. Pages, p > last PROVE (p - 1) * Buffer >= command.len
    <3>1. PICK j \in Nat : j = p - 1 /\ j >= last
      BY <2>1
    <3>2. j * Buffer >= last * Buffer
      <4>1. CASE j = last
        BY <4>1, Sizes
      <4>2. CASE j > last
        <5>1. Buffer * last + Buffer <= Buffer * j
          BY <3>1, <4>2, Larger, Sizes
        <5>2. Buffer * last = last * Buffer /\ Buffer * j = j * Buffer
              /\ last * Buffer \in Nat /\ j * Buffer \in Nat
          BY Sizes
        <5> QED
          BY <5>1, <5>2, Sizes
      <4> QED
        BY <3>1, <4>1, <4>2
    <3>3. last * Buffer \in Nat /\ j * Buffer \in Nat
      BY Sizes
    <3> QED
      BY <1>1, <1>4, <3>1, <3>2, <3>3
  <2>2. \A p \in 1 .. Pages : store'[bank][p] = Goal[p]
    BY <1>3, <1>4, <2>1
  <2>3. store'[bank] \in [1 .. Pages -> Page]
    BY <1>1, <1>4 DEF Memory
  <2>4. store'[bank] = Goal
    <3>1. store'[bank] = [p \in 1 .. Pages |-> store'[bank][p]]
      BY <2>3
    <3>2. Goal = [p \in 1 .. Pages |-> Goal[p]]
      BY <1>3
    <3> QED
      BY <2>2, <3>1, <3>2
  <2>5. Fits
    <3>1. last * Buffer <= Pages * Buffer
      <4>1. CASE last = Pages
        BY <4>1, Sizes
      <4>2. CASE last < Pages
        <5>1. Buffer * last + Buffer <= Buffer * Pages
          BY <4>2, Larger, Sizes
        <5>2. Buffer * last = last * Buffer /\ Buffer * Pages = Pages * Buffer
              /\ last * Buffer \in Nat /\ Pages * Buffer \in Nat
          BY Sizes
        <5> QED
          BY <5>1, <5>2, Sizes
      <4> QED
        BY <4>1, <4>2, Sizes
    <3>2. last * Buffer \in Nat /\ Pages * Buffer \in Nat
      BY Sizes
    <3> QED
      BY <1>1, <1>4, <3>1, <3>2 DEF Fits
  <2> QED
    BY <1>1, <2>4, <2>5
<1>5. CASE offset = 0 /\ UNCHANGED store
  <2>1. Written # 0
    BY <1>1, <1>2, <1>5, Sizes
  <2>2. Written \in 1 .. Pages /\ flash_offset = Written + 1 /\ flash_offset # 0
    BY <1>1, <2>1, Sizes DEF Written
  <2>3. \A p \in 1 .. Pages :
          store'[bank][p] = IF p < Written + 1 THEN Goal[p] ELSE Fill(Pad)
    BY <1>5, <2>2 DEF Inv, Sent, PagesInOrder
  <2>4. Written * Buffer >= command.len
    BY <1>1, <1>2, <1>5
  <2> QED
    BY <1>1, <1>4, <1>5, <2>2, <2>3, <2>4
<1>6. CASE offset # 0 /\ Store(Padded)
  <2>1. FlashFirmwareBlock(Padded)
    BY <1>6 DEF Store
  <2>2. Padded \in Page
    <3>1. <<>> \in Seq(Unit)
      OBVIOUS
    <3> QED
      BY <3>1, PlacedTypes DEF Inv, Basic
  <2>3. NextPage <= Pages => Padded = Goal[NextPage]
    <3>1. SUFFICES ASSUME NextPage <= Pages PROVE Padded = Goal[NextPage]
      OBVIOUS
    <3>2. NextPage \in 1 .. Pages /\ (NextPage - 1) * Buffer = k
      BY <1>1, <1>2, <3>1, Sizes
    <3>3. Goal[NextPage] = [i \in 1 .. Buffer |-> FileUnit(k + i)]
      BY <1>3, <3>2
    <3>4. ASSUME NEW i \in 1 .. Buffer
          PROVE  (IF i > offset THEN Pad ELSE data[i]) = FileUnit(k + i)
      <4>1. CASE i > offset
        <5>1. ~(k + i <= command.len)
          BY <1>1, <1>2, <4>1, Sizes
        <5> QED
          BY <4>1, <5>1 DEF FileUnit
      <4>2. CASE ~(i > offset)
        BY <1>1, <1>2, <4>2, Sizes
      <4> QED
        BY <4>1, <4>2
    <3> QED
      BY <3>3, <3>4 DEF Padded
  <2>4. /\ NextPage \in 1 .. Pages /\ store' \in Memory
        /\ \A p \in 1 .. Pages :
             store'[bank][p] = IF p < NextPage + 1 THEN Goal[p] ELSE Fill(Pad)
    BY <2>1, <2>2, <2>3, PageIsStored
  <2>5. NextPage * Buffer >= command.len
    <3>1. (Written + 1) * Buffer = k + Buffer
      BY <1>1, <1>2, Sizes
    <3> QED
      BY <1>1, <1>2, <3>1, Sizes
  <2> QED
    BY <1>4, <2>4, <2>5
<1> QED
  BY <1>5, <1>6

LEMMA FileIsStored ==
  ASSUME Inv, UploadRuns, session = "recv", block = LastBlock, frame = block + 1,
         \/ offset % Buffer = 0 /\ UNCHANGED store
         \/ offset % Buffer # 0 /\ Store(Padded)
  PROVE  Fits /\ store'[Target(command.mode)] = Goal
<1>1. /\ command \in Commands /\ commands \in Nat /\ offset \in 0 .. Buffer - 1
      /\ command.len \in Nat \ {0} /\ command.block_len \in Nat \ {0}
      /\ mode = command.mode /\ mode \in ReceiveModes /\ data \in Page /\ store \in Memory
      /\ Received \in Nat
      /\ mode \in {"OWNR", "BREQ"} =>
           /\ Received < Size => Received = offset /\ \A i \in 1 .. offset : data[i] = FileUnit(i)
           /\ Received >= Size => offset = 0 /\ store[Target(command.mode)] = Goal
  BY Receiving
<1>2. Received >= command.len
  <2>1. command.len <= LastBlock * command.block_len /\ LastBlock \in Nat \ {0}
    BY <1>1, LastBlockFacts
  <2>2. Received = LastBlock * command.block_len
    BY <2>1 DEF Received
  <2> QED
    BY <1>1, <2>1, <2>2
<1>3. \/ offset = 0 /\ UNCHANGED store
      \/ offset # 0 /\ Store(Padded)
  <2>1. offset % Buffer = offset
    BY <1>1, Sizes
  <2> QED
    BY <1>1, <2>1
<1>4. CASE mode \in {"RESQ", "RESB"}
  BY <1>2, <1>3, <1>4, FirmwareIsStored
<1>5. CASE mode \in {"OWNR", "BREQ"}
  <2>1. Fits
    BY <1>1, <1>5 DEF Fits
  <2>2. CASE Received >= Size
    BY <1>1, <1>3, <1>5, <2>1, <2>2
  <2>3. CASE ~(Received >= Size)
    <3>1. Received < Size /\ Received = offset /\ \A i \in 1 .. offset : data[i] = FileUnit(i)
      BY <1>1, <1>5, <2>3, Sizes DEF Size
    <3>2. mode = "OWNR"
      BY <1>1, <1>2, <1>5, <3>1, CommandFacts, Sizes DEF Size
    <3>3. offset # 0 /\ Store(Padded)
      BY <1>1, <1>2, <1>3, <3>1
    <3>4. store' = [store EXCEPT !["owner"] = Padded]
      BY <3>2, <3>3 DEF Store, FlashOwnerBlock
    <3>5. store'["owner"] = Padded
      BY <1>1, <3>4 DEF Memory, Targets
    <3>6. ASSUME NEW i \in 1 .. Buffer
          PROVE  (IF i > offset THEN Pad ELSE data[i]) = FileUnit(i)
      <4>1. CASE i > offset
        <5>1. ~(i <= command.len)
          BY <1>1, <1>2, <3>1, <4>1, Sizes
        <5> QED
          BY <4>1, <5>1 DEF FileUnit
      <4>2. CASE ~(i > offset)
        BY <1>1, <3>1, <4>2, Sizes
      <4> QED
        BY <4>1, <4>2
    <3>7. Padded = [i \in 1 .. Buffer |-> FileUnit(i)]
      BY <3>6 DEF Padded
    <3>8. Goal = [i \in 1 .. Buffer |-> FileUnit(i)] /\ Target(command.mode) = "owner"
      BY <1>1, <3>2 DEF Goal, Target
    <3> QED
      BY <2>1, <3>5, <3>7, <3>8
  <2> QED
    BY <2>2, <2>3
<1> QED
  BY <1>1, <1>4, <1>5 DEF ReceiveModes
-----------------------------------------------------------------------------
\* The device's side of an upload.
LEMMA HeardInUpload ==
  ASSUME Inv, UploadRuns, session = "recv", toDevice # <<>>, NEW m, m = Head(toDevice)
  PROVE  /\ toDevice \in Seq(Message) /\ toHost \in Seq(Message) /\ m \in Message /\ Uploading
         /\ Tail(toDevice) \in Seq(Message)
         /\ block \in Nat \ {0} /\ frame \in {block, block + 1} /\ status # "done"
         /\ ~(hpc = "finish" /\ Has(toHost, Acks)) /\ m.type # "mode"
         /\ m.type = "eof" => /\ hpc \in {"finish", "idle"} /\ block = LastBlock
                              /\ frame = block + 1 /\ Tail(toDevice) = <<>>
         /\ m \in Framed => m \in Upload(block - 1) \cup Upload(block)
<1>1. /\ toDevice \in Seq(Message) /\ toHost \in Seq(Message) /\ m \in Message /\ Uploading
      /\ Tail(toDevice) \in Seq(Message) /\ block \in Nat \ {0} /\ hpc # "line"
  BY Heard DEF Inv, Basic, Types, QueueTypes, HostTypes, UploadRuns, Places
<1>2. /\ frame \in {block, block + 1}
      /\ status # "done" /\ ~(hpc = "finish" /\ Has(toHost, Acks))
  BY <1>1 DEF Inv, Sent, Frames, Acknowledged
<1>3. m.type # "mode"
  <2>1. ~Has(toDevice, ModeSettings)
    BY <1>1 DEF Inv, Basic, Handshake
  <2>2. m \notin ModeSettings
    BY <1>1, <2>1, Heard
  <2> QED
    BY <1>1, <2>2, Kinds
<1>4. ASSUME m.type = "eof"
      PROVE  /\ hpc \in {"finish", "idle"} /\ block = LastBlock
             /\ frame = block + 1 /\ Tail(toDevice) = <<>>
  <2>1. m \in Eofs
    BY <1>1, <1>4, Kinds
  <2>2. Has(toDevice, Eofs) /\ (Has(Tail(toDevice), Message) => Follows(toDevice, Eofs, Message))
    BY <1>1, <2>1, Heard
  <2>3. ~Has(Tail(toDevice), Message)
    BY <2>2 DEF Inv, Sent, Frames
  <2>4. Tail(toDevice) = <<>>
    <3>1. SUFFICES ASSUME Tail(toDevice) # <<>> PROVE FALSE
      OBVIOUS
    <3>2. Head(Tail(toDevice)) \in Message
      BY <1>1, <3>1, Heard
    <3> QED
      BY <1>1, <2>3, <3>1, <3>2, Heard
  <2> QED
    BY <2>2, <2>4 DEF Inv, Sent, Frames
<1>5. m \in Framed => m \in Upload(block - 1) \cup Upload(block)
  <2>1. ~Has(toDevice, Framed \ (Upload(block - 1) \cup Upload(block)))
    BY DEF Inv, Sent, Frames
  <2>2. m \notin Framed \ (Upload(block - 1) \cup Upload(block))
    BY <1>1, <2>1, Heard
  <2> QED
    BY <2>2
<1> QED
  BY <1>1, <1>2, <1>3, <1>4, <1>5

LEMMA GoodFrameIsNew ==
  ASSUME Inv, UploadRuns, session = "recv", toDevice # <<>>, NEW m, m = Head(toDevice),
         m.type = "frame", Expected(m)
  PROVE  /\ m \in Upload(block) /\ frame = block
         /\ m.data = HostFrame(block).data /\ Len(m.data) = command.block_len
         /\ offset + command.block_len <= Buffer
<1>1. m \in Message /\ m \in Framed /\ block \in Nat \ {0} /\ frame \in {block, block + 1}
      /\ m \in Upload(block - 1) \cup Upload(block)
  BY HeardInUpload, Kinds
<1>2. Len(m.data) = command.block_len /\ offset + command.block_len <= Buffer
  <2>1. Len(Head(toDevice).data) = command.block_len /\ offset + command.block_len \in 1 .. Buffer
    BY <1>1, FitsHere DEF Inv
  <2> QED
    BY <2>1
<1>3. frame = block
  <2>1. SUFFICES ASSUME frame = block + 1 PROVE FALSE
    BY <1>1
  <2>2. ~Has(toDevice, Framed \ Upload(block))
    BY <2>1 DEF Inv, Sent, Frames
  <2>3. m \in Upload(block)
    <3>1. m \notin Framed \ Upload(block)
      BY <2>2, Heard, HeardInUpload
    <3> QED
      BY <1>1, <3>1
  <2>4. m.num = block % FrameMod
    BY <1>1, <2>3, UploadsApart
  <2>5. (block + 1) % FrameMod # block % FrameMod
    <3>1. FrameMod \in Nat \ {0} /\ FrameMod > 1
      BY Sizes
    <3> QED
      BY <1>1, <3>1, Multiples
  <2> QED
    BY <2>1, <2>4, <2>5 DEF Expected
<1>4. m \in Upload(block)
  <2>1. m.num = block % FrameMod
    BY <1>3 DEF Expected
  <2> QED
    BY <1>1, <2>1, UploadsApart
<1> QED
  BY <1>2, <1>3, <1>4 DEF Upload

LEMMA FrameIsReceived ==
  ASSUME Inv, Basic', UploadRuns, session = "recv", toDevice # <<>>, NEW m, m = Head(toDevice),
         m.type = "frame", Expected(m),
         HandleRecvModes(offset + Len(m.data), Placed(m.data)),
         data' = Placed(m.data), frame' = frame + 1, Reply(<<Msg("ack")>>),
         UNCHANGED <<session, mode, bank, host, commands>>, toDevice' = Tail(toDevice)
  PROVE  Sent'
<1>1. /\ toDevice \in Seq(Message) /\ toHost \in Seq(Message) /\ Uploading
      /\ block \in Nat \ {0} /\ status # "done"
      /\ ~(hpc = "finish" /\ Has(toHost, Acks))
  BY HeardInUpload
<1>2. /\ m \in Upload(block) /\ frame = block
      /\ m.data = HostFrame(block).data /\ Len(m.data) = command.block_len
      /\ offset + command.block_len <= Buffer
  BY GoodFrameIsNew
<1>3. /\ UNCHANGED <<hpc, command, commands, block, status>> /\ session' = "recv"
      /\ \A k : Upload(k)' = Upload(k)
      /\ LastBlock' = LastBlock /\ (Uploading' <=> Uploading)
  BY SameFile DEF host
<1>4. UNCHANGED <<Upload(block - 1), Upload(block)>>
  BY <1>3
<1>5. /\ \A S : Has(toDevice', S) => Has(toDevice, S)
      /\ \A S, T : Follows(toDevice', S, T) => Follows(toDevice, S, T)
      /\ \A T : Has(toDevice', T) => Follows(toDevice, Upload(block), T)
  BY <1>1, <1>2, Heard
<1>6. /\ block <= LastBlock /\ hpc # "finish"
      /\ ~Has(toDevice, Framed \ (Upload(block - 1) \cup Upload(block)))
      /\ ~Follows(toDevice, Upload(block), Upload(block - 1))
      /\ ~Has(toDevice, Eofs)
  BY <1>1, <1>2 DEF Inv, Sent, Frames
<1>7. Frames'
  <2>1. ~Has(toDevice', Framed \ Upload(block))
    <3>1. ~Has(toDevice', Upload(block - 1))
      BY <1>5, <1>6
    <3>2. ~Has(toDevice', Framed \ (Upload(block - 1) \cup Upload(block)))
      BY <1>5, <1>6
    <3> QED
      BY <3>1, <3>2 DEF Has
  <2>2. ~Has(toDevice', Eofs) /\ ~Follows(toDevice', Eofs, Message)
    BY <1>5, <1>6, FollowsHas
  <2>3. /\ block' <= LastBlock' /\ hpc' # "finish" /\ frame' = block' + 1
    BY <1>2, <1>3, <1>6
  <2>4. /\ ~Has(toDevice', (Framed \ (Upload(block - 1) \cup Upload(block)))')
        /\ ~Has(toDevice', (Framed \ Upload(block))')
        /\ ~Follows(toDevice', Upload(block)', Upload(block - 1)')
    BY <1>4, <1>5, <1>6, <2>1
  <2> QED
    BY <2>2, <2>3, <2>4 DEF Frames
<1>8. Acknowledged'
  <2>1. Msg("ack") \in Message
    BY Signals
  <2>2. Follows(toHost', Acks, Acks) => Follows(toHost, Acks, Acks) \/ Has(toHost, Acks)
    BY <1>1, <2>1, Said DEF Reply
  <2>3. hpc = "answer" => ~Has(toHost, Acks) /\ ~Follows(toHost, Acks, Acks)
    BY <1>1, <1>2 DEF Inv, Sent, Acknowledged
  <2> QED
    BY <1>1, <1>2, <1>3, <1>6, <2>2, <2>3 DEF Acknowledged
<1>9. Buffered' /\ PagesInOrder'
  <2>1. mode \in {"RESQ", "RESB", "OWNR", "BREQ"}
    BY Receiving DEF ReceiveModes
  <2> QED
    BY <1>2, <2>1, FirmwareExtends, BlockExtends
<1> QED
  BY <1>7, <1>8, <1>9 DEF Sent
LEMMA AcknowledgedStays ==
  ASSUME Acknowledged, UNCHANGED <<hpc, command, block, status, commands, session, frame, store>>,
         Has(toHost', Acks) => Has(toHost, Acks),
         Follows(toHost', Acks, Acks) => Follows(toHost, Acks, Acks),
         toDevice = <<>> => toDevice' = <<>>
  PROVE  Acknowledged'
<1>1. Goal' = Goal /\ (Fits' <=> Fits) /\ (Uploading' <=> Uploading)
  BY SameFile
<1>2. (Uploading /\ Stored)' <=> (Uploading /\ Stored)
  BY <1>1 DEF Stored
<1> QED
  BY <1>1, <1>2 DEF Acknowledged

\* Nothing that the device says to a host but "ack" is an acknowledgement.
LEMMA SaysNoAck ==
  ASSUME Inv, \/ EndsWith(<<>>) \/ Reply(<<Msg("nak")>>) \/ Reply(<<Msg("text")>>)
              \/ Reply(<<Msg("C")>>) \/ Reply(<<>>)
  PROVE  /\ Has(toHost', Acks) => Has(toHost, Acks)
         /\ Follows(toHost', Acks, Acks) => Follows(toHost, Acks, Acks)
<1>1. toHost \in Seq(Message) /\ toHost \o <<>> = toHost
  BY Words0 DEF Inv, Basic, Types, QueueTypes
<1>2. ASSUME NEW t \in {"nak", "text", "C"}, toHost' = toHost \o <<Msg(t)>>
      PROVE  /\ Has(toHost', Acks) => Has(toHost, Acks)
             /\ Follows(toHost', Acks, Acks) => Follows(toHost, Acks, Acks)
  <2>1. Msg(t) \in Message /\ Msg(t) \notin Acks
    BY Signals, Kinds
  <2> QED
    BY <1>1, <1>2, <2>1, Said
<1>3. CASE EndsWith(<<>>)
  <2>1. toHost' = toHost \o <<Msg("text")>>
    <3>1. Msg("text") \in Message
      BY Signals
    <3> QED
      BY <1>3, <3>1, LastWords DEF Inv, Basic
  <2> QED
    BY <1>2, <2>1
<1>4. CASE Reply(<<>>)
  BY <1>1, <1>4 DEF Reply
<1> QED
  BY <1>2, <1>3, <1>4 DEF Reply

\* The file has ended: it is stored.
LEMMA EndOfFileKeepsSent ==
  ASSUME Inv, Basic', UploadRuns, session = "recv", toDevice # <<>>,
         Head(toDevice).type = "eof", toDevice' = <<>>,
         UNCHANGED <<host, commands, mode, bank>>,
         \/ offset % Buffer = 0 /\ UNCHANGED store
         \/ offset % Buffer # 0 /\ Store(Padded),
         \/ session' = "over"
         \/ session' = "recv" /\ frame' = 1 /\ offset' = 0 /\ flash_offset' = 0
  PROVE  Sent'
<1>1. /\ hpc \in {"finish", "idle"} /\ block = LastBlock /\ frame = block + 1
      /\ block \in Nat \ {0}
  BY HeardInUpload
<1>2. /\ UNCHANGED <<hpc, command, commands, block, status>>
      /\ \A k : Upload(k)' = Upload(k)
      /\ LastBlock' = LastBlock /\ (Uploading' <=> Uploading) /\ Goal' = Goal /\ (Fits' <=> Fits)
  BY SameFile DEF host
<1>3. Fits /\ store'[Target(command.mode)] = Goal
  BY <1>1, FileIsStored
<1>4. Stored'
  BY <1>2, <1>3 DEF Stored
<1>5. Frames'
  <2>1. \A S, T : ~Has(<<>>, S) /\ ~Follows(<<>>, S, T)
    BY HasFew
  <2>2. /\ block' = LastBlock' /\ block' <= LastBlock' /\ hpc' \in {"finish", "idle"}
        /\ session' = "recv" => frame' = 1 /\ frame' # block' + 1
    BY <1>1, <1>2
  <2> QED
    BY <2>1, <2>2 DEF Frames
<1>6. Acknowledged'
  BY <1>1, <1>2, <1>4 DEF Acknowledged
<1>7. Buffered'
  <2>1. SUFFICES ASSUME session' = "recv" PROVE Buffered'
    BY DEF Buffered
  <2>2. Received' = 0 /\ Written' = 0 /\ offset' = 0 /\ flash_offset' = 0
    <3>1. command'.block_len \in Nat
      BY <1>2, Receiving
    <3> QED
      BY <2>1, <3>1 DEF Received, Written
  <2>3. Size' \in Nat \ {0}
    BY Sizes DEF Size
  <2>4. Written' * Buffer + offset' = 0
    BY <2>2, Sizes
  <2> QED
    BY <2>2, <2>3, <2>4 DEF Buffered
<1>8. PagesInOrder'
  BY DEF PagesInOrder
<1> QED
  BY <1>5, <1>6, <1>7, <1>8 DEF Sent

LEMMA UploadKeepsSent ==
  ASSUME Inv, Basic', UploadRuns, session = "recv", toDevice # <<>>, NEW m, m = Head(toDevice),
         Protocol(m),
         toDevice' = IF session' = "over" THEN <<>> ELSE Tail(toDevice),
         UNCHANGED <<host, commands, naks>>
  PROVE  Sent'
<1>1. /\ toDevice \in Seq(Message) /\ toHost \in Seq(Message) /\ m \in Message
      /\ Tail(toDevice) \in Seq(Message) /\ m.type # "mode"
      /\ UNCHANGED <<hpc, command, commands, block, status>>
  BY HeardInUpload DEF host
<1>2. ASSUME EndsWith(<<>>) PROVE Sent'
  <2>1. session' = "over" /\ toDevice' = <<>>
    BY <1>2 DEF EndsWith
  <2> QED
    BY <1>2, <2>1, SaysNoAck, Silent
<1>3. ASSUME UNCHANGED <<session, mode, frame, offset, flash_offset, bank, store>>,
             Reply(<<Msg("nak")>>) \/ Reply(<<Msg("text")>>) \/ Reply(<<>>),
             \A i \in 1 .. offset : data'[i] = data[i]
      PROVE  Sent'
  <2>1. toDevice' = Tail(toDevice)
    BY <1>3
  <2>2. /\ \A S : Has(toDevice', S) => Has(toDevice, S)
        /\ \A S, T : Follows(toDevice', S, T) => Follows(toDevice, S, T)
    BY <1>1, <2>1, Heard
  <2>3. Frames'
    BY <1>1, <1>3, <2>2, FramesStay DEF Inv, Sent
  <2>4. Acknowledged'
    <3>1. /\ Has(toHost', Acks) => Has(toHost, Acks)
          /\ Follows(toHost', Acks, Acks) => Follows(toHost, Acks, Acks)
      BY <1>3, SaysNoAck
    <3> QED
      BY <1>1, <1>3, <3>1, AcknowledgedStays DEF Inv, Sent
  <2>5. Buffered' /\ PagesInOrder'
    BY <1>1, <1>3, BufferStays
  <2> QED
    BY <2>3, <2>4, <2>5 DEF Sent
<1>4. CASE ReceiveFrame(m)
  <2>1. CASE HandleFails(offset + Len(m.data))
    BY <1>2, <2>1 DEF HandleFails
  <2>2. CASE ~HandleFails(offset + Len(m.data))
    <3>1. /\ m.type = "frame" /\ Expected(m)
          /\ HandleRecvModes(offset + Len(m.data), Placed(m.data))
          /\ data' = Placed(m.data) /\ frame' = frame + 1 /\ Reply(<<Msg("ack")>>)
          /\ UNCHANGED <<session, mode, bank>>
      BY <1>4, <2>2 DEF ReceiveFrame
    <3>2. toDevice' = Tail(toDevice)
      BY <3>1
    <3> QED
      BY <3>1, <3>2, FrameIsReceived
  <2> QED
    BY <2>1, <2>2
<1>5. CASE CancelOutOfTurn(m) \/ GiveUp(m)
  BY <1>2, <1>5 DEF CancelOutOfTurn, GiveUp
<1>6. CASE RefuseFrame(m)
  <2>1. \A i \in 1 .. offset : data'[i] = data[i]
    <3>1. data' = Placed([i \in DOMAIN m.data |-> Garbage])
      BY <1>6 DEF RefuseFrame
    <3>2. ASSUME NEW i \in 1 .. offset
          PROVE  data'[i] = data[i]
      <4>1. offset \in 0 .. Buffer - 1 /\ i \in 1 .. Buffer
        BY Receiving, Sizes
      <4>2. ~(i \in offset + 1 .. offset + Len([j \in DOMAIN m.data |-> Garbage]))
        BY <4>1
      <4> QED
        BY <3>1, <4>1, <4>2 DEF Placed
    <3> QED
      BY <3>2
  <2> QED
    BY <1>3, <1>6, <2>1 DEF RefuseFrame
<1>7. CASE EndOfFile(m)
  <2>1. CASE HandleFails(Buffer)
    BY <1>2, <2>1 DEF HandleFails
  <2>2. CASE ~HandleFails(Buffer)
    <3>1. /\ m.type = "eof"
          /\ \/ offset % Buffer = 0 /\ UNCHANGED store
             \/ offset % Buffer # 0 /\ Store(Padded)
          /\ UNCHANGED <<mode, bank>>
          /\ \/ session' = "over"
             \/ session' = "recv" /\ frame' = 1 /\ offset' = 0 /\ flash_offset' = 0
      BY <1>7, <2>2 DEF EndOfFile, EndsWith
    <3>2. toDevice' = <<>>
      BY <3>1, HeardInUpload
    <3> QED
      BY <3>1, <3>2, EndOfFileKeepsSent
  <2> QED
    BY <2>1, <2>2
<1>8. CASE SetMode(m)
  BY <1>1, <1>8 DEF SetMode
<1>9. CASE OtherCharacters(m)
  BY <1>3, <1>9 DEF OtherCharacters, device
<1> QED
  BY <1>4, <1>5, <1>6, <1>7, <1>8, <1>9 DEF Protocol
LEMMA DeviceKeepsSent ==
  ASSUME Inv, Basic', Device
  PROVE  Sent'
<1>1. UNCHANGED <<hpc, command, block, status, commands>>
  BY DEF Device, DeviceHears, TimeoutStart, SendTimeout, host
<1>2. CASE ~UploadRuns
  BY <1>1, <1>2, NoUploadStays
<1>3. CASE UploadRuns
  <2>1. Uploading /\ ~Downloading
    BY <1>3, Separate DEF UploadRuns
  <2>2. session # "send"
    BY <2>1 DEF Inv, Basic, Session
  <2>3. CASE DeviceHears
    <3>1. /\ session = "recv" /\ toDevice # <<>> /\ Protocol(Head(toDevice))
          /\ toDevice' = IF session' = "over" THEN <<>> ELSE Tail(toDevice)
          /\ UNCHANGED <<host, commands, naks>>
      BY <2>2, <2>3 DEF DeviceHears
    <3> QED
      BY <1>3, <3>1, UploadKeepsSent
  <2>4. CASE TimeoutStart
    <3>1. CASE EndsWith(<<>>)
      <4>1. session' = "over" /\ toDevice' = <<>> /\ UNCHANGED <<store, host, commands>>
        BY <2>4, <3>1 DEF TimeoutStart, EndsWith
      <4> QED
        BY <3>1, <4>1, SaysNoAck, Silent
    <3>2. CASE Reply(<<Msg("C")>>) /\ UNCHANGED device
      <4>1. UNCHANGED <<toDevice, session, mode, frame, offset, data, flash_offset, bank, store>>
        BY <2>4, <3>2 DEF TimeoutStart, device
      <4>2. Frames'
        BY <1>1, <4>1, FramesStay DEF Inv, Sent
      <4>3. Acknowledged'
        <5>1. /\ Has(toHost', Acks) => Has(toHost, Acks)
              /\ Follows(toHost', Acks, Acks) => Follows(toHost, Acks, Acks)
          BY <3>2, SaysNoAck
        <5> QED
          BY <1>1, <4>1, <5>1, AcknowledgedStays DEF Inv, Sent
      <4>4. Buffered' /\ PagesInOrder'
        BY <1>1, <1>3, <4>1, BufferStays
      <4> QED
        BY <4>2, <4>3, <4>4 DEF Sent
    <3> QED
      BY <2>4, <3>1, <3>2 DEF TimeoutStart
  <2>5. CASE SendTimeout
    BY <2>2, <2>5 DEF SendTimeout
  <2> QED
    BY <2>3, <2>4, <2>5 DEF Device
<1> QED
  BY <1>2, <1>3

LEMMA UnexpectedResetKeepsSent ==
  ASSUME Inv, Basic', UnexpectedReset
  PROVE  Sent'
<1>1. /\ session' = "over" /\ toDevice' = <<>> /\ UNCHANGED <<store, host, commands>>
      /\ EndsWith(<<>>)
  BY DEF UnexpectedReset, EndsWith
<1> QED
  BY <1>1, SaysNoAck, Silent

LEMMA DamageToHostKeepsSent ==
  ASSUME Inv, Basic', DamageToHost
  PROVE  Sent'
<1>1. /\ UNCHANGED <<hpc, command, block, status, commands>>
      /\ UNCHANGED <<toDevice, session, mode, frame, offset, data, flash_offset, bank, store>>
      /\ toHost # <<>> /\ toHost \in Seq(Message)
  BY DEF DamageToHost, host, device, Inv, Basic, Types, QueueTypes
<1>2. CASE ~UploadRuns
  BY <1>1, <1>2, NoUploadStays
<1>3. CASE UploadRuns
  <2>1. PICK x \in Message : /\ toHost' = Tail(toHost) \/ toHost' = <<x>> \o Tail(toHost)
                             /\ x \notin Acks
    BY DamagesToHost DEF Inv, Basic
  <2>2. /\ Has(toHost', Acks) => Has(toHost, Acks)
        /\ Follows(toHost', Acks, Acks) => Follows(toHost, Acks, Acks)
    BY <1>1, <2>1, Weaker
  <2>3. Frames'
    BY <1>1, FramesStay DEF Inv, Sent
  <2>4. Acknowledged'
    BY <1>1, <2>2, AcknowledgedStays DEF Inv, Sent
  <2>5. Buffered' /\ PagesInOrder'
    BY <1>1, <1>3, BufferStays
  <2> QED
    BY <2>3, <2>4, <2>5 DEF Sent
<1> QED
  BY <1>2, <1>3

\* What is damaged on its way to the device is still of the same block, and, by
\* the assumption, not the end of a file.
LEMMA DamageToDeviceKeepsSent ==
  ASSUME Inv, Basic', DamageToDevice, "eof" \notin Junk
  PROVE  Sent'
<1> DEFINE m == Head(toDevice)
<1>1. /\ UNCHANGED <<hpc, command, block, status, commands>>
      /\ UNCHANGED <<toHost, session, mode, frame, offset, data, flash_offset, bank, store>>
      /\ toDevice # <<>> /\ toDevice \in Seq(Message)
  BY DEF DamageToDevice, host, device, Inv, Basic, Types, QueueTypes
<1>2. CASE ~UploadRuns
  BY <1>1, <1>2, NoUploadStays
<1>3. CASE UploadRuns
  <2>1. PICK x \in Message :
          /\ toDevice' = Tail(toDevice) \/ toDevice' = <<x>> \o Tail(toDevice)
          /\ x \in Framed => m \in Framed /\ x.num = m.num /\ x.data = m.data
          /\ x \notin Eofs
    BY DamagesToDevice DEF Inv, Basic
  <2>2. /\ \A S : (x \in S => m \in S) => (Has(toDevice', S) => Has(toDevice, S))
        /\ \A S, T : (x \in S => m \in S) => (Follows(toDevice', S, T) => Follows(toDevice, S, T))
    BY <1>1, <2>1, Weaker
  <2>3. \A k : /\ x \in Upload(k) => m \in Upload(k)
               /\ x \in Framed \ Upload(k) => m \in Framed \ Upload(k)
    BY <2>1 DEF Upload
  <2>4. \A j, k : x \in Framed \ (Upload(j) \cup Upload(k)) => m \in Framed \ (Upload(j) \cup Upload(k))
    BY <2>3
  <2>5. Frames'
    BY <1>1, <2>1, <2>2, <2>3, <2>4, FramesStay DEF Inv, Sent
  <2>6. Acknowledged'
    BY <1>1, AcknowledgedStays DEF Inv, Sent
  <2>7. Buffered' /\ PagesInOrder'
    BY <1>1, <1>3, BufferStays
  <2> QED
    BY <2>5, <2>6, <2>7 DEF Sent
<1> QED
  BY <1>2, <1>3

LEMMA StutterKeepsSent ==
  ASSUME Inv, Basic', UNCHANGED vars
  PROVE  Sent'
<1>1. /\ UNCHANGED <<hpc, command, block, status, commands, toHost, toDevice>>
      /\ UNCHANGED <<session, mode, frame, offset, data, flash_offset, bank, store>>
  BY DEF vars, device, host, counts
<1>2. CASE ~UploadRuns
  BY <1>1, <1>2, NoUploadStays
<1>3. CASE UploadRuns
  <2>1. Frames'
    BY <1>1, FramesStay DEF Inv, Sent
  <2>2. Acknowledged'
    BY <1>1, AcknowledgedStays DEF Inv, Sent
  <2>3. Buffered' /\ PagesInOrder'
    BY <1>1, <1>3, BufferStays
  <2> QED
    BY <2>1, <2>2, <2>3 DEF Sent
<1> QED
  BY <1>2, <1>3

LEMMA InitIsInv ==
  ASSUME Init
  PROVE  Inv
<1>1. Basic
  BY InitIsBasic
<1>2. ~Uploading /\ ~UploadRuns /\ session = "over"
  BY DEF Init, Uploading, UploadRuns
<1> QED
  BY <1>1, <1>2 DEF Inv, Sent, Frames, Acknowledged, Buffered, PagesInOrder

LEMMA NextKeepsInv ==
  ASSUME Inv, [Next]_vars, "eof" \notin Junk
  PROVE  Inv'
<1>1. Basic'
  BY NextKeepsBasic DEF Inv
<1>2. Sent'
  BY <1>1, HostHearsKeepsSent, HostBeginsKeepsSent, DeviceKeepsSent, UnexpectedResetKeepsSent,
     DamageToHostKeepsSent, DamageToDeviceKeepsSent, StutterKeepsSent
     DEF Next, Host, Damage
<1> QED
  BY <1>1, <1>2 DEF Inv

LEMMA InvAlways ==
  ASSUME "eof" \notin Junk
  PROVE  Spec => []Inv
<1>1. Init => Inv
  BY InitIsInv
<1>2. Inv /\ [Next]_vars => Inv'
  BY NextKeepsInv
<1> QED
  BY <1>1, <1>2, PTL DEF Spec

\* When no damaged frame reads as an end of file, a slot of the flash holds the
\* beginning of the file in order, and nothing else: flash_firmware_block().
THEOREM PagesAreInOrder ==
  ASSUME "eof" \notin Junk
  PROVE  Spec => []PagesInOrder
<1>1. Inv => PagesInOrder
  BY DEF Inv, Sent
<1> QED
  BY <1>1, InvAlways, PTL

\* When no damaged frame reads as an end of file, the memory holds the file whose
\* end has been acknowledged, in each mode and whatever else happens: rescue.c with
\* xmodem.c and the host's xmodem.rs.
THEOREM AcknowledgedMeansStored ==
  ASSUME "eof" \notin Junk
  PROVE  Spec => []AcknowledgedIsStored
<1>1. Inv => AcknowledgedIsStored
  BY DEF Inv, Sent, Acknowledged, Stored, AcknowledgedIsStored
<1> QED
  BY <1>1, InvAlways, PTL
-----------------------------------------------------------------------------
\* Uploads as FileTransfer sees them.
Asked == IF Uploading THEN [target |-> Target(command.mode), goal |-> Goal] ELSE None
Result == IF Uploading THEN status ELSE "idle"
Begun == command # None => status # "idle"
Possible == Uploading => Target(command.mode) \in Targets /\ Goal \in Contents

LEMMA GoalsArePossible == Types => Possible
<1>1. SUFFICES ASSUME Types, Uploading
               PROVE  Target(command.mode) \in Targets /\ Goal \in Contents
  BY DEF Possible
<1>2. command \in Commands /\ commands \in Nat /\ command.mode \in ReceiveModes
  BY <1>1, Sizes DEF Uploading, Types, HostTypes, CountTypes
<1>3. \A i \in Nat : FileUnit(i) \in Unit
  BY <1>2, FileUnits
<1>4. Target(command.mode) \in Targets
  BY <1>2 DEF ReceiveModes, Target, Targets, Slots
<1>5. CASE command.mode \in {"RESQ", "RESB"}
  <2>1. Goal = [p \in 1 .. Pages |-> [i \in 1 .. Buffer |-> FileUnit((p - 1) * Buffer + i)]]
    BY <1>5 DEF Goal
  <2>2. ASSUME NEW p \in 1 .. Pages, NEW i \in 1 .. Buffer
        PROVE  FileUnit((p - 1) * Buffer + i) \in Unit
    <3>1. (p - 1) * Buffer + i \in Nat
      BY Sizes
    <3> QED
      BY <1>3, <3>1
  <2> QED
    BY <1>4, <2>1, <2>2 DEF Contents
<1>6. CASE command.mode = "OWNR"
  <2>1. Goal = [i \in 1 .. Buffer |-> FileUnit(i)]
    BY <1>6 DEF Goal
  <2> QED
    BY <1>3, <1>4, <2>1, Sizes DEF Contents
<1>7. CASE command.mode = "BREQ"
  <2>1. Goal = [i \in 1 .. MsgLen |-> FileUnit(i)]
    BY <1>7 DEF Goal
  <2> QED
    BY <1>3, <1>4, <2>1, Sizes DEF Contents
<1> QED
  BY <1>2, <1>5, <1>6, <1>7 DEF ReceiveModes

LEMMA GoalsStayPossible == Types' => Possible'
  BY GoalsArePossible, PTL

\* The device writes only what the host has named.
LEMMA StoresOnlyTheTarget ==
  ASSUME Inv, UploadRuns, session = "recv",
         (\E buffer : Store(buffer)) \/ store' \in CutStores
  PROVE  \A t \in Targets \ {Target(command.mode)} : store'[t] = store[t]
<1>1. /\ mode = command.mode /\ mode \in ReceiveModes /\ store \in Memory
      /\ mode \in {"RESQ", "RESB"} => bank = Target(command.mode)
  BY Receiving
<1>2. DOMAIN store = Targets
  BY <1>1 DEF Memory
<1>3. \E v : store' = [store EXCEPT ![Target(mode)] = v]
  <2>1. CASE mode \in {"RESQ", "RESB"}
    <3>1. CASE \E buffer : Store(buffer)
      BY <1>1, <2>1, <3>1 DEF Store, FlashFirmwareBlock
    <3>2. CASE store' \in CutStores
      BY <1>1, <2>1, <3>2 DEF CutStores
    <3> QED
      BY <3>1, <3>2
  <2>2. CASE mode = "OWNR"
    BY <2>2 DEF Store, FlashOwnerBlock, CutStores, Target
  <2>3. CASE mode = "BREQ"
    BY <2>3 DEF Store, CopyMessage, CutStores, Target
  <2> QED
    BY <1>1, <2>1, <2>2, <2>3 DEF ReceiveModes
<1> QED
  BY <1>1, <1>2, <1>3

LEMMA CommandStays ==
  ASSUME Inv, Begun, UNCHANGED <<command, commands, status>>,
         \/ UNCHANGED store
         \/ /\ UploadRuns /\ session = "recv" /\ toDevice # <<>>
            /\ (\E buffer : Store(buffer)) \/ store' \in CutStores
  PROVE  [Transfer!Next]_(Transfer!vars) /\ Begun'
<1>1. Asked' = Asked /\ Result' = Result
  BY SameFile DEF Asked, Result
<1>2. Begun'
  BY DEF Begun
<1>3. CASE UNCHANGED store
  BY <1>1, <1>2, <1>3 DEF Asked, Result, Transfer!vars
<1>4. CASE /\ UploadRuns /\ session = "recv" /\ toDevice # <<>>
           /\ (\E buffer : Store(buffer)) \/ store' \in CutStores
  <2>1. \A t \in Targets \ {Target(command.mode)} : store'[t] = store[t]
    BY <1>4, StoresOnlyTheTarget
  <2>2. Uploading /\ command # None
    BY <1>4 DEF UploadRuns, Uploading
  <2>3. status \in {"busy", "failed"}
    <3>1. status # "done" /\ status # "idle" /\ status \in {"idle", "busy", "done", "failed"}
      BY <1>4, <2>2 DEF Inv, Sent, Acknowledged, Begun, Basic, Types, HostTypes
    <3> QED
      BY <3>1
  <2>4. Asked.target = Target(command.mode) /\ Result = status
    BY <2>2 DEF Asked, Result
  <2>5. Transfer!Progress
    BY <1>1, <2>1, <2>3, <2>4 DEF Transfer!Progress, Asked, Result
  <2> QED
    BY <1>2, <2>5 DEF Transfer!Next
<1> QED
  BY <1>3, <1>4

LEMMA OperationEnds ==
  ASSUME Inv, Begun, hpc # "idle", UNCHANGED <<command, commands, store>>,
         \/ status' = "failed"
         \/ status' = "done" /\ (Uploading => hpc = "finish" /\ Has(toHost, Acks))
  PROVE  [Transfer!Next]_(Transfer!vars) /\ Begun'
<1>1. Asked' = Asked /\ (Uploading' <=> Uploading) /\ Begun' /\ status = "busy"
  BY SameFile DEF Asked, Begun, Inv, Basic, Places
<1>2. CASE ~Uploading
  <2>1. Result' = Result
    BY <1>1, <1>2 DEF Result
  <2> QED
    BY <1>1, <2>1 DEF Asked, Result, Transfer!vars
<1>3. CASE Uploading /\ status' = "failed"
  <2>1. Transfer!Fail
    BY <1>1, <1>3 DEF Transfer!Fail, Asked, Result
  <2> QED
    BY <1>1, <2>1 DEF Transfer!Next
<1>4. CASE Uploading /\ status' = "done"
  <2>1. Stored
    BY <1>4 DEF Inv, Sent, Acknowledged
  <2>2. Asked.target = Target(command.mode) /\ Asked.goal = Goal
    BY <1>4 DEF Asked
  <2>3. Transfer!Complete
    BY <1>1, <1>4, <2>1, <2>2 DEF Transfer!Complete, Asked, Result, Stored
  <2> QED
    BY <1>1, <2>3 DEF Transfer!Next
<1> QED
  BY <1>2, <1>3, <1>4
LEMMA DeviceStores ==
  ASSUME Inv, Device
  PROVE  /\ UNCHANGED <<command, commands, status>>
         /\ \/ UNCHANGED store
            \/ /\ UploadRuns /\ session = "recv" /\ toDevice # <<>>
               /\ (\E buffer : Store(buffer)) \/ store' \in CutStores
<1>1. UNCHANGED <<command, commands, status>>
  BY DEF Device, DeviceHears, TimeoutStart, SendTimeout, host
<1>2. CASE TimeoutStart \/ SendTimeout
  BY <1>1, <1>2 DEF TimeoutStart, SendTimeout
<1>3. CASE DeviceHears
  <2> DEFINE m == Head(toDevice)
  <2>1. toDevice # <<>> /\ toDevice \in Seq(Message) /\ m \in Message
    BY <1>3, Heard DEF DeviceHears, Inv, Basic, Types, QueueTypes
  <2>2. CASE session = "send" /\ HandleSendModes(m)
    BY <1>1, <2>2 DEF HandleSendModes
  <2>3. CASE session = "recv" /\ Protocol(m)
    <3>1. m.type \in {"frame", "eof"} => UploadRuns
      <4>1. SUFFICES ASSUME m.type \in {"frame", "eof"}, ~UploadRuns PROVE FALSE
        OBVIOUS
      <4>2. m \in Framed \cup Eofs
        BY <2>1, <4>1, Kinds
      <4> QED
        BY <2>1, <4>1, <4>2, Heard DEF Inv, Basic, Clean
    <3>2. ASSUME NEW off, HandleFails(off)
          PROVE  UNCHANGED store \/ store' \in CutStores
      BY <3>2 DEF HandleFails
    <3>3. CASE ReceiveFrame(m)
      <4>1. UNCHANGED store \/ (\E buffer : Store(buffer)) \/ store' \in CutStores
        <5>1. CASE HandleFails(offset + Len(m.data))
          BY <3>2, <5>1
        <5>2. CASE HandleRecvModes(offset + Len(m.data), Placed(m.data))
          BY <5>2 DEF HandleRecvModes
        <5> QED
          BY <3>3, <5>1, <5>2 DEF ReceiveFrame
      <4> QED
        BY <1>1, <2>1, <2>3, <3>1, <3>3, <4>1 DEF ReceiveFrame
    <3>4. CASE EndOfFile(m)
      <4>1. UNCHANGED store \/ (\E buffer : Store(buffer)) \/ store' \in CutStores
        <5>1. CASE HandleFails(Buffer)
          BY <3>2, <5>1
        <5>2. CASE UNCHANGED store \/ Store(Padded)
          BY <5>2
        <5> QED
          BY <3>4, <5>1, <5>2 DEF EndOfFile
      <4> QED
        BY <1>1, <2>1, <2>3, <3>1, <3>4, <4>1 DEF EndOfFile
    <3>5. CASE CancelOutOfTurn(m) \/ RefuseFrame(m) \/ GiveUp(m) \/ SetMode(m) \/ OtherCharacters(m)
      BY <1>1, <3>5 DEF CancelOutOfTurn, RefuseFrame, GiveUp, SetMode, OtherCharacters
    <3> QED
      BY <2>3, <3>3, <3>4, <3>5 DEF Protocol
  <2> QED
    BY <1>3, <2>2, <2>3 DEF DeviceHears
<1> QED
  BY <1>2, <1>3 DEF Device

LEMMA HostRefines ==
  ASSUME Inv, Begun, HostHears \/ HostLineTimeout
  PROVE  [Transfer!Next]_(Transfer!vars) /\ Begun'
<1>1. UNCHANGED <<store, commands, command>>
  BY DEF HostHears, HostLineTimeout, HostLine, HostStart, HostAnswer, HostFinish, HostReceive,
         HostWaits, Finish, host, counts
<1>2. CASE UNCHANGED status
  BY <1>1, <1>2, CommandStays
<1>3. CASE /\ hpc # "idle"
           /\ \/ status' = "failed"
              \/ status' = "done" /\ (Uploading => hpc = "finish" /\ Has(toHost, Acks))
  BY <1>1, <1>3, OperationEnds
<1>4. CASE HostHears
  <2> DEFINE m == Head(toHost)
  <2>1. toHost # <<>> /\ toHost \in Seq(Message) /\ m \in Message
    BY <1>4, Heard DEF HostHears, Inv, Basic, Types, QueueTypes
  <2>2. CASE HostLine(m)
    <3>1. hpc # "idle"
      BY <2>2 DEF HostLine
    <3>2. CASE Finish("failed")
      BY <1>3, <3>1, <3>2 DEF Finish
    <3>3. CASE command.mode = "REBO" /\ Finish("done")
      BY <1>3, <3>1, <3>3 DEF Finish, Uploading, ReceiveModes
    <3>4. CASE HostWaits("start") \/ HostWaits("receive") \/ UNCHANGED status
      BY <1>2, <3>4 DEF HostWaits
    <3> QED
      BY <2>2, <3>2, <3>3, <3>4 DEF HostLine, host
  <2>3. CASE HostStart(m) \/ HostAnswer(m)
    <3>1. hpc # "idle" /\ (UNCHANGED status \/ status' = "failed")
      BY <2>3 DEF HostStart, HostAnswer, HostWaits, Finish, host
    <3> QED
      BY <1>2, <1>3, <3>1
  <2>4. CASE HostFinish(m)
    <3>1. /\ hpc = "finish"
          /\ status' = IF m.type = "ack" THEN "done" ELSE "failed"
      BY <2>4 DEF HostFinish, Finish
    <3>2. m.type = "ack" => Has(toHost, Acks)
      BY <2>1, Heard, Kinds
    <3> QED
      BY <1>3, <3>1, <3>2
  <2>5. CASE HostReceive(m)
    <3>1. hpc = "receive" /\ (UNCHANGED status \/ status' \in {"done", "failed"})
      BY <2>5 DEF HostReceive, Finish
    <3>2. ~Uploading
      BY <3>1, Separate DEF Inv, Basic, Places
    <3> QED
      BY <1>2, <1>3, <3>1, <3>2
  <2> QED
    BY <1>4, <2>2, <2>3, <2>4, <2>5 DEF HostHears
<1>5. CASE HostLineTimeout
  BY <1>3, <1>5 DEF HostLineTimeout, Finish
<1> QED
  BY <1>4, <1>5

LEMMA EnterRefines ==
  ASSUME Inv, Inv', Enter
  PROVE  [Transfer!Next]_(Transfer!vars) /\ Begun'
<1>1. UNCHANGED store /\ status' = "busy" /\ Begun'
  BY DEF Enter, Begun
<1>2. CASE Uploading'
  <2>1. Target(command'.mode) \in Targets /\ Goal' \in Contents
    <3>1. Possible'
      BY GoalsStayPossible DEF Inv, Basic
    <3> QED
      BY <1>2, <3>1 DEF Possible
  <2>2. Asked' = [target |-> Target(command'.mode), goal |-> Goal'] /\ Result' = "busy"
    BY <1>1, <1>2 DEF Asked, Result
  <2>3. Asked' \in [target : Targets, goal : Contents]
    BY <2>1, <2>2
  <2>4. Transfer!Begin
    BY <1>1, <2>2, <2>3 DEF Transfer!Begin, Asked, Result
  <2> QED
    BY <1>1, <2>4 DEF Transfer!Next
<1>3. CASE ~Uploading'
  <2>1. Asked' = None /\ Result' = "idle"
    BY <1>3 DEF Asked, Result
  <2>2. Transfer!Leave
    BY <1>1, <2>1 DEF Transfer!Leave, Asked, Result
  <2> QED
    BY <1>1, <2>2 DEF Transfer!Next
<1> QED
  BY <1>2, <1>3

LEMMA StepRefines ==
  ASSUME Inv, Inv', Begun, [Next]_vars
  PROVE  [Transfer!Next]_(Transfer!vars) /\ Begun'
<1>1. CASE Device
  BY <1>1, DeviceStores, CommandStays
<1>2. CASE HostHears \/ HostLineTimeout
  BY <1>2, HostRefines
<1>3. CASE Enter
  BY <1>3, EnterRefines
<1>4. CASE Damage \/ UNCHANGED vars
  <2>1. UNCHANGED <<command, commands, status, store>>
    BY <1>4 DEF Damage, DamageToDevice, DamageToHost, UnexpectedReset, vars, host, counts
  <2> QED
    BY <2>1, CommandStays
<1> QED
  BY <1>1, <1>2, <1>3, <1>4 DEF Next, Host

\* When no damaged frame reads as an end of file, uploads keep the promise of
\* FileTransfer: an upload changes no memory but the one it names, which holds the
\* file when the host takes the upload for done (rescue.c, xmodem.c, xmodem.rs).
THEOREM UploadsKeepTheirPromise ==
  ASSUME "eof" \notin Junk
  PROVE  Spec => ImplementsTransfer
<1>1. Init => Transfer!Init /\ Begun
  BY DEF Init, Transfer!Init, Uploading, Begun
<1>2. Inv /\ Inv' /\ Begun /\ [Next]_vars => [Transfer!Next]_(Transfer!vars) /\ Begun'
  BY StepRefines
<1> QED
  BY <1>1, <1>2, InvAlways, PTL DEF Spec, ImplementsTransfer, Transfer!Spec
=============================================================================
