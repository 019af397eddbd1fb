------------------------------- MODULE Rescue -------------------------------
(***************************************************************************)
(* Rescue mode: the device side of rom_ext/rescue.c and lib/xmodem.c, and   *)
(* the host side of sw/host/opentitanlib/src/rescue, joined by a serial     *)
(* line that damages and loses what it carries.  A resetting device ends a  *)
(* session; the memories it wrote stay as they are.                         *)
(*                                                                          *)
(* Data is counted in units of 128 bytes, a small XModem frame.  The line   *)
(* is a queue of messages each way; what happens to a message happens when  *)
(* it is heard.                                                             *)
(***************************************************************************)
EXTENDS Integers, Sequences

CONSTANTS
  Big,           \* units in a 1K frame
  Buffer,        \* units in rescue_state.data, a flash page
  MsgLen,        \* units in a boot services message
  Pages,         \* flash pages from flash_start to flash_limit
  FrameMod,      \* frame numbers are sent modulo this (256)
  HostMaxErrors, \* Xmodem.max_errors of the host
  StartTries,    \* retries of xmodem_send_start()
  FileLens,      \* lengths of the files that are sent
  Junk,          \* what a payload amounts to when read as characters
  None,
  MaxCommands,   \* bound on the operations of the host
  MaxNaks,       \* bound on payloads damaged on the way to the device
  MaxFaults      \* bound on all other faults

ASSUME ConstantsAssumption ==
  /\ {Big, Buffer, MsgLen, Pages, FrameMod, HostMaxErrors, StartTries} \subseteq Nat \ {0}
  /\ FrameMod > 1
  /\ Buffer % Big = 0 /\ MsgLen <= Buffer
  /\ FileLens \subseteq Nat \ {0}
  /\ Junk \subseteq {"chars", "eof"}
  /\ {MaxCommands, MaxNaks, MaxFaults} \subseteq Nat

kXModemMaxErrors == 2

\* A unit of data: of the file of a host command, or one of these.
Unit == Nat \X Nat
Pad == <<0, 0>>        \* 0xFF, also what erased flash reads
Garbage == <<0, 1>>
Old == <<0, 2>>
Log == <<0, 3>>        \* the boot log is one unit long
Fill(unit) == [i \in 1 .. Buffer |-> unit]

Slots == {"A", "B"}
Targets == Slots \cup {"owner", "msg"}
Contents == [1 .. Pages -> [1 .. Buffer -> Unit]] \cup [1 .. Buffer -> Unit]
            \cup [1 .. MsgLen -> Unit]

ReceiveModes == {"RESQ", "RESB", "OWNR", "BREQ"}
SendModes == {"BLOG", "BRSP"}
Modes == ReceiveModes \cup SendModes \cup {"REBO", "WAIT"}
Target(mode) == CASE mode = "RESQ" -> "A" [] mode = "RESB" -> "B"
                  [] mode = "OWNR" -> "owner" [] mode = "BREQ" -> "msg"

VARIABLES
  session,      \* "recv", "send" in xmodem_send(), "over" after a reset
  mode, wait, frame, offset, data, flash_offset, bank,   \* rescue_state
  tx,           \* the locals of xmodem_send()
  store,        \* the slots, owner page 1 and the boot services message
  toDevice, toHost,
  hpc,          \* what the host is waiting for
  command,      \* its operation
  todo,         \* the modes it still has to set
  block, errors, cancels,  \* its XModem locals
  got,          \* what it has received
  status,       \* of its operation
  commands, naks, faults

device == <<session, mode, wait, frame, offset, data, flash_offset, bank, tx>>
host == <<hpc, command, todo, block, errors, cancels, got, status>>
counts == <<commands, naks, faults>>
vars == <<device, store, toDevice, toHost, host, counts>>
-----------------------------------------------------------------------------
Msg(type) == [type |-> type]
Frame(num, units) == [type |-> "frame", num |-> num % FrameMod, data |-> units]
Mode(m) == [type |-> "mode", mode |-> m]
Line(ok) == [type |-> "line", ok |-> ok]

\* The file of a command, and the frames it is cut into.
FileUnit(i) == IF i <= command.len THEN <<commands, i>> ELSE Pad
HostFrame(k) == Frame(k, [i \in 1 .. command.block_len |->
                            FileUnit((k - 1) * command.block_len + i)])
LastBlock == (command.len + command.block_len - 1) \div command.block_len

\* What an upload is to leave in its target.
Goal ==
  CASE command.mode \in {"RESQ", "RESB"} ->
         [p \in 1 .. Pages |-> [i \in 1 .. Buffer |-> FileUnit((p - 1) * Buffer + i)]]
    [] command.mode = "OWNR" -> [i \in 1 .. Buffer |-> FileUnit(i)]
    [] command.mode = "BREQ" -> [i \in 1 .. MsgLen |-> FileUnit(i)]

Init ==
  /\ session = "over" /\ mode = "RESQ" /\ wait = FALSE /\ frame = 1 /\ offset = 0
  /\ data = Fill(Old) /\ flash_offset = 0 /\ bank = "A"
  /\ tx = [pc |-> "start", block |-> 1, errors |-> 0, cancels |-> 0, tries |-> 0]
  /\ store = [t \in Targets |->
                CASE t \in Slots -> [p \in 1 .. Pages |-> Fill(Old)]
                  [] t = "owner" -> Fill(Old)
                  [] t = "msg" -> [i \in 1 .. MsgLen |-> Old]]
  /\ toDevice = <<>> /\ toHost = <<>>
  /\ hpc = "idle" /\ command = None /\ todo = <<>>
  /\ block = 0 /\ errors = 0 /\ cancels = 0 /\ got = <<>> /\ status = "idle"
  /\ commands = 0 /\ naks = 0 /\ faults = 0
Fault == faults < MaxFaults /\ faults' = faults + 1
-----------------------------------------------------------------------------
\* Device: what it sends.  After a reset it boots and prints text, far more
\* bytes than the host takes for errors.
Reply(msgs) == toHost' = toHost \o msgs
\* protocol() returns an error, or kErrorRescueReboot: the chip resets.
EndsWith(msgs) ==
  /\ session' = "over" /\ Reply(msgs \o <<Msg("text")>>)
  /\ UNCHANGED <<mode, wait, frame, offset, data, flash_offset, bank, tx>>

\* validate_mode()
ValidateMode(m, msgs) ==
  \/ /\ m = "WAIT"
     /\ wait' = TRUE /\ Reply(msgs \o <<Line(TRUE)>>)
     /\ UNCHANGED <<session, mode, frame, offset, flash_offset, bank, tx>>
  \/ /\ m \notin Modes
     /\ Reply(msgs \o <<Line(FALSE)>>)
     /\ UNCHANGED <<session, mode, wait, frame, offset, flash_offset, bank, tx>>
  \/ /\ m \in ReceiveModes \cup SendModes
     /\ mode' = m /\ frame' = 1 /\ offset' = 0 /\ flash_offset' = 0
     /\ bank' = CASE m = "RESQ" -> "A" [] m = "RESB" -> "B" [] OTHER -> bank
     /\ session' = IF m \in SendModes THEN "send" ELSE "recv"
     /\ tx' = [pc |-> "start", block |-> 1, errors |-> 0, cancels |-> 0, tries |-> 0]
     /\ Reply(msgs \o <<Line(TRUE)>>) /\ UNCHANGED wait
  \/ m = "REBO" /\ EndsWith(msgs \o <<Line(TRUE)>>)

\* flash_firmware_block(): the first block erases the slot.
NextPage == IF flash_offset = 0 THEN 1 ELSE flash_offset
SlotBefore == IF flash_offset = 0 THEN [p \in 1 .. Pages |-> Fill(Pad)] ELSE store[bank]
\* [variant] it is always slot A.
FlashFirmwareOtherSlot(buffer) ==
  /\ NextPage <= Pages
  /\ store' = [store EXCEPT !["A"] = [SlotBefore EXCEPT ![NextPage] = buffer]]
\* [variant] without the check of flash_limit.
FlashFirmwareUnlimited(buffer) ==
  store' = [store EXCEPT ![bank] = [SlotBefore EXCEPT ![NextPage] = buffer]]
FlashFirmwareBlock(buffer) ==
  /\ NextPage <= Pages
  /\ store' = [store EXCEPT ![bank] = [SlotBefore EXCEPT ![NextPage] = buffer]]
FlashOwnerBlock(buffer) == store' = [store EXCEPT !["owner"] = buffer]
CopyMessage(buffer) ==
  store' = [store EXCEPT !["msg"] = [i \in 1 .. MsgLen |-> buffer[i]]]
Store(buffer) ==
  \/ mode = "BREQ" /\ CopyMessage(buffer)
  \/ mode = "OWNR" /\ FlashOwnerBlock(buffer)
  \/ mode \in {"RESQ", "RESB"} /\ FlashFirmwareBlock(buffer)

\* handle_recv_modes(), which waits until it has enough data.
\* [variant] the boundary is passed.
EnoughTooLate(off) == off > Buffer
Enough(off) == IF mode = "BREQ" THEN off >= MsgLen ELSE off = Buffer
HandleRecvModes(off, buffer) ==
  \/ ~Enough(off) /\ offset' = off /\ UNCHANGED <<store, flash_offset>>
  \/ /\ Enough(off) /\ Store(buffer) /\ offset' = 0
     /\ flash_offset' = IF mode \in {"RESQ", "RESB"} THEN NextPage + 1 ELSE flash_offset

\* One block too many, or a flash operation that fails or is cut by a reset:
\* the pages are erased in turn, the one that was touched may hold anything.
CutErases == {[p \in 1 .. Pages |->
    CASE p < cut -> Fill(Pad) [] p = cut -> Fill(Garbage) [] p > cut -> store[bank][p]]
  : cut \in IF flash_offset = 0 THEN 1 .. Pages ELSE {}}
CutWrites == {[SlotBefore EXCEPT ![NextPage] = Fill(u)] : u \in {Pad, Garbage}}
CutStores ==
  CASE mode = "BREQ" -> {[store EXCEPT !["msg"] = [i \in 1 .. MsgLen |-> Garbage]]}
    [] mode = "OWNR" -> {[store EXCEPT !["owner"] = Fill(u)] : u \in {Pad, Garbage}}
    [] mode \in {"RESQ", "RESB"} ->
         {[store EXCEPT ![bank] = slot] : slot \in CutErases \cup CutWrites}
TooBig == mode \in {"RESQ", "RESB"} /\ NextPage > Pages
HandleFails(off) ==
  /\ Enough(off)
  /\ \/ TooBig /\ UNCHANGED <<store, faults>>
     \/ ~TooBig /\ Fault /\ store' \in CutStores
  /\ EndsWith(<<>>)

\* The buffer with a frame put at the offset, and padded at the end of file.
Placed(units) == [i \in 1 .. Buffer |->
  IF i \in offset + 1 .. offset + Len(units) THEN units[i - offset] ELSE data[i]]
Padded == [i \in 1 .. Buffer |-> IF i > offset THEN Pad ELSE data[i]]
-----------------------------------------------------------------------------
\* protocol(), for what xmodem_recv_frame() makes of the message m.
\* [variant] the number is not looked at.
AnyNumber(m) == m.type # "number"
Expected(m) == m.num = frame % FrameMod
ReceiveFrame(m) ==
  /\ m.type = "frame" /\ Expected(m)
  /\ LET off == offset + Len(m.data) IN
     \/ /\ HandleRecvModes(off, Placed(m.data))
        /\ data' = Placed(m.data) /\ frame' = frame + 1 /\ Reply(<<Msg("ack")>>)
        /\ UNCHANGED <<session, mode, wait, bank, tx, faults>>
     \/ HandleFails(off)

CancelOutOfTurn(m) ==
  /\ m.type = "number" \/ (m.type \in {"frame", "crc"} /\ ~Expected(m))
  /\ EndsWith(<<>>) /\ UNCHANGED <<store, faults>>

\* A wrong CRC: the data is in the buffer, but the offset does not move.
\* [variant] it ends the session.
RefuseFrameEnds(m) ==
  m.type = "crc" /\ Expected(m) /\ EndsWith(<<>>) /\ UNCHANGED <<store, faults>>
RefuseFrame(m) ==
  /\ m.type = "crc" /\ Expected(m)
  /\ data' = Placed([i \in DOMAIN m.data |-> Garbage])
  /\ Reply(<<Msg("nak")>>)
  /\ UNCHANGED <<session, mode, wait, frame, offset, flash_offset, bank, tx, store,
                 faults>>

\* The rest of a frame does not come, or characters come within a transfer.
GiveUp(m) ==
  /\ m.type = "short" \/ (frame # 1 /\ m.type \in {"mode", "chars"})
  /\ EndsWith(<<>>) /\ UNCHANGED <<store, faults>>

EndOfFile(m) ==
  /\ m.type = "eof"
  /\ \/ /\ \/ offset % Buffer = 0 /\ UNCHANGED store
           \/ offset % Buffer # 0 /\ Store(Padded)
        /\ UNCHANGED faults
        /\ \/ ~wait /\ EndsWith(<<Msg("ack")>>)
           \/ /\ wait /\ Reply(<<Msg("ack")>>)
              /\ frame' = 1 /\ offset' = 0 /\ flash_offset' = 0
              /\ UNCHANGED <<session, mode, wait, data, bank, tx>>
     \/ offset % Buffer # 0 /\ HandleFails(Buffer)

\* Characters before the first frame: a mode and a return, or anything else.
SetMode(m) ==
  /\ frame = 1 /\ m.type = "mode"
  /\ ValidateMode(m.mode, <<>>) /\ UNCHANGED <<data, store, faults>>
OtherCharacters(m) ==
  /\ frame = 1 /\ m.type = "chars"
  /\ Reply(<<>>) \/ Reply(<<Msg("text")>>)   \* if a return is among them
  /\ UNCHANGED <<device, store, faults>>

Protocol(m) == \/ ReceiveFrame(m) \/ CancelOutOfTurn(m) \/ RefuseFrame(m)
               \/ GiveUp(m) \/ EndOfFile(m) \/ SetMode(m)
               \/ OtherCharacters(m)

\* The host is in time, unless all it has got is the beginning of a frame.
HostWaiting == toHost = <<>> \/ (Len(toHost) = 1 /\ toHost[1].type = "short")
\* The line is silent: another prompt before the first frame, the end after it.
\* [variant] the device waits for ever.
TimeoutStartWaits ==
  /\ session = "recv" /\ toDevice = <<>> /\ hpc = "start" /\ toHost = <<>>
  /\ frame = 1 /\ Reply(<<Msg("C")>>)
  /\ UNCHANGED <<device, store, toDevice, host, commands, naks, faults>>
TimeoutStart ==
  /\ session = "recv" /\ toDevice = <<>> /\ hpc # "line"
  /\ IF HostWaiting THEN UNCHANGED faults ELSE Fault
  /\ \/ frame = 1 /\ hpc # "idle" /\ Reply(<<Msg("C")>>) /\ UNCHANGED device
     \/ frame # 1 /\ EndsWith(<<>>)
  /\ UNCHANGED <<store, toDevice, host, commands, naks>>
-----------------------------------------------------------------------------
\* xmodem_send(): the boot log or the message, in small frames.
SentUnits == IF mode = "BLOG" THEN <<Log>> ELSE store["msg"]
DeviceFrame(k) == Frame(k, <<SentUnits[k]>>)
SendFails == EndsWith(<<>>)
Sending(record, msgs) ==
  tx' = record /\ Reply(msgs)
  /\ UNCHANGED <<session, mode, wait, frame, offset, flash_offset, bank>>

\* xmodem_send_start(): a number of bytes, or seconds without one.
StartTry == IF tx.tries + 1 < StartTries
            THEN Sending([tx EXCEPT !.tries = @ + 1], <<>>) ELSE SendFails
SendStart(m) ==
  /\ tx.pc = "start"
  /\ \/ m.type = "C"
        /\ Sending([tx EXCEPT !.pc = "answer"], <<DeviceFrame(1)>>)
     \/ m.type = "nak" /\ SendFails
     \/ m.type \notin {"C", "nak"} /\ StartTry

\* xmodem_send_data(): the counts of errors and cancels are for all blocks.
SendAgain(record) == Sending(record, <<DeviceFrame(tx.block)>>)
SendAnswer(m) ==
  /\ tx.pc = "answer"
  /\ \/ /\ m.type = "ack" /\ tx.block < Len(SentUnits)
        /\ Sending([tx EXCEPT !.block = @ + 1], <<DeviceFrame(tx.block + 1)>>)
     \/ /\ m.type = "ack" /\ tx.block = Len(SentUnits)
        /\ Sending([tx EXCEPT !.pc = "finish"], <<Msg("eof")>>)
     \/ /\ m.type = "can" /\ tx.cancels = 0 /\ SendAgain([tx EXCEPT !.cancels = 1])
     \/ /\ m.type = "can" /\ tx.cancels = 1 /\ SendFails
     \/ /\ m.type \notin {"ack", "can"}
        /\ IF tx.errors + 1 < kXModemMaxErrors
           THEN SendAgain([tx EXCEPT !.errors = @ + 1]) ELSE SendFails
\* xmodem_send_finish() takes any answer, or none; back to firmware rescue.
SendFinish == tx.pc = "finish" /\ ValidateMode("RESQ", <<>>)

HandleSendModes(m) ==
  /\ SendStart(m) \/ SendAnswer(m) \/ SendFinish
  /\ UNCHANGED <<data, store, faults>>
SendTimeout ==
  /\ session = "send" /\ toDevice = <<>>
  /\ IF HostWaiting THEN UNCHANGED faults ELSE Fault
  /\ \/ tx.pc = "start" /\ StartTry
     \/ tx.pc = "answer" /\ SendFails
     \/ SendFinish
  /\ UNCHANGED <<data, store, toDevice, host, commands, naks>>

DeviceHears ==
  /\ toDevice # <<>>
  /\ \/ session = "recv" /\ Protocol(Head(toDevice))
     \/ session = "send" /\ HandleSendModes(Head(toDevice))
  /\ toDevice' = IF session' = "over" THEN <<>> ELSE Tail(toDevice)
  /\ UNCHANGED <<host, commands, naks>>
-----------------------------------------------------------------------------
\* Host.  What it sends to a device that has left rescue mode has no effect.
HostSends(msgs) == toDevice' = IF session = "over" THEN <<>> ELSE toDevice \o msgs
HostWaits(pc) == hpc' = pc /\ UNCHANGED <<command, todo, errors, cancels, got, status>>
Finish(result) ==
  /\ hpc' = "idle" /\ status' = result
  /\ UNCHANGED <<command, todo, block, errors, cancels, got>>

Commands ==
  [mode : {"RESQ", "RESB"}, wait : BOOLEAN, len : FileLens, block_len : {1, Big}]
  \cup [mode : {"OWNR"}, wait : {FALSE}, len : FileLens \cap 1 .. Buffer, block_len : {Big}]
  \cup [mode : {"BREQ"}, wait : {FALSE}, len : {MsgLen}, block_len : {1, Big}]
  \cup [mode : SendModes \cup {"REBO"}, wait : {FALSE}, len : {1}, block_len : {1}]
ASSUME NoneAssumption == None \notin Commands

\* enter() resets the device and clears the line, up to the first answer.
Enter ==
  /\ hpc = "idle" /\ commands < MaxCommands /\ commands' = commands + 1
  /\ session' = "recv" /\ mode' = "RESQ" /\ wait' = FALSE /\ frame' = 1 /\ offset' = 0
  /\ data' = Fill(Garbage) /\ flash_offset' = 0 /\ bank' = "A"
  /\ command' \in Commands
  /\ todo' = (IF command'.wait THEN <<"WAIT">> ELSE <<>>) \o <<command'.mode>>
  /\ toDevice' = <<Mode(Head(todo'))>> /\ toHost' \in {<<>>, <<Msg("C")>>}
  /\ hpc' = "line" /\ status' = "busy" /\ got' = <<>>
  /\ block' = 0 /\ errors' = 0 /\ cancels' = 0
  /\ UNCHANGED <<tx, store, naks, faults>>

\* set_mode(): wait_for() skips what is no answer and gives up after a second.
HostLine(m) ==
  /\ hpc = "line"
  /\ \/ /\ m.type = "line" /\ m.ok /\ Len(todo) > 1
        /\ HostSends(<<Mode(todo[2])>>) /\ todo' = Tail(todo)
        /\ UNCHANGED <<hpc, command, block, errors, cancels, got, status>>
     \/ /\ m.type = "line" /\ m.ok /\ Len(todo) = 1
        /\ \/ command.mode \in ReceiveModes
              /\ HostWaits("start") /\ UNCHANGED <<toDevice, block>>
           \/ command.mode \in SendModes
              /\ HostWaits("receive") /\ HostSends(<<Msg("C")>>) /\ block' = 1
           \/ command.mode = "REBO" /\ Finish("done") /\ UNCHANGED toDevice
     \/ m.type = "line" /\ ~m.ok /\ Finish("failed") /\ UNCHANGED toDevice
     \/ m.type # "line" /\ UNCHANGED <<host, toDevice>>
HostLineTimeout ==
  /\ hpc = "line" /\ toHost = <<>> /\ toDevice = <<>>
  /\ Finish("failed")
  /\ UNCHANGED <<device, store, toDevice, toHost, counts>>

\* send_start()
HostStart(m) ==
  /\ hpc = "start"
  /\ \/ m.type = "C"
        /\ HostWaits("answer") /\ HostSends(<<HostFrame(1)>>) /\ block' = 1
     \/ m.type = "nak" /\ Finish("failed") /\ UNCHANGED toDevice
     \/ m.type \notin {"C", "nak"} /\ UNCHANGED <<host, toDevice>>

\* send_data(): anything but ACK is an error, and the frame is sent again.
HostAnswer(m) ==
  /\ hpc = "answer"
  /\ \/ /\ m.type = "ack" /\ block < LastBlock
        /\ HostWaits("answer") /\ HostSends(<<HostFrame(block + 1)>>) /\ block' = block + 1
     \/ /\ m.type = "ack" /\ block = LastBlock
        /\ HostWaits("finish") /\ HostSends(<<Msg("eof")>>) /\ UNCHANGED block
     \/ /\ m.type \notin {"ack", "text"} /\ errors + 1 < HostMaxErrors
        /\ errors' = errors + 1 /\ HostSends(<<HostFrame(block)>>)
        /\ UNCHANGED <<hpc, command, todo, block, cancels, got, status>>
     \/ /\ m.type \notin {"ack", "text"} /\ errors + 1 >= HostMaxErrors
        /\ Finish("failed") /\ UNCHANGED toDevice
     \/ /\ m.type = "text"   \* an error for each character
        /\ Finish("failed") /\ HostSends(<<HostFrame(block), HostFrame(block)>>)

\* send_finish() does not insist on the ACK; here the upload is done with it.
HostFinish(m) ==
  /\ hpc = "finish"
  /\ Finish(IF m.type = "ack" THEN "done" ELSE "failed") /\ UNCHANGED toDevice

\* receive()
\* [variant] the number is not looked at.
HostAnyNumber(m) == m.type # "number"
HostExpected(m) == m.num = block % FrameMod
HostReceive(m) ==
  /\ hpc = "receive"
  /\ \/ /\ m.type = "frame" /\ HostExpected(m)
        /\ got' = got \o m.data /\ block' = block + 1 /\ HostSends(<<Msg("ack")>>)
        /\ UNCHANGED <<hpc, command, todo, errors, cancels, status>>
     \/ /\ m.type = "crc" /\ HostExpected(m) /\ errors + 1 < HostMaxErrors
        /\ errors' = errors + 1 /\ HostSends(<<Msg("nak")>>)
        /\ UNCHANGED <<hpc, command, todo, block, cancels, got, status>>
     \/ /\ m.type = "crc" /\ HostExpected(m) /\ errors + 1 >= HostMaxErrors
        /\ Finish("failed") /\ HostSends(<<Msg("nak")>>)
     \/ /\ m.type = "number" \/ (m.type \in {"frame", "crc"} /\ ~HostExpected(m))
        /\ Finish("failed") /\ HostSends(<<Msg("can"), Msg("can")>>)
     \/ /\ m.type = "eof" /\ Finish("done") /\ HostSends(<<Msg("ack")>>)
     \/ /\ m.type = "short" /\ Len(toHost) > 1 /\ Finish("failed") /\ UNCHANGED toDevice
     \/ /\ m.type \notin {"frame", "crc", "number", "eof", "short"}
        /\ Finish("failed") /\ UNCHANGED toDevice

HostHears ==
  /\ toHost # <<>> /\ toHost' = Tail(toHost)
  /\ LET m == Head(toHost) IN
       HostLine(m) \/ HostStart(m) \/ HostAnswer(m) \/ HostFinish(m) \/ HostReceive(m)
  /\ UNCHANGED <<device, store, counts>>
-----------------------------------------------------------------------------
\* The line damages or loses the next message.  A payload whose first byte is
\* damaged is read as characters.  Boot text is too long to be lost.
DamagedFrame(m) == {[m EXCEPT !.type = t] : t \in {"number", "short"}}
                   \cup {Msg(t) : t \in Junk}
DamageToDevice ==
  /\ toDevice # <<>>
  /\ LET m == Head(toDevice)
         Becomes(other) == toDevice' = <<other>> \o Tail(toDevice)
     IN \/ /\ m.type = "frame" /\ naks < MaxNaks /\ naks' = naks + 1
           /\ Becomes([m EXCEPT !.type = "crc"]) /\ UNCHANGED faults
        \/ /\ Fault /\ UNCHANGED naks
           /\ \/ m.type = "frame" /\ \E d \in DamagedFrame(m) : Becomes(d)
              \/ m.type = "mode" /\ Becomes(Mode("bad"))
              \/ m.type \notin {"frame", "crc", "mode"} /\ Becomes(Msg("chars"))
              \/ toDevice' = Tail(toDevice)
  /\ UNCHANGED <<device, store, toHost, host, commands>>
DamageToHost ==
  /\ toHost # <<>> /\ Head(toHost).type # "text" /\ Fault
  /\ LET m == Head(toHost)
         Becomes(other) == toHost' = <<other>> \o Tail(toHost)
     IN \/ m.type = "frame" /\ \E t \in {"crc", "number", "short"} :
                                 Becomes([m EXCEPT !.type = t])
        \/ Becomes(Msg("chars"))
        \/ toHost' = Tail(toHost)
  /\ UNCHANGED <<device, store, toDevice, host, commands, naks>>

\* A watchdog or alert reset, or power that comes back at once.
UnexpectedReset ==
  /\ session # "over" /\ Fault /\ EndsWith(<<>>) /\ toDevice' = <<>>
  /\ UNCHANGED <<data, store, host, commands, naks>>
-----------------------------------------------------------------------------
Device == DeviceHears \/ TimeoutStart \/ SendTimeout
Host == HostHears \/ HostLineTimeout
Damage == DamageToDevice \/ DamageToHost \/ UnexpectedReset
Next == Device \/ Host \/ Enter \/ Damage

Spec == Init /\ [][Next]_vars
\* Both CPUs keep running and the device's timer expires; nothing need be
\* damaged, and nothing need be sent.
FairSpec == Spec /\ WF_vars(Device) /\ WF_vars(Host)
-----------------------------------------------------------------------------
Message ==
  [type : {"ack", "nak", "can", "eof", "C", "chars", "text"}]
  \cup [type : {"frame", "crc", "number", "short"}, num : Nat, data : Seq(Unit)]
  \cup [type : {"mode"}, mode : Modes \cup {"bad"}] \cup [type : {"line"}, ok : BOOLEAN]
TypeOK ==
  /\ session \in {"recv", "send", "over"} /\ mode \in ReceiveModes \cup SendModes
  /\ wait \in BOOLEAN /\ bank \in Slots /\ flash_offset \in 0 .. Pages + 1
  /\ frame \in Nat \ {0} /\ offset \in 0 .. Buffer - 1 /\ data \in [1 .. Buffer -> Unit]
  /\ tx \in [pc : {"start", "answer", "finish"}, block : Nat, errors : Nat,
             cancels : Nat, tries : Nat]
  /\ \A t \in Targets :
       store[t] \in CASE t \in Slots -> [1 .. Pages -> [1 .. Buffer -> Unit]]
                      [] t = "owner" -> [1 .. Buffer -> Unit]
                      [] t = "msg" -> [1 .. MsgLen -> Unit]
  /\ toDevice \in Seq(Message) /\ toHost \in Seq(Message)
  /\ hpc \in {"idle", "line", "start", "answer", "finish", "receive"}
  /\ command \in Commands \cup {None} /\ todo \in Seq(Modes)
  /\ {block, errors, cancels} \subseteq Nat /\ got \in Seq(Unit)
  /\ status \in {"idle", "busy", "done", "failed"}
  /\ commands \in 0 .. MaxCommands /\ naks \in 0 .. MaxNaks /\ faults \in 0 .. MaxFaults

\* xmodem_recv_frame() puts a frame, good or bad, at data + offset and checks no
\* bound: what this host sends always fits, in every mode and after every
\* refused, repeated or abandoned frame.
FramesFit ==
  session = "recv" /\ toDevice # <<>> /\ Head(toDevice).type \in {"frame", "crc", "number"}
    => offset + Len(Head(toDevice).data) <= Buffer

\* flash_firmware_block() over the frames of a session: the pages below
\* flash_offset hold the beginning of the file, in order and without a gap or
\* a repetition, and the rest of the slot is erased.
PagesInOrder ==
  session = "recv" /\ flash_offset # 0 =>
    \A p \in 1 .. Pages :
      store[bank][p] = IF p < flash_offset THEN Goal[p] ELSE Fill(Pad)

\* A host that receives a whole file has what the device held.
DownloadIsExact ==
  status = "done" /\ command.mode \in SendModes =>
    got = IF command.mode = "BLOG" THEN <<Log>> ELSE store["msg"]

Fits == command.mode \in {"RESQ", "RESB"} => command.len <= Pages * Buffer
Uploading == command # None /\ command.mode \in ReceiveModes

\* When the host has the acknowledgement of the end of its file, the memory it
\* named holds the file, whatever was damaged, lost, refused or repeated on the
\* way, whatever resets came in between.  rom_ext/doc/rescue.md:158 "An invalid
\* start-of-packet: the transfer is aborted" makes it so also for a frame whose
\* first byte is damaged; it does not hold where that frame then reads as an end
\* of file.
AcknowledgedIsStored ==
  Uploading /\ status = "done" => Fits /\ store[Target(command.mode)] = Goal

\* What an upload promises: see FileTransfer.
Transfer == INSTANCE FileTransfer WITH
  Goals <- Contents,
  upload <- IF Uploading THEN [target |-> Target(command.mode), goal |-> Goal] ELSE None,
  status <- IF Uploading THEN status ELSE "idle"
ImplementsTransfer == Transfer!Spec

\* Every operation of the host ends, whatever the line and resets do to it, but
\* for one that waits for a device that has left rescue mode.
OperationsEnd == (hpc # "idle") ~> (hpc = "idle" \/ (hpc = "start" /\ session = "over"))

\* Payloads that are damaged are sent again until the file has arrived.
DamagedFramesAreRepeated ==
  (hpc = "start" /\ Fits /\ faults = 0) ~> (status = "done" \/ faults > 0)
=============================================================================
