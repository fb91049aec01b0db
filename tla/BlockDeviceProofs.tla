------------------------- MODULE BlockDeviceProofs --------------------------
(***************************************************************************)
(* Proofs about BlockDevice: host and device stay in step as long as no    *)
(* transport error is met, a failed command is reported as what the device *)
(* said of it, the layers implement BlockStore, and the endpoints in use   *)
(* are the storage interface's own.                                        *)
(***************************************************************************)
EXTENDS BlockDevice, WellFoundedInduction, TLAPS

-----------------------------------------------------------------------------
(* The inductive invariant. While the link works, each await of command()  *)
(* knows what the device has queued, what it awaits and how the toggles    *)
(* compare; and what the host has received is what the operation is owed.  *)

Senses == Nat \X Nat \X Nat

\* The link to a device in use has not failed.
Live == ~broken /\ stage \notin {"connect", "ignored"}

IsSeq(f) == f \in Seq({f[i] : i \in 1..Len(f)})

\* The four forms of a command block.
Reads(c) ==
    /\ c.op \in {"read10", "read16"} /\ c.dir = "in"
    /\ c.lba \in Nat /\ c.count \in Nat
    /\ c.len \in Nat /\ \E b \in 1..c.len : c.len = FullPacket * b
Asks(c) ==
    /\ c.dir = "in"
    /\ \/ c.op = "inquiry" /\ c.len = 36
       \/ c.op = "read_capacity_10" /\ c.len = 8
       \/ c.op = "read_capacity_16" /\ c.len = 32
       \/ c.op = "report_supported_operation_codes" /\ c.len = 4
       \/ c.op = "block_limits_page" /\ c.len = 64
       \/ c.op = "request_sense" /\ c.len = 18
Writes(c) ==
    /\ c.op \in {"write10", "write16"} /\ c.dir = "out"
    /\ c.lba \in Nat /\ c.count \in Nat /\ Len(c.data) \in Nat
    /\ {"op", "dir", "lba", "count", "tag", "data"} \subseteq DOMAIN c
Tests(c) == c.op = "test_unit_ready" /\ c.dir = "none"

\* c is a command for the operation o.
Serves(o, c) ==
    /\ Reads(c) \/ Asks(c) \/ Writes(c) \/ Tests(c)
    /\ c.op # "request_sense"
    /\ o.kind = "read" =>
          /\ Reads(c) /\ c.lba = o.offset /\ c.count = o.count
          /\ o.buf \in Nat \ {0} /\ c.len = FullPacket * o.buf
    /\ o.kind = "write" <=> Writes(c)
    /\ o.kind = "write" =>
          /\ c.lba = o.offset /\ c.count = o.count
          /\ c.data = o.data /\ Len(o.data) = o.buf
    /\ o.kind = "info" => c.op \in {"read_capacity_10", "read_capacity_16"}

\* The blocks of the operation o exist, fit in its buffer and hold d.
Holding(o, d, blocks) ==
    /\ o.buf >= o.count /\ Store!Extent(o) \subseteq DOMAIN blocks
    /\ \A b \in Store!Extent(o) : d[b - o.offset + 1] = blocks[b]

\* What the operation o is owed when its command has succeeded, having moved
\* n bytes, of least bytes asked for, and filled the buffer with d.
Yields(o, n, least, d, blocks, last) ==
    /\ o.kind = "read" /\ ~(n < FullPacket * o.buf) => Holding(o, d, blocks)
    /\ o.kind = "write" => Holding(o, o.data, blocks)
    /\ o.kind = "info" /\ ~(n < least) => d[1][1] \in 0..last

\* Everything before the status is full packets and then either a packet that
\* ends the transfer, within the buffer, or a stall.
Filled(f, len) ==
    LET n == Len(f) - 1
    IN  /\ f[n].kind = "data" /\ f[n].size \in Nat
        /\ f[n].size < FullPacket \/ FullPacket * n >= len
        /\ FullPacket * (n - 1) < len
        /\ FullPacket * (n - 1) + f[n].size <= len
Stalled(f, len) ==
    LET n == Len(f) - 1
    IN  f[n] = Stall /\ FullPacket * (n - 1) < len
Shape(f, len, t) ==
    LET n == Len(f) - 1
    IN  /\ IsSeq(f) /\ Len(f) \in Nat /\ n >= 1
        /\ \A i \in 1..(n - 1) : f[i].kind = "data" /\ f[i].size = FullPacket
        /\ \E s \in 0..2 : f[n + 1] = Csw(t, s)
        /\ Filled(f, len) \/ Stalled(f, len)

\* Or there is an empty packet, and a halt before the status.
Halts(f, t) == \E s \in 0..2 : f = <<Data(0, <<>>), Stall, Csw(t, s)>>

Quiet == inFifo = <<>> /\ taking = NoWrite /\ toggle = devToggle

\* A write whose data the device awaits; with a count of 0 it will fail.
AwaitsData ==
    /\ ~outHalted /\ inFifo = <<>> /\ taking # NoWrite
    /\ taking.lba = cmd.lba /\ taking.tag = cmd.tag
    /\ taking.count \in {0, cmd.count}
    /\ taking.count > 0 => cmd.lba + cmd.count - 1 <= unit.last

Refused == outHalted /\ taking = NoWrite /\ inFifo = <<Csw(cmd.tag, 1)>>

\* Where both ends are, at each await.
PhaseOK ==
    /\ pc \in {"idle", "cbw", "done"} => Quiet
    /\ pc = "data" => toggle = devToggle
    /\ pc = "data" /\ cmd.dir = "in" =>
          /\ taking = NoWrite
          /\ Shape(inFifo, cmd.len, cmd.tag) \/ Halts(inFifo, cmd.tag)
    /\ pc = "data" /\ cmd.dir = "out" => AwaitsData \/ Refused
    /\ pc = "data" => cmd.dir # "none"
    /\ pc = "clear" =>
          /\ taking = NoWrite
          /\ [toggle EXCEPT !.in = 0] = [devToggle EXCEPT !.in = 0]
          /\ \/ inFifo = <<Csw(cmd.tag, 1)>>
             \/ /\ cmd.dir = "in"
                /\ \E s \in 0..2 : inFifo = <<Stall, Csw(cmd.tag, s)>>
    /\ pc = "csw" =>
          /\ taking = NoWrite /\ toggle = devToggle
          /\ \E s \in 0..2 : \/ inFifo = <<Csw(cmd.tag, s)>>
                            \/ inFifo = <<Stall, Csw(cmd.tag, s)>>

\* What an operation's own command has brought so far.
ServingOK ==
    /\ Serves(op, cmd)
    /\ pc = "data" /\ cmd.dir = "in" /\ Filled(inFifo, cmd.len)
       /\ inFifo[Len(inFifo)].body[2] = 0 =>
          Yields(op, Size(SubSeq(inFifo, 1, Len(inFifo) - 1)), cmd.len,
                 Bodies(Len(inFifo) - 1), store, unit.last)
    /\ pc = "csw" /\ inFifo[1].kind = "csw" /\ inFifo[1].body[2] = 0 =>
          Yields(op, response, cmd.len, data, store, unit.last)
    /\ pc = "done" =>
          /\ rc \in {"Ok", "CommandFailed", "ProtocolError"}
          /\ rc = "Ok" => Yields(op, response, cmd.len, data, store, unit.last)

\* REQUEST SENSE brings the sense of the command that failed.
ExplainingOK ==
    /\ cmd.op = "request_sense" /\ cmd.dir = "in" /\ cmd.len = 18
    /\ why = sense /\ pc # "clear"
    /\ pc = "data" => inFifo = <<Data(18, sense), Csw(cmd.tag, 0)>>
    /\ pc = "csw" => inFifo = <<Csw(cmd.tag, 0)>>
    /\ pc \in {"csw", "done"} => response = 18 /\ data = <<sense>>
    /\ pc = "done" => rc = "Ok"

\* What the caller of a command has been given.
ReturnedOK ==
    \/ outcome.rc = "ProtocolError"
    \/ /\ outcome.rc = "Ok"
       /\ Yields(op, outcome.n, cmd.len, outcome.data, store, unit.last)
       /\ op.kind = "info" => ~(outcome.n < cmd.len)
    \/ why \in Senses /\ outcome.rc = Upgraded(why) /\ outcome.rc # "Ok"

LinkOK ==
    Live =>
        /\ PhaseOK /\ sense \in Senses
        /\ pc # "idle" /\ ~upgrading => ServingOK
        /\ pc # "idle" /\ upgrading => ExplainingOK
        /\ pc = "idle" /\ op # NoOperation => ReturnedOK

\* The medium, and the application between operations.
UseOK ==
    /\ unit \in Units /\ store \in [0..unit.last -> Range(store)]
    /\ op = NoOperation => pc = "idle" /\ outcome = NoOutcome
    /\ pc = "idle" => ~upgrading
    /\ op # NoOperation => answer = NoAnswer /\ stage \notin {"connect", "ignored"}
    /\ stage = "connect" /\ plugged =>
          /\ inFifo = <<>> /\ taking = NoWrite /\ sense = NoSense
          /\ devToggle = [in |-> 0, out |-> 0]
    /\ upgrading \in BOOLEAN

Inv == UseOK /\ LinkOK

-----------------------------------------------------------------------------
(* Sequences of packets.                                                   *)

\* The least member of a set of numbers.
LEMMA MinIs ==
    ASSUME NEW S \in SUBSET Int, NEW x \in S, \A y \in S : x <= y
    PROVE  Min(S) = x
<1>1. \A z \in S : (\A y \in S : z <= y) => z = x
    <2>1. SUFFICES ASSUME NEW z \in S, \A y \in S : z <= y
                   PROVE  z = x
        OBVIOUS
    <2>2. z \in Int /\ x \in Int /\ z <= x /\ x <= z
        BY <2>1
    <2> QED BY <2>2
<1> QED BY <1>1 DEF Min

\* A function on 1..n is a sequence of its values.
LEMMA FcnIsSeq ==
    ASSUME NEW n \in Nat, NEW S, NEW f \in [1..n -> S]
    PROVE  IsSeq(f) /\ Len(f) = n
<1>1. f \in Seq(S) /\ Len(f) = n
    OBVIOUS
<1>2. \A i \in 1..Len(f) : f[i] \in {f[j] : j \in 1..Len(f)}
    OBVIOUS
<1>3. f \in [1..n -> {f[j] : j \in 1..Len(f)}]
    BY <1>1, <1>2
<1>4. f \in Seq({f[i] : i \in 1..Len(f)})
    BY <1>1, <1>3
<1>5. IsSeq(f)
    BY <1>4, Zenon DEF IsSeq
<1> QED BY <1>1, <1>5

\* The last element of a sequence.
LEMMA LastOne ==
    ASSUME NEW f, IsSeq(f), NEW n \in Nat, Len(f) = n + 1
    PROVE  SubSeq(f, n + 1, Len(f)) = <<f[n + 1]>>
<1>1. SubSeq(f, n + 1, Len(f)) = [i \in 1..1 |-> f[i + n]]
    BY DEF IsSeq
<1>2. [i \in 1..1 |-> f[i + n]] = <<f[n + 1]>>
    OBVIOUS
<1> QED BY <1>1, <1>2

\* Its last two elements.
LEMMA LastTwo ==
    ASSUME NEW f, IsSeq(f), NEW n \in Nat, Len(f) = n + 1, n >= 1
    PROVE  SubSeq(f, n, Len(f)) = <<f[n], f[n + 1]>>
<1>1. SubSeq(f, n, Len(f)) = [i \in 1..2 |-> f[i + n - 1]]
    BY DEF IsSeq
<1>2. [i \in 1..2 |-> f[i + n - 1]] = <<f[n], f[n + 1]>>
    OBVIOUS
<1> QED BY <1>1, <1>2

\* The size of the start of a sequence.
LEMMA SizeOfPrefix ==
    ASSUME NEW f, IsSeq(f), NEW k \in Nat, k >= 1, k <= Len(f), Len(f) \in Nat
    PROVE  Size(SubSeq(f, 1, k)) = FullPacket * (k - 1) + f[k].size
<1>1. Len(SubSeq(f, 1, k)) = k /\ SubSeq(f, 1, k)[k] = f[k]
    BY DEF IsSeq
<1>2. SubSeq(f, 1, k) # <<>>
    BY <1>1
<1> QED BY <1>1, <1>2 DEF Size

\* A transfer takes all packets before the status, if the last ends it.
LEMMA FilledTakesAll ==
    ASSUME NEW len \in Nat, NEW t, Shape(inFifo, len, t), Filled(inFifo, len)
    PROVE  /\ PacketsFor(len) = Len(inFifo) - 1
           /\ Size(SubSeq(inFifo, 1, Len(inFifo) - 1)) \in 0..len
<1> DEFINE n == Len(inFifo) - 1
           ends == {k \in 1..Len(inFifo) :
                       /\ \A j \in 1..k : inFifo[j].kind # "stall"
                       /\ \/ inFifo[k].size < FullPacket
                          \/ Size(SubSeq(inFifo, 1, k)) >= len}
<1>1. /\ IsSeq(inFifo) /\ Len(inFifo) \in Nat /\ n \in Nat /\ n >= 1
      /\ \A i \in 1..(n - 1) : inFifo[i].kind = "data" /\ inFifo[i].size = FullPacket
    BY DEF Shape
<1>2. /\ inFifo[n].kind = "data" /\ inFifo[n].size \in Nat
      /\ inFifo[n].size < FullPacket \/ FullPacket * n >= len
      /\ FullPacket * (n - 1) < len
      /\ FullPacket * (n - 1) + inFifo[n].size <= len
    BY DEF Filled
<1>3. Size(SubSeq(inFifo, 1, n)) = FullPacket * (n - 1) + inFifo[n].size
    BY <1>1, SizeOfPrefix
<1>4. inFifo[n].size < FullPacket \/ FullPacket * (n - 1) + inFifo[n].size >= len
    BY <1>1, <1>2 DEF FullPacket
<1>5. \A j \in 1..n : inFifo[j].kind # "stall"
    BY <1>1, <1>2
<1>6. n \in ends
    BY <1>1, <1>3, <1>4, <1>5
<1>7. ASSUME NEW k \in ends PROVE n <= k
    <2>1. SUFFICES ASSUME k < n PROVE FALSE
        BY <1>1
    <2>2. k \in 1..(n - 1)
        BY <1>1, <2>1
    <2>3. inFifo[k].size = FullPacket
        BY <1>1, <2>2
    <2>4. Size(SubSeq(inFifo, 1, k)) = FullPacket * k
        BY <1>1, <2>2, <2>3, SizeOfPrefix DEF FullPacket
    <2>5. FullPacket * k >= len
        BY <2>3, <2>4 DEF FullPacket
    <2> QED BY <1>1, <1>2, <2>2, <2>5 DEF FullPacket
<1>8. Min(ends) = n
    <2> HIDE DEF n, ends
    <2>1. ends \in SUBSET Int
        BY DEF ends
    <2> QED BY <1>6, <1>7, <2>1, MinIs
<1>9. PacketsFor(len) = n
    BY <1>6, <1>8 DEF PacketsFor
<1>10. Size(SubSeq(inFifo, 1, n)) \in 0..len
    BY <1>1, <1>2, <1>3 DEF FullPacket
<1> QED BY <1>9, <1>10

\* It takes none if they end in a stall, and the stall is the last of them.
LEMMA StalledTakesNone ==
    ASSUME NEW len \in Nat, NEW t, Shape(inFifo, len, t), Stalled(inFifo, len)
    PROVE  PacketsFor(len) = 0 /\ StallsAt = Len(inFifo) - 1
<1> DEFINE n == Len(inFifo) - 1
           ends == {k \in 1..Len(inFifo) :
                       /\ \A j \in 1..k : inFifo[j].kind # "stall"
                       /\ \/ inFifo[k].size < FullPacket
                          \/ Size(SubSeq(inFifo, 1, k)) >= len}
           stalls == {k \in 1..Len(inFifo) : inFifo[k].kind = "stall"}
<1>1. /\ IsSeq(inFifo) /\ Len(inFifo) \in Nat /\ n \in Nat /\ n >= 1
      /\ \A i \in 1..(n - 1) : inFifo[i].kind = "data" /\ inFifo[i].size = FullPacket
    BY DEF Shape
<1>2. inFifo[n].kind = "stall" /\ FullPacket * (n - 1) < len
    BY DEF Stalled, Stall
<1>3. ASSUME NEW k \in ends PROVE FALSE
    <2>1. k < n
        BY <1>1, <1>2
    <2>2. k \in 1..(n - 1)
        BY <1>1, <2>1
    <2>3. inFifo[k].size = FullPacket
        BY <1>1, <2>2
    <2>4. Size(SubSeq(inFifo, 1, k)) = FullPacket * k
        BY <1>1, <2>2, <2>3, SizeOfPrefix DEF FullPacket
    <2>5. FullPacket * k >= len
        BY <2>3, <2>4 DEF FullPacket
    <2> QED BY <1>1, <1>2, <2>2, <2>5 DEF FullPacket
<1>4. PacketsFor(len) = 0
    BY <1>3 DEF PacketsFor
<1>5. n \in stalls
    BY <1>1, <1>2
<1>6. ASSUME NEW k \in stalls PROVE n <= k
    BY <1>1
<1>7. Min(stalls) = n
    <2> HIDE DEF n, stalls
    <2>1. stalls \in SUBSET Int
        BY DEF stalls
    <2> QED BY <1>5, <1>6, <2>1, MinIs
<1> QED BY <1>4, <1>5, <1>7 DEF StallsAt

\* A sequence is a function.
LEMMA SeqIsFcn ==
    ASSUME NEW S, NEW s \in Seq(S)
    PROVE  s \in [1..Len(s) -> S]
OBVIOUS

\* The start of a sequence.
LEMMA PrefixIsSeq ==
    ASSUME NEW f, IsSeq(f), Len(f) \in Nat, NEW k \in Nat, k <= Len(f)
    PROVE  /\ IsSeq(SubSeq(f, 1, k)) /\ Len(SubSeq(f, 1, k)) = k
           /\ \A i \in 1..k : SubSeq(f, 1, k)[i] = f[i]
<1> DEFINE S == {f[i] : i \in 1..Len(f)}
<1>1. f \in Seq(S)
    BY DEF IsSeq
<1> HIDE DEF S
<1>2. /\ SubSeq(f, 1, k) \in Seq(S) /\ Len(SubSeq(f, 1, k)) = k
      /\ \A i \in 1..k : SubSeq(f, 1, k)[i] = f[i]
    BY <1>1
<1>3. SubSeq(f, 1, k) \in [1..k -> S]
    BY <1>2, SeqIsFcn
<1> QED BY <1>2, <1>3, FcnIsSeq

\* A sequence and one more.
LEMMA CatOne ==
    ASSUME NEW s, IsSeq(s), NEW m \in Nat, Len(s) = m, NEW x
    PROVE  /\ IsSeq(s \o <<x>>) /\ Len(s \o <<x>>) = m + 1
           /\ \A i \in 1..m : (s \o <<x>>)[i] = s[i]
           /\ (s \o <<x>>)[m + 1] = x
<1> DEFINE S == {s[i] : i \in 1..Len(s)} \cup {x}
<1>1. s \in Seq(S)
    <2>1. s \in Seq({s[i] : i \in 1..Len(s)})
        BY DEF IsSeq
    <2> QED BY <2>1
<1>2. <<x>> \in Seq(S) /\ Len(<<x>>) = 1 /\ <<x>>[1] = x
    OBVIOUS
<1>3. /\ s \o <<x>> \in Seq(S) /\ Len(s \o <<x>>) = m + 1
      /\ \A i \in 1..m : (s \o <<x>>)[i] = s[i]
      /\ (s \o <<x>>)[m + 1] = x
    <2> HIDE DEF S
    <2> QED BY <1>1, <1>2
<1>4. s \o <<x>> \in [1..(m + 1) -> S]
    <2> HIDE DEF S
    <2> QED BY <1>3, SeqIsFcn
<1>5. IsSeq(s \o <<x>>)
    <2> HIDE DEF S
    <2>1. m + 1 \in Nat
        OBVIOUS
    <2> QED BY <1>4, <2>1, FcnIsSeq
<1> QED BY <1>3, <1>5

\* The empty sequence before another.
LEMMA NothingCat ==
    ASSUME NEW s, IsSeq(s)
    PROVE  <<>> \o s = s
<1>1. s \in Seq({s[i] : i \in 1..Len(s)})
    BY DEF IsSeq
<1> QED BY <1>1

\* The blocks that a read is answered with.
LEMMA BlocksRead ==
    ASSUME NEW c, Reads(c)
    PROVE  /\ IsSeq(Reply(c)) /\ Len(Reply(c)) = c.count
           /\ \A i \in 1..c.count : Reply(c)[i] = Data(FullPacket, store[c.lba + i - 1])
           /\ Size(Reply(c)) = FullPacket * c.count
           /\ ~Short(Reply(c))
<1> DEFINE all == [i \in 1..c.count |-> Data(FullPacket, store[c.lba + i - 1])]
           S == {Data(FullPacket, store[c.lba + i - 1]) : i \in 1..c.count}
<1>1. Reply(c) = all
    BY DEF Reply, Reads
<1>2. c.count \in Nat
    BY DEF Reads
<1>3. all \in [1..c.count -> S]
    OBVIOUS
<1>4. IsSeq(all) /\ Len(all) = c.count
    <2> HIDE DEF all, S
    <2> QED BY <1>2, <1>3, FcnIsSeq
<1>5. \A i \in 1..c.count : all[i] = Data(FullPacket, store[c.lba + i - 1])
    OBVIOUS
<1>6. \A i \in 1..c.count : all[i].size = FullPacket
    BY DEF Data
<1>7. Size(all) = FullPacket * c.count
    <2>1. CASE c.count = 0
        <3>1. all = <<>>
            BY <2>1
        <3> QED BY <2>1, <3>1 DEF Size, FullPacket
    <2>2. CASE c.count # 0
        <3>1. c.count \in 1..c.count /\ all # <<>>
            BY <1>2, <1>4, <2>2
        <3>2. Size(all) = FullPacket * (c.count - 1) + FullPacket
            <4> HIDE DEF all
            <4> QED BY <1>4, <1>6, <3>1 DEF Size
        <3> QED BY <1>2, <3>2 DEF FullPacket
    <2> QED BY <2>1, <2>2
<1>8. ~Short(all)
    <2> SUFFICES ASSUME all # <<>> PROVE ~(all[Len(all)].size < FullPacket)
        BY DEF Short
    <2>1. c.count # 0
        OBVIOUS
    <2>2. all[Len(all)].size = FullPacket
        <3> HIDE DEF all
        <3> QED BY <1>2, <1>4, <1>6, <2>1
    <2> HIDE DEF all
    <2> QED BY <2>2 DEF FullPacket
<1> HIDE DEF all
<1> QED BY <1>1, <1>4, <1>5, <1>7, <1>8

\* How a read is answered: with too much for the buffer, with as much as it
\* holds, or with less, and a stall.
ReadAnswered(c, f, n) ==
    /\ IsSeq(f) /\ Len(f) = n + 1 /\ n >= 1
    /\ \A i \in 1..(n - 1) : i <= c.count /\ f[i] = Reply(c)[i]
    /\ \/ /\ n < c.count /\ FullPacket * n = c.len
          /\ f[n] = Reply(c)[n] /\ f[n + 1] = Csw(c.tag, 2)
       \/ /\ n = c.count /\ FullPacket * n = c.len
          /\ f[n] = Reply(c)[n] /\ f[n + 1] = Csw(c.tag, 0)
       \/ /\ n = c.count + 1 /\ FullPacket * (n - 1) < c.len
          /\ f[n] = Stall /\ f[n + 1] = Csw(c.tag, 0)

\* Each is what Success makes.
LEMMA SuccessfulRead ==
    ASSUME NEW c, Reads(c)
    PROVE  \E n \in Nat : ReadAnswered(c, Success(c), n)
<1> DEFINE all == Reply(c)
<1>1. c.count \in Nat /\ c.len \in Nat
    BY DEF Reads
<1>2. PICK b \in 1..c.len : c.len = FullPacket * b
    BY DEF Reads
<1>3. /\ IsSeq(all) /\ Len(all) = c.count
      /\ Size(all) = FullPacket * c.count /\ ~Short(all)
    BY BlocksRead
<1> HIDE DEF all
<1>4. CASE c.count > b
    <2> DEFINE s == SubSeq(all, 1, b)
    <2>1. Size(all) > c.len /\ c.len \div FullPacket = b
        BY <1>1, <1>2, <1>3, <1>4 DEF FullPacket
    <2>2. Success(c) = s \o <<Csw(c.tag, 2)>>
        BY <2>1 DEF Success, all
    <2>3. b \in Nat /\ b >= 1 /\ b <= Len(all) /\ Len(all) \in Nat
        BY <1>1, <1>3, <1>4
    <2>4. IsSeq(s) /\ Len(s) = b /\ \A i \in 1..b : s[i] = all[i]
        BY <1>3, <2>3, PrefixIsSeq
    <2> HIDE DEF s
    <2> DEFINE f == s \o <<Csw(c.tag, 2)>>
    <2>5. /\ IsSeq(f) /\ Len(f) = b + 1
          /\ \A i \in 1..b : f[i] = s[i]
          /\ f[b + 1] = Csw(c.tag, 2)
        BY <2>3, <2>4, CatOne
    <2> HIDE DEF f
    <2>6. ReadAnswered(c, f, b)
        BY <1>1, <1>2, <1>4, <2>3, <2>4, <2>5 DEF ReadAnswered, all
    <2>7. Success(c) = f
        BY <2>2 DEF f
    <2> QED BY <2>3, <2>6, <2>7
<1>5. CASE c.count = b
    <2>1. ~(Size(all) > c.len) /\ ~(Size(all) < c.len)
        BY <1>1, <1>2, <1>3, <1>5 DEF FullPacket
    <2>2. Success(c) = (all \o <<>>) \o <<Csw(c.tag, 0)>>
        BY <2>1 DEF Success, all
    <2>3. all \o <<>> = all
        <3>1. all \in Seq({all[i] : i \in 1..Len(all)})
            BY <1>3 DEF IsSeq
        <3> QED BY <3>1
    <2>4. ReadAnswered(c, all \o <<Csw(c.tag, 0)>>, b)
        BY <1>1, <1>2, <1>3, <1>5, CatOne DEF ReadAnswered, all
    <2> QED BY <2>2, <2>3, <2>4
<1>6. CASE c.count < b
    <2> DEFINE s == all \o <<Stall>>
    <2>1. ~(Size(all) > c.len) /\ Size(all) < c.len
        BY <1>1, <1>2, <1>3, <1>6 DEF FullPacket
    <2>2. Success(c) = s \o <<Csw(c.tag, 0)>>
        BY <1>3, <2>1 DEF Success, all
    <2>3. /\ IsSeq(s) /\ Len(s) = c.count + 1
          /\ \A i \in 1..c.count : s[i] = all[i]
          /\ s[c.count + 1] = Stall
        BY <1>1, <1>3, CatOne
    <2> HIDE DEF s
    <2>4. FullPacket * c.count < c.len
        BY <1>3, <2>1
    <2> DEFINE f == s \o <<Csw(c.tag, 0)>>
    <2>5. /\ IsSeq(f) /\ Len(f) = (c.count + 1) + 1
          /\ \A i \in 1..(c.count + 1) : f[i] = s[i]
          /\ f[(c.count + 1) + 1] = Csw(c.tag, 0)
        <3> DEFINE m == c.count + 1
        <3>1. m \in Nat
            BY <1>1
        <3>2. Len(s) = m
            BY <2>3
        <3> HIDE DEF m
        <3>3. /\ IsSeq(f) /\ Len(f) = m + 1
              /\ \A i \in 1..m : f[i] = s[i]
              /\ f[m + 1] = Csw(c.tag, 0)
            BY <2>3, <3>1, <3>2, CatOne
        <3> QED BY <3>3 DEF m
    <2> HIDE DEF f
    <2>6. ReadAnswered(c, f, c.count + 1)
        <3>1. (c.count + 1) - 1 = c.count /\ c.count + 1 >= 1
            BY <1>1
        <3>2. \A i \in 1..c.count : i <= c.count /\ f[i] = all[i]
            BY <1>1, <2>3, <2>5
        <3>3. f[c.count + 1] = Stall
            BY <1>1, <2>3, <2>5
        <3> QED BY <2>4, <2>5, <3>1, <3>2, <3>3 DEF ReadAnswered, all
    <2>7. Success(c) = f
        BY <2>2 DEF f
    <2> QED BY <1>1, <2>6, <2>7
<1> QED BY <1>1, <1>4, <1>5, <1>6

\* And each is of the shape that DataIn relies on.
LEMMA ReadAnswerShape ==
    ASSUME NEW c, Reads(c), NEW f, NEW n \in Nat, ReadAnswered(c, f, n)
    PROVE  Shape(f, c.len, c.tag)
<1>1. /\ IsSeq(f) /\ Len(f) = n + 1 /\ Len(f) \in Nat /\ n >= 1 /\ Len(f) - 1 = n
      /\ c.count \in Nat /\ c.len \in Nat
    BY DEF ReadAnswered, Reads
<1>2. \A i \in 1..c.count : Reply(c)[i].kind = "data" /\ Reply(c)[i].size = FullPacket
    <2>1. \A i \in 1..c.count :
             Reply(c)[i] = Data(FullPacket, store[c.lba + i - 1])
        BY BlocksRead
    <2>2. \A x : Data(FullPacket, x).kind = "data" /\ Data(FullPacket, x).size = FullPacket
        BY DEF Data
    <2> QED BY <2>1, <2>2
<1>3. \A i \in 1..(n - 1) : f[i].kind = "data" /\ f[i].size = FullPacket
    BY <1>1, <1>2 DEF ReadAnswered
<1>4. \E s \in 0..2 : f[n + 1] = Csw(c.tag, s)
    BY DEF ReadAnswered
<1>5. Filled(f, c.len) \/ Stalled(f, c.len)
    <2>1. CASE n <= c.count /\ FullPacket * n = c.len /\ f[n] = Reply(c)[n]
        <3>1. f[n].kind = "data" /\ f[n].size = FullPacket
            BY <1>1, <1>2, <2>1
        <3> QED BY <1>1, <2>1, <3>1 DEF Filled, FullPacket
    <2>2. CASE FullPacket * (n - 1) < c.len /\ f[n] = Stall
        BY <1>1, <2>2 DEF Stalled
    <2> QED BY <1>1, <2>1, <2>2 DEF ReadAnswered
<1> QED BY <1>1, <1>3, <1>4, <1>5 DEF Shape

\* Two packets as a sequence.
LEMMA PairIsSeq ==
    ASSUME NEW x, NEW y
    PROVE  /\ <<x>> \o <<y>> = <<x, y>> /\ <<>> \o <<x, y>> = <<x, y>>
           /\ IsSeq(<<x, y>>) /\ Len(<<x, y>>) = 2
           /\ <<x, y>>[1] = x /\ <<x, y>>[2] = y
<1>1. <<x, y>> \in [1..2 -> {x, y}]
    OBVIOUS
<1>2. IsSeq(<<x, y>>)
    BY <1>1, FcnIsSeq
<1>3. <<x>> \in Seq({x, y}) /\ <<y>> \in Seq({x, y}) /\ <<x, y>> \in Seq({x, y})
    OBVIOUS
<1>4. <<x>> \o <<y>> = <<x, y>>
    <2>1. <<x>> \o <<y>> \in Seq({x, y}) /\ Len(<<x>> \o <<y>>) = 2
        BY <1>3
    <2>2. (<<x>> \o <<y>>)[1] = x /\ (<<x>> \o <<y>>)[2] = y
        BY <1>3
    <2> DEFINE s == <<x>> \o <<y>>
    <2> HIDE DEF s
    <2>3. s \in [1..2 -> {x, y}]
        BY <2>1, SeqIsFcn DEF s
    <2>4. s = <<s[1], s[2]>>
        BY <2>3
    <2> QED BY <2>2, <2>4 DEF s
<1>5. <<>> \o <<x, y>> = <<x, y>>
    BY <1>2, NothingCat
<1> QED BY <1>2, <1>4, <1>5

\* The same of three elements.
LEMMA TripleIsSeq ==
    ASSUME NEW x, NEW y, NEW z
    PROVE  /\ <<x, y>> \o <<z>> = <<x, y, z>>
           /\ IsSeq(<<x, y, z>>) /\ Len(<<x, y, z>>) = 3
           /\ <<x, y, z>>[1] = x /\ <<x, y, z>>[2] = y /\ <<x, y, z>>[3] = z
<1>1. <<x, y, z>> \in [1..3 -> {x, y, z}]
    OBVIOUS
<1>2. IsSeq(<<x, y, z>>)
    BY <1>1, FcnIsSeq
<1>3. /\ <<x, y>> \in Seq({x, y, z}) /\ <<z>> \in Seq({x, y, z})
      /\ <<x, y, z>> \in Seq({x, y, z})
    OBVIOUS
<1>4. <<x, y>> \o <<z>> = <<x, y, z>>
    <2>1. <<x, y>> \o <<z>> \in Seq({x, y, z}) /\ Len(<<x, y>> \o <<z>>) = 3
        BY <1>3
    <2>2. /\ (<<x, y>> \o <<z>>)[1] = x /\ (<<x, y>> \o <<z>>)[2] = y
          /\ (<<x, y>> \o <<z>>)[3] = z
        BY <1>3
    <2> DEFINE s == <<x, y>> \o <<z>>
    <2> HIDE DEF s
    <2>3. s \in [1..3 -> {x, y, z}]
        BY <2>1, SeqIsFcn DEF s
    <2>4. s = <<s[1], s[2], s[3]>>
        BY <2>3
    <2> QED BY <2>2, <2>4 DEF s
<1> QED BY <1>2, <1>4

\* A stall, or a packet that is not too long, and the status.
LEMMA PairShape ==
    ASSUME NEW x, NEW len \in Nat, len > 0, NEW t, NEW s \in 0..2,
           \/ x = Stall
           \/ /\ x.kind = "data" /\ x.size \in Nat /\ x.size <= len
              /\ x.size < FullPacket \/ FullPacket >= len
    PROVE  /\ Shape(<<x, Csw(t, s)>>, len, t)
           /\ Stalled(<<x, Csw(t, s)>>, len) <=> x = Stall
<1> DEFINE f == <<x, Csw(t, s)>>
<1>1. IsSeq(f) /\ Len(f) = 2 /\ f[1] = x /\ f[2] = Csw(t, s)
    BY PairIsSeq
<1> HIDE DEF f
<1>2. \A i \in 1..0 : f[i].kind = "data" /\ f[i].size = FullPacket
    OBVIOUS
<1>3. Stalled(f, len) <=> x = Stall
    BY <1>1 DEF Stalled, FullPacket
<1>4. x # Stall => Filled(f, len)
    BY <1>1 DEF Filled, FullPacket
<1>5. Shape(f, len, t)
    BY <1>1, <1>2, <1>3, <1>4 DEF Shape
<1> QED BY <1>3, <1>5 DEF f

\* The reply to a command that asks for something.
LEMMA ReplyToAsks ==
    ASSUME NEW c, Asks(c), unit \in Units
    PROVE  \E x : /\ Success(c) = <<Data(c.len, x), Csw(c.tag, 0)>>
                  /\ c.op = "request_sense" => x = sense
                  /\ c.op \in {"read_capacity_10", "read_capacity_16"} =>
                        x[1] \in 0..unit.last
<1>1. c.len \in {36, 8, 32, 4, 64, 18}
    BY DEF Asks
<1>2. \E x : /\ Reply(c) = <<Data(c.len, x)>>
             /\ c.op = "request_sense" => x = sense
             /\ c.op \in {"read_capacity_10", "read_capacity_16"} => x[1] \in 0..unit.last
    <2>1. CASE c.op = "inquiry" /\ c.len = 36
        BY <2>1 DEF Reply
    <2>2. CASE c.op = "read_capacity_10" /\ c.len = 8
        <3>1. unit.last \in Nat /\ U32Max \in Nat
            BY DeviceAssumption, WidthAssumption
        <3>2. Min({unit.last, U32Max}) \in 0..unit.last
            <4>1. {unit.last, U32Max} \in SUBSET Int
                BY <3>1
            <4>2. CASE unit.last <= U32Max
                <5>1. \A y \in {unit.last, U32Max} : unit.last <= y
                    BY <3>1, <4>2
                <5>2. Min({unit.last, U32Max}) = unit.last
                    BY <4>1, <5>1, MinIs
                <5> QED BY <3>1, <5>2
            <4>3. CASE U32Max <= unit.last
                <5>1. \A y \in {unit.last, U32Max} : U32Max <= y
                    BY <3>1, <4>3
                <5>2. Min({unit.last, U32Max}) = U32Max
                    BY <4>1, <5>1, MinIs
                <5> QED BY <3>1, <4>3, <5>2
            <4> QED BY <3>1, <4>2, <4>3
        <3>3. Reply(c) = <<Data(8, <<Min({unit.last, U32Max})>>)>>
            BY <2>2 DEF Reply
        <3> QED BY <2>2, <3>2, <3>3
    <2>3. CASE c.op = "read_capacity_16" /\ c.len = 32
        <3>1. unit.last \in 0..unit.last
            BY DeviceAssumption
        <3>2. Reply(c) = <<Data(32, <<unit.last>>)>>
            BY <2>3 DEF Reply
        <3> QED BY <2>3, <3>1, <3>2
    <2>4. CASE c.op = "report_supported_operation_codes" /\ c.len = 4
        BY <2>4 DEF Reply
    <2>5. CASE c.op = "block_limits_page" /\ c.len = 64
        BY <2>5 DEF Reply, FullPacket
    <2>6. CASE c.op = "request_sense" /\ c.len = 18
        BY <2>6 DEF Reply
    <2> QED BY <2>1, <2>2, <2>3, <2>4, <2>5, <2>6 DEF Asks
<1>3. PICK x : /\ Reply(c) = <<Data(c.len, x)>>
               /\ c.op = "request_sense" => x = sense
               /\ c.op \in {"read_capacity_10", "read_capacity_16"} => x[1] \in 0..unit.last
    BY <1>2
<1>4. Size(Reply(c)) = c.len
    <2>1. Data(c.len, x).size = c.len
        BY DEF Data
    <2>2. Len(<<Data(c.len, x)>>) = 1 /\ <<Data(c.len, x)>> # <<>>
        OBVIOUS
    <2> QED BY <1>1, <1>3, <2>1, <2>2 DEF Size, FullPacket
<1>5. Success(c) = (<<Data(c.len, x)>> \o <<>>) \o <<Csw(c.tag, 0)>>
    BY <1>1, <1>3, <1>4 DEF Success
<1>6. <<Data(c.len, x)>> \o <<>> = <<Data(c.len, x)>>
    OBVIOUS
<1>7. Success(c) = <<Data(c.len, x), Csw(c.tag, 0)>>
    BY <1>5, <1>6, PairIsSeq
<1> QED BY <1>3, <1>7

\* An answer that is too short, and then a halt or not.
LEMMA BriefShape ==
    ASSUME NEW b \in Briefs, NEW len \in Nat, len > 0, NEW t, NEW s \in 0..2
    PROVE  LET g == b \o <<Csw(t, s)>>
           IN  /\ \/ g = <<Data(0, <<>>), Csw(t, s)>> /\ Shape(g, len, t)
                  \/ Halts(g, t)
               /\ <<>> \o b = b /\ g[Len(g)] = Csw(t, s)
<1> DEFINE x == Data(0, <<>>)
           g == b \o <<Csw(t, s)>>
<1>1. CASE b = <<x>>
    <2>1. g = <<x, Csw(t, s)>>
        BY <1>1, PairIsSeq
    <2>2. x.kind = "data" /\ x.size = 0
        BY DEF Data
    <2>3. g[Len(g)] = Csw(t, s)
        BY <2>1, PairIsSeq
    <2>4. <<>> \o b = b
        BY <1>1
    <2> HIDE DEF x
    <2>5. x.size \in Nat /\ x.size <= len /\ x.size < FullPacket
        BY <2>2 DEF FullPacket
    <2>6. Shape(<<x, Csw(t, s)>>, len, t)
        BY ONLY <2>2, <2>5, s \in 0..2, len \in Nat, len > 0, PairShape
    <2> QED BY <2>1, <2>3, <2>4, <2>6 DEF x
<1>2. CASE b = <<x, Stall>>
    <2> DEFINE y == Stall
               z == Csw(t, s)
    <2>1. \E q \in 0..2 : <<x, y, z>> = <<Data(0, <<>>), Stall, Csw(t, q)>>
        OBVIOUS
    <2>2. b = <<x, y>> /\ g = b \o <<z>>
        BY <1>2
    <2> HIDE DEF x, y, z, g
    <2>3. g = <<x, y, z>>
        BY <2>2, TripleIsSeq
    <2>4. g[Len(g)] = z
        BY <2>3, TripleIsSeq
    <2>5. <<>> \o b = b
        BY <2>2, PairIsSeq
    <2>6. Halts(g, t)
        BY <2>1, <2>3 DEF Halts
    <2> QED BY <2>4, <2>5, <2>6 DEF g, z
<1> QED BY <1>1, <1>2 DEF Briefs

\* An answer with a halt in it is not one that fills the buffer.
LEMMA HaltsIs ==
    ASSUME NEW f, NEW t, Halts(f, t), NEW len
    PROVE  \E s \in 0..2 :
             /\ f = <<Data(0, <<>>), Stall, Csw(t, s)>>
             /\ IsSeq(f) /\ Len(f) = 3 /\ f[1] = Data(0, <<>>)
             /\ f[2] = Stall /\ f[3] = Csw(t, s)
             /\ f[1].kind = "data" /\ f[1].size = 0
             /\ f[2].kind = "stall" /\ ~Filled(f, len)
<1>1. PICK s \in 0..2 : f = <<Data(0, <<>>), Stall, Csw(t, s)>>
    BY DEF Halts
<1>2. /\ IsSeq(f) /\ Len(f) = 3 /\ f[1] = Data(0, <<>>)
      /\ f[2] = Stall /\ f[3] = Csw(t, s)
    <2> DEFINE x == Data(0, <<>>)
               y == Stall
               z == Csw(t, s)
    <2>1. f = <<x, y, z>>
        BY <1>1
    <2> HIDE DEF x, y, z
    <2>2. /\ IsSeq(<<x, y, z>>) /\ Len(<<x, y, z>>) = 3
          /\ <<x, y, z>>[1] = x /\ <<x, y, z>>[2] = y /\ <<x, y, z>>[3] = z
        BY TripleIsSeq
    <2>3. IsSeq(f) /\ Len(f) = 3 /\ f[1] = x /\ f[2] = y /\ f[3] = z
        BY <2>1, <2>2
    <2> QED BY <2>3 DEF x, y, z
<1>3. f[1].kind = "data" /\ f[1].size = 0 /\ f[2].kind = "stall"
    BY <1>2 DEF Data, Stall
<1>4. ~Filled(f, len)
    BY <1>2, <1>3 DEF Filled
<1> QED BY <1>1, <1>2, <1>3, <1>4

\* How a command for data is answered when it fails.
LEMMA FailureShape ==
    ASSUME NEW c, Reads(c) \/ Asks(c), NEW f \in Failures(c), NEW g,
           g = f \o <<Csw(c.tag, 1)>>
    PROVE  /\ Shape(g, c.len, c.tag) \/ Halts(g, c.tag)
           /\ g[Len(g)] = Csw(c.tag, 1)
<1>1. c.len \in Nat /\ c.len > 0
    BY DEF Reads, Asks
<1>2. CASE f = <<Stall>>
    <2>1. g = <<Stall, Csw(c.tag, 1)>>
        BY <1>2, PairIsSeq
    <2>2. Shape(<<Stall, Csw(c.tag, 1)>>, c.len, c.tag)
        <3>1. 1 \in 0..2
            OBVIOUS
        <3> QED BY ONLY <1>1, <3>1, PairShape
    <2>3. g[Len(g)] = Csw(c.tag, 1)
        BY <2>1, PairIsSeq
    <2> QED BY <2>1, <2>2, <2>3
<1>3. CASE f \in Briefs
    <2>1. 1 \in 0..2
        OBVIOUS
    <2>2. Shape(g, c.len, c.tag) \/ Halts(g, c.tag)
        BY <1>1, <1>3, <2>1, BriefShape
    <2>3. g[Len(g)] = Csw(c.tag, 1)
        BY <1>1, <1>3, <2>1, BriefShape
    <2> QED BY <2>2, <2>3
<1>4. CASE Reads(c) /\ c.count > 1 /\ c.len > FullPacket /\ f = <<Reply(c)[1], Stall>>
    <2>1. g = <<Reply(c)[1], Stall, Csw(c.tag, 1)>>
        BY <1>4, TripleIsSeq
    <2>2. /\ IsSeq(g) /\ Len(g) = 3
          /\ g[1] = Reply(c)[1] /\ g[2] = Stall /\ g[3] = Csw(c.tag, 1)
        <3> DEFINE x == Reply(c)[1]
                   y == Stall
                   z == Csw(c.tag, 1)
        <3>1. g = <<x, y, z>>
            BY <2>1
        <3> HIDE DEF x, y, z
        <3>2. /\ IsSeq(<<x, y, z>>) /\ Len(<<x, y, z>>) = 3
              /\ <<x, y, z>>[1] = x /\ <<x, y, z>>[2] = y /\ <<x, y, z>>[3] = z
            BY TripleIsSeq
        <3>3. IsSeq(g) /\ Len(g) = 3 /\ g[1] = x /\ g[2] = y /\ g[3] = z
            BY <3>1, <3>2
        <3> QED BY <3>3 DEF x, y, z
    <2>3. Reply(c)[1].kind = "data" /\ Reply(c)[1].size = FullPacket
        <3>1. 1 \in 1..c.count
            BY <1>4 DEF Reads
        <3>2. Reply(c)[1] = Data(FullPacket, store[c.lba + 1 - 1])
            BY <1>4, <3>1, BlocksRead
        <3> QED BY <3>2 DEF Data
    <2>4. Stalled(g, c.len)
        BY <1>1, <1>4, <2>2 DEF Stalled, FullPacket
    <2>5. \A i \in 1..1 : g[i].kind = "data" /\ g[i].size = FullPacket
        BY <2>2, <2>3
    <2>6. Shape(g, c.len, c.tag)
        BY <2>2, <2>4, <2>5 DEF Shape
    <2> QED BY <2>2, <2>6
<1>5. \/ f = <<Stall>> \/ f \in Briefs
      \/ Reads(c) /\ c.count > 1 /\ c.len > FullPacket /\ f = <<Reply(c)[1], Stall>>
    BY DEF Failures, Reads, Asks
<1> QED BY <1>2, <1>3, <1>4, <1>5

-----------------------------------------------------------------------------
(* What a device that awaits a command block does with one.                *)

\* Sense data is a triple of numbers.
LEMMA SenseType ==
    ASSUME NEW c
    PROVE  /\ NoSense \in Senses /\ Complaint(c) \in Senses
           /\ \A t \in Troubles : t \in Senses
BY DeviceAssumption DEF NoSense, Complaint, Senses

\* The last packet of a status wrapper's.
LEMMA CswParts ==
    ASSUME NEW t, NEW s
    PROVE  /\ Csw(t, s).kind = "csw" /\ Csw(t, s).size = 13
           /\ Csw(t, s).body[1] = t /\ Csw(t, s).body[2] = s
           /\ Csw(t, s) # Stall
BY DEF Csw, Stall

\* Nothing before a failure.
LEMMA FailureCat ==
    ASSUME NEW c, NEW f \in Failures(c)
    PROVE  <<>> \o f = f
<1>1. \A x, y : <<>> \o <<x>> = <<x>> /\ <<>> \o <<x, y>> = <<x, y>>
    BY PairIsSeq
<1> QED BY <1>1 DEF Failures, Briefs

\* A read: an answer of the right shape, which is all of the blocks if it
\* ends as the buffer is filled and the status is good.
LEMMA TakesRead ==
    ASSUME NEW c, Reads(c), inFifo = <<>>, taking = NoWrite, sense \in Senses,
           TakesCommand(c)
    PROVE  /\ taking' = NoWrite /\ sense' \in Senses /\ UNCHANGED store
           /\ Shape(inFifo', c.len, c.tag) \/ Halts(inFifo', c.tag)
           /\ Filled(inFifo', c.len) /\ inFifo'[Len(inFifo')].body[2] = 0
              /\ inFifo' # <<Data(0, <<>>), Csw(c.tag, 0)>> =>
                 /\ ~MustFail(c) /\ Len(inFifo') = c.count + 1
                 /\ FullPacket * c.count = c.len
                 /\ \A i \in 1..c.count : inFifo'[i].body = store[c.lba + i - 1]
<1>1. c.op \in {"read10", "read16"} /\ c.dir = "in" /\ c.op # "request_sense"
      /\ c.count \in Nat /\ c.len \in Nat
    BY DEF Reads
<1>2. UNCHANGED store
    BY DEF TakesCommand
<1>3. CASE ~MustFail(c) /\ Executes(c) /\ inFifo' = inFifo \o Success(c)
    <2>1. sense' = NoSense /\ inFifo' = inFifo \o Success(c) /\ taking' = taking
        BY <1>1, <1>3 DEF Executes
    <2>2. PICK n \in Nat : ReadAnswered(c, Success(c), n)
        BY SuccessfulRead
    <2>3. inFifo' = Success(c)
        BY <2>1, <2>2, NothingCat DEF ReadAnswered
    <2>4. Shape(inFifo', c.len, c.tag)
        BY <2>2, <2>3, ReadAnswerShape
    <2> DEFINE f == Success(c)
    <2>5. ASSUME Filled(f, c.len), f[Len(f)].body[2] = 0
          PROVE  /\ Len(f) = c.count + 1 /\ FullPacket * c.count = c.len
                 /\ \A i \in 1..c.count : f[i].body = store[c.lba + i - 1]
        <3>1. Len(f) = n + 1 /\ Len(f) - 1 = n /\ n >= 1
            BY <2>2 DEF ReadAnswered
        <3>2. f[n].kind = "data"
            BY <2>5, <3>1 DEF Filled
        <3>3. f[n] # Stall
            BY <3>2 DEF Stall
        <3>4. f[n + 1] # Csw(c.tag, 2)
            BY <2>5, <3>1, CswParts
        <3> HIDE DEF f
        <3>5. n = c.count /\ FullPacket * n = c.len /\ f[n] = Reply(c)[n]
            BY <2>2, <3>3, <3>4 DEF ReadAnswered, f
        <3>6. \A i \in 1..c.count : f[i] = Reply(c)[i]
            <4>1. \A i \in 1..(n - 1) : f[i] = Reply(c)[i]
                BY <2>2 DEF ReadAnswered, f
            <4> QED BY <1>1, <3>5, <4>1
        <3>7. \A i \in 1..c.count : Reply(c)[i] = Data(FullPacket, store[c.lba + i - 1])
            BY BlocksRead
        <3>8. \A x : Data(FullPacket, x).body = x
            BY DEF Data
        <3>9. \A i \in 1..c.count : f[i].body = store[c.lba + i - 1]
            BY <3>6, <3>7, <3>8
        <3> QED BY <3>1, <3>5, <3>9
    <2> QED BY <1>2, <1>3, <2>1, <2>3, <2>4, <2>5, SenseType
<1>4. ASSUME NEW w \in Senses, Refuses(c, w)
      PROVE  /\ taking' = NoWrite /\ sense' \in Senses
             /\ Shape(inFifo', c.len, c.tag) \/ Halts(inFifo', c.tag)
             /\ inFifo'[Len(inFifo')].body[2] = 1
    <2>1. sense' = w /\ taking' = NoWrite
          /\ \E f \in Failures(c) : inFifo' = inFifo \o f \o <<Csw(c.tag, 1)>>
        BY <1>1, <1>4 DEF Refuses
    <2>2. PICK f \in Failures(c) : inFifo' = inFifo \o f \o <<Csw(c.tag, 1)>>
        BY <2>1
    <2>3. inFifo \o f = f
        BY FailureCat
    <2>4. /\ Shape(inFifo', c.len, c.tag) \/ Halts(inFifo', c.tag)
          /\ inFifo'[Len(inFifo')] = Csw(c.tag, 1)
        BY <2>2, <2>3, FailureShape
    <2> QED BY <2>1, <2>4, CswParts
<1>5. ASSUME Executes(c), NEW b \in Briefs,
             inFifo' = inFifo \o b \o <<Csw(c.tag, 0)>>
      PROVE  /\ taking' = NoWrite /\ sense' \in Senses
             /\ \/ Shape(inFifo', c.len, c.tag)
                   /\ inFifo' = <<Data(0, <<>>), Csw(c.tag, 0)>>
                \/ Halts(inFifo', c.tag) /\ ~Filled(inFifo', c.len)
    <2>1. sense' = NoSense /\ taking' = NoWrite
        BY <1>1, <1>5 DEF Executes
    <2>2. c.len > 0 /\ 0 \in 0..2
        BY DEF Reads
    <2>3. inFifo \o b = b
        BY <1>1, <2>2, BriefShape
    <2> DEFINE h == b \o <<Csw(c.tag, 0)>>
    <2>4. \/ h = <<Data(0, <<>>), Csw(c.tag, 0)>> /\ Shape(h, c.len, c.tag)
          \/ Halts(h, c.tag)
        BY ONLY <1>1, <1>5, <2>2, BriefShape
    <2>5. inFifo' = h
        BY <1>5, <2>3
    <2> HIDE DEF h
    <2> QED BY <2>1, <2>4, <2>5, SenseType, HaltsIs
<1>6. \/ ~MustFail(c) /\ Executes(c) /\ inFifo' = inFifo \o Success(c)
      \/ \E w \in Senses : Refuses(c, w)
      \/ Executes(c) /\ \E b \in Briefs : inFifo' = inFifo \o b \o <<Csw(c.tag, 0)>>
    BY <1>1, SenseType DEF TakesCommand, Executes, Answers
<1> QED BY <1>2, <1>3, <1>4, <1>5, <1>6

\* A command for something else: the reply, or a failure.
LEMMA TakesAsks ==
    ASSUME NEW c, Asks(c), inFifo = <<>>, taking = NoWrite, sense \in Senses,
           unit \in Units, TakesCommand(c)
    PROVE  /\ taking' = NoWrite /\ sense' \in Senses /\ UNCHANGED store
           /\ Shape(inFifo', c.len, c.tag) \/ Halts(inFifo', c.tag)
           /\ \/ inFifo'[Len(inFifo')].body[2] = 1 /\ c.op # "request_sense"
              \/ /\ inFifo' = <<Data(0, <<>>), Csw(c.tag, 0)>>
                    \/ ~Filled(inFifo', c.len)
                 /\ c.op # "request_sense"
              \/ \E x : /\ inFifo' = <<Data(c.len, x), Csw(c.tag, 0)>>
                        /\ c.op = "request_sense" =>
                              /\ x = sense /\ sense' = sense
                              /\ Shape(inFifo', c.len, c.tag)
                        /\ c.op \in {"read_capacity_10", "read_capacity_16"} =>
                              x[1] \in 0..unit.last
<1>1. c.dir = "in" /\ c.op \notin Transfers /\ c.len \in Nat /\ c.len > 0
    BY DEF Asks, Transfers
<1>2. UNCHANGED store
    BY DEF TakesCommand
<1>3. CASE ~MustFail(c) /\ Executes(c) /\ inFifo' = inFifo \o Success(c)
    <2>1. /\ sense' = IF c.op = "request_sense" THEN sense ELSE NoSense
          /\ inFifo' = inFifo \o Success(c) /\ taking' = taking
        BY <1>1, <1>3 DEF Executes
    <2>2. PICK x : /\ Success(c) = <<Data(c.len, x), Csw(c.tag, 0)>>
                   /\ c.op = "request_sense" => x = sense
                   /\ c.op \in {"read_capacity_10", "read_capacity_16"} =>
                         x[1] \in 0..unit.last
        BY ReplyToAsks
    <2>3. inFifo' = <<Data(c.len, x), Csw(c.tag, 0)>>
        BY <2>1, <2>2, PairIsSeq
    <2>4. Shape(inFifo', c.len, c.tag)
        <3> DEFINE p == Data(c.len, x)
        <3>1. p.kind = "data" /\ p.size = c.len
            BY DEF Data
        <3> HIDE DEF p
        <3>2. p.size \in Nat /\ p.size <= c.len
              /\ (p.size < FullPacket \/ FullPacket >= c.len)
            BY <1>1, <3>1 DEF FullPacket, Asks
        <3>3. 0 \in 0..2
            OBVIOUS
        <3>4. Shape(<<p, Csw(c.tag, 0)>>, c.len, c.tag)
            BY ONLY <1>1, <3>1, <3>2, <3>3, PairShape
        <3> QED BY <2>3, <3>4 DEF p
    <2> QED BY <1>2, <2>1, <2>2, <2>3, <2>4, SenseType
<1>4. ASSUME NEW w \in Senses, Refuses(c, w)
      PROVE  /\ taking' = NoWrite /\ sense' \in Senses
             /\ Shape(inFifo', c.len, c.tag) \/ Halts(inFifo', c.tag)
             /\ inFifo'[Len(inFifo')].body[2] = 1
    <2>1. sense' = w /\ taking' = NoWrite
          /\ \E f \in Failures(c) : inFifo' = inFifo \o f \o <<Csw(c.tag, 1)>>
        BY <1>1, <1>4 DEF Refuses
    <2>2. PICK f \in Failures(c) : inFifo' = inFifo \o f \o <<Csw(c.tag, 1)>>
        BY <2>1
    <2>3. inFifo \o f = f
        BY FailureCat
    <2>4. /\ Shape(inFifo', c.len, c.tag) \/ Halts(inFifo', c.tag)
          /\ inFifo'[Len(inFifo')] = Csw(c.tag, 1)
        BY <2>2, <2>3, FailureShape
    <2> QED BY <2>1, <2>4, CswParts
<1>5. ASSUME Executes(c), NEW b \in Briefs, c.op # "request_sense",
             inFifo' = inFifo \o b \o <<Csw(c.tag, 0)>>
      PROVE  /\ taking' = NoWrite /\ sense' \in Senses
             /\ \/ Shape(inFifo', c.len, c.tag)
                   /\ inFifo' = <<Data(0, <<>>), Csw(c.tag, 0)>>
                \/ Halts(inFifo', c.tag) /\ ~Filled(inFifo', c.len)
    <2>1. sense' = NoSense /\ taking' = NoWrite
        BY <1>1, <1>5 DEF Executes
    <2>2. 0 \in 0..2
        OBVIOUS
    <2>3. inFifo \o b = b
        BY <1>1, <2>2, BriefShape
    <2> DEFINE h == b \o <<Csw(c.tag, 0)>>
    <2>4. \/ h = <<Data(0, <<>>), Csw(c.tag, 0)>> /\ Shape(h, c.len, c.tag)
          \/ Halts(h, c.tag)
        BY ONLY <1>1, <1>5, <2>2, BriefShape
    <2>5. inFifo' = h
        BY <1>5, <2>3
    <2> HIDE DEF h
    <2> QED BY <2>1, <2>4, <2>5, SenseType, HaltsIs
<1>6. \/ ~MustFail(c) /\ Executes(c) /\ inFifo' = inFifo \o Success(c)
      \/ c.op # "request_sense" /\ \E w \in Senses : Refuses(c, w)
      \/ /\ c.op # "request_sense" /\ Executes(c)
         /\ \E b \in Briefs : inFifo' = inFifo \o b \o <<Csw(c.tag, 0)>>
    BY <1>1, SenseType DEF TakesCommand, MustFail, LongCommands, Executes, Answers
<1> QED BY <1>2, <1>3, <1>4, <1>5, <1>6

\* A write: the device awaits its data, or has halted its OUT endpoint.
LEMMA TakesWrite ==
    ASSUME NEW c, Writes(c), inFifo = <<>>, taking = NoWrite, sense \in Senses,
           unit \in Units, TakesCommand(c), ~outHalted
    PROVE  /\ sense' \in Senses /\ UNCHANGED store
           /\ \/ outHalted' /\ taking' = NoWrite /\ inFifo' = <<Csw(c.tag, 1)>>
              \/ /\ ~outHalted' /\ inFifo' = <<>> /\ taking' # NoWrite
                 /\ taking'.lba = c.lba /\ taking'.tag = c.tag
                 /\ taking'.count \in {0, c.count}
                 /\ taking'.count > 0 => c.lba + c.count - 1 <= unit.last
<1>1. /\ c.op \in {"write10", "write16"} /\ c.dir = "out" /\ c.op # "request_sense"
      /\ c.lba \in Nat /\ c.count \in Nat
      /\ {"op", "dir", "lba", "count", "tag", "data"} \subseteq DOMAIN c
    BY DEF Writes
<1>2. UNCHANGED store
    BY DEF TakesCommand
<1>3. CASE ~MustFail(c) /\ Executes(c)
    <2>1. sense' = NoSense /\ inFifo' = inFifo /\ taking' = c /\ outHalted' = outHalted
        BY <1>1, <1>3 DEF Executes
    <2>2. c.lba + c.count - 1 <= unit.last
        <3>1. unit.last \in Nat
            BY DeviceAssumption
        <3> QED BY <1>1, <1>3, <3>1 DEF MustFail, Transfers
    <2>3. c # NoWrite
        BY <1>1 DEF NoWrite
    <2> QED BY <1>1, <1>2, <2>1, <2>2, <2>3, SenseType
<1>4. ASSUME NEW w \in Senses, Refuses(c, w)
      PROVE  /\ sense' \in Senses
             /\ \/ outHalted' /\ taking' = NoWrite /\ inFifo' = <<Csw(c.tag, 1)>>
                \/ /\ ~outHalted' /\ inFifo' = <<>> /\ taking' # NoWrite
                   /\ taking'.lba = c.lba /\ taking'.tag = c.tag
                   /\ taking'.count = 0
    <2>1. CASE /\ outHalted' = TRUE /\ inFifo' = Append(inFifo, Csw(c.tag, 1))
               /\ UNCHANGED taking
        <3>1. Append(<<>>, Csw(c.tag, 1)) = <<Csw(c.tag, 1)>>
            OBVIOUS
        <3> QED BY <1>4, <2>1, <3>1 DEF Refuses
    <2>2. CASE taking' = [c EXCEPT !.count = 0] /\ UNCHANGED <<inFifo, outHalted>>
        <3>1. /\ [c EXCEPT !.count = 0].count = 0 /\ [c EXCEPT !.count = 0].lba = c.lba
              /\ [c EXCEPT !.count = 0].tag = c.tag /\ [c EXCEPT !.count = 0].op = c.op
            BY <1>1
        <3>2. [c EXCEPT !.count = 0] # NoWrite
            BY <1>1, <3>1 DEF NoWrite
        <3> QED BY <1>4, <2>2, <3>1, <3>2 DEF Refuses
    <2> QED BY <1>1, <1>4, <2>1, <2>2 DEF Refuses
<1>5. \/ ~MustFail(c) /\ Executes(c)
      \/ \E w \in Senses : Refuses(c, w)
    BY SenseType DEF TakesCommand
<1> QED BY <1>2, <1>3, <1>4, <1>5

\* A command without data: its status.
LEMMA TakesTest ==
    ASSUME NEW c, Tests(c), inFifo = <<>>, taking = NoWrite, sense \in Senses,
           TakesCommand(c)
    PROVE  /\ taking' = NoWrite /\ sense' \in Senses /\ UNCHANGED store
           /\ \E s \in 0..2 : inFifo' = <<Csw(c.tag, s)>>
<1>1. c.dir = "none" /\ c.op # "request_sense"
    BY DEF Tests
<1>2. UNCHANGED store
    BY DEF TakesCommand
<1>3. CASE Executes(c)
    <2>1. sense' = NoSense /\ inFifo' = <<>> \o <<Csw(c.tag, 0)>> /\ taking' = taking
        BY <1>1, <1>3 DEF Executes
    <2>2. \A x : <<>> \o <<x>> = <<x>>
        OBVIOUS
    <2> QED BY <1>2, <2>1, <2>2, SenseType
<1>4. ASSUME NEW w \in Senses, Refuses(c, w)
      PROVE  taking' = NoWrite /\ sense' \in Senses /\ inFifo' = <<Csw(c.tag, 1)>>
    <2>1. \A x : Append(<<>>, x) = <<x>>
        OBVIOUS
    <2> QED BY <1>1, <1>4, <2>1 DEF Refuses
<1>5. Executes(c) \/ \E w \in Senses : Refuses(c, w)
    BY SenseType DEF TakesCommand
<1> QED BY <1>2, <1>3, <1>4, <1>5

-----------------------------------------------------------------------------
(* Steps of command().                                                     *)

\* A function is one onto its range.
LEMMA OntoRange ==
    ASSUME NEW D, NEW S, NEW f \in [D -> S]
    PROVE  f \in [D -> Range(f)]
BY DEF Range

\* A device's reaction to a command block leaves the medium alone.
LEMMA CommandKeepsStore ==
    ASSUME NEW c, TakesCommand(c)
    PROVE  store' = store
BY DEF TakesCommand, Confused

\* A device's reaction to data leaves the size of the medium alone.
LEMMA DataKeepsSize ==
    ASSUME NEW p, TakesData(p), NEW D, store \in [D -> Range(store)]
    PROVE  store' \in [D -> Range(store')]
<1>1. CASE taking = NoWrite
    BY <1>1 DEF TakesData, Confused
<1>2. CASE taking # NoWrite
    <2> DEFINE n == taking.count
               ok == n > 0 /\ Len(p) >= n
               val(b) == IF ok /\ b \in taking.lba..(taking.lba + n - 1)
                         THEN p[b - taking.lba + 1] ELSE store[b]
               S == {val(b) : b \in DOMAIN store}
    <2>1. store' = [b \in DOMAIN store |-> val(b)]
        BY <1>2 DEF TakesData
    <2>2. store' \in [D -> S]
        <3> HIDE DEF val
        <3> QED BY <2>1
    <2> HIDE DEF S
    <2> QED BY <2>2, OntoRange
<1> QED BY <1>1, <1>2

\* What every step of command() leaves: the device is the same one, the medium
\* as large, and the command is not over.
LEMMA CommandFrame ==
    ASSUME CommandNext, NEW D, store \in [D -> Range(store)]
    PROVE  /\ unit' = unit /\ plugged' = plugged
           /\ store' \in [D -> Range(store')]
           /\ pc # "idle" /\ pc' # "idle"
           /\ (pc = "data" /\ cmd.dir = "out") \/ store' = store
<1>1. CASE SendCbw
    <2>1. pc = "cbw" /\ pc' # "idle"
        BY <1>1 DEF SendCbw, Fault, CutShort, Unplugged, TransportError, Return
    <2>2. unit' = unit /\ plugged' = plugged /\ store' = store
        BY <1>1, CommandKeepsStore
        DEF SendCbw, BulkOutOk, BulkOutFault, Confused, Unplugged, deviceVars
    <2> QED BY <2>1, <2>2
<1>2. CASE DataIn
    <2>1. pc = "data" /\ pc' # "idle"
        BY <1>2 DEF DataIn, Fault, Unplugged, TransportError, Return
    <2>2. unit' = unit /\ plugged' = plugged /\ store' = store
        BY <1>2 DEF DataIn, BulkInOk, BulkInStall, BulkInError, BulkInFault,
            Sent, deviceVars
    <2> QED BY <2>1, <2>2
<1>3. CASE DataOut
    <2>1. pc = "data" /\ cmd.dir = "out" /\ pc' # "idle"
        BY <1>3 DEF DataOut, Fault, Unplugged, TransportError, Return
    <2>2. unit' = unit /\ plugged' = plugged
        BY <1>3 DEF DataOut, BulkOutOk, BulkOutFault, deviceVars
    <2>3. store' = store \/ TakesData(cmd.data)
        BY <1>3 DEF DataOut, BulkOutOk, BulkOutFault, deviceVars
    <2>4. store' \in [D -> Range(store')]
        BY <2>3, DataKeepsSize
    <2> QED BY <2>1, <2>2, <2>4
<1>4. CASE clear_halt
    <2>1. pc = "clear" /\ pc' # "idle"
        BY <1>4 DEF clear_halt, Fault, Unplugged, TransportError, Return
    <2>2. unit' = unit /\ plugged' = plugged /\ store' = store
        BY <1>4 DEF clear_halt, deviceVars
    <2> QED BY <2>1, <2>2
<1>5. CASE GetCsw
    <2>1. pc = "csw" /\ pc' # "idle"
        BY <1>5 DEF GetCsw, Fault, Unplugged, TransportError, Return
    <2>2. unit' = unit /\ plugged' = plugged /\ store' = store
        BY <1>5 DEF GetCsw, BulkInOk, BulkInStall, BulkInError, BulkInFault,
            Sent, deviceVars
    <2> QED BY <2>1, <2>2
<1> QED BY <1>1, <1>2, <1>3, <1>4, <1>5 DEF CommandNext

\* The application's side of it.
LEMMA CommandUse ==
    ASSUME UseOK, CommandNext, UNCHANGED <<scsiVars, appVars>>
    PROVE  UseOK' /\ op # NoOperation
<1>1. /\ unit' = unit /\ plugged' = plugged /\ pc # "idle" /\ pc' # "idle"
      /\ store' \in [0..unit.last -> Range(store')]
    BY CommandFrame DEF UseOK
<1>2. op # NoOperation
    BY <1>1 DEF UseOK
<1> QED BY <1>1, <1>2 DEF UseOK, scsiVars, appVars

\* A read that has been answered in full has what it asked for.
LEMMA ReadYields ==
    ASSUME UseOK, NEW o, NEW c, Serves(o, c), o.kind = "read", ~MustFail(c),
           FullPacket * c.count = c.len,
           NEW d, \A i \in 1..c.count : d[i] = store[c.lba + i - 1]
    PROVE  Holding(o, d, store)
<1>1. /\ c.lba = o.offset /\ c.count = o.count /\ o.buf \in Nat
      /\ c.len = FullPacket * o.buf /\ o.offset \in Nat /\ o.count \in Nat
      /\ c.op \in {"read10", "read16"}
    BY DEF Serves, Reads
<1>2. o.buf = o.count
    BY <1>1 DEF FullPacket
<1>3. unit.last \in Nat /\ DOMAIN store = 0..unit.last
    BY DeviceAssumption DEF UseOK
<1>4. o.offset + o.count - 1 <= unit.last
    BY <1>1, <1>3 DEF MustFail, Transfers
<1>5. ASSUME NEW b \in o.offset..(o.offset + o.count - 1)
      PROVE  b \in 0..unit.last /\ d[b - o.offset + 1] = store[b]
    <2>1. b \in Int /\ b >= o.offset /\ b <= o.offset + o.count - 1
        BY <1>1
    <2>2. b - o.offset + 1 \in 1..c.count
        BY <1>1, <2>1
    <2>3. c.lba + (b - o.offset + 1) - 1 = b
        BY <1>1, <2>1
    <2>4. b \in 0..unit.last
        BY <1>1, <1>3, <1>4, <2>1
    <2>5. d[b - o.offset + 1] = store[c.lba + (b - o.offset + 1) - 1]
        BY <2>2, Zenon
    <2> QED BY <2>3, <2>4, <2>5, Zenon
<1> QED BY <1>1, <1>2, <1>3, <1>5 DEF Holding, Store!Extent

\* The wrapper has been sent and taken.
LEMMA CbwSent ==
    ASSUME Inv, Live, SendCbw, ~broken'
    PROVE  /\ pc = "cbw" /\ Quiet /\ ~outHalted /\ TakesCommand(cmd)
           /\ toggle' = devToggle' /\ UNCHANGED <<unit, cmd, response, data, rc>>
           /\ pc' = IF cmd.dir = "none" THEN "csw" ELSE "data"
           /\ sense \in Senses /\ unit \in Units
<1>1. pc = "cbw" /\ Quiet /\ sense \in Senses /\ unit \in Units
    BY DEF Inv, LinkOK, PhaseOK, SendCbw, UseOK
<1>2. BulkOutOk(1, TakesCommand(cmd))
      /\ pc' = (IF cmd.dir = "none" THEN "csw" ELSE "data")
      /\ UNCHANGED <<cmd, response, data, rc>>
    BY DEF SendCbw, Fault, CutShort, Unplugged
<1>3. toggle = devToggle
    BY <1>1 DEF Quiet
<1>4. /\ ~outHalted /\ TakesCommand(cmd) /\ unit' = unit
      /\ toggle' = [toggle EXCEPT !.out = Flip(@, 1)]
      /\ devToggle' = [devToggle EXCEPT !.out = Flip(@, 1)]
    BY <1>2, <1>3 DEF BulkOutOk
<1> QED BY <1>1, <1>2, <1>3, <1>4

\* An empty answer is less than any operation wants.
LEMMA BriefYields ==
    ASSUME NEW f, NEW y, f = <<Data(0, <<>>), y>>, Serves(op, cmd),
           cmd.dir = "in", NEW d, NEW blocks, NEW last
    PROVE  Yields(op, Size(SubSeq(f, 1, Len(f) - 1)), cmd.len, d, blocks, last)
<1>1. Len(f) = 2 /\ IsSeq(f) /\ f[1] = Data(0, <<>>)
    BY PairIsSeq
<1>2. Size(SubSeq(f, 1, Len(f) - 1)) = 0
    <2>1. f[1].size = 0
        BY <1>1 DEF Data
    <2>2. Size(SubSeq(f, 1, 1)) = FullPacket * (1 - 1) + f[1].size
        BY <1>1, SizeOfPrefix
    <2> QED BY <1>1, <2>1, <2>2 DEF FullPacket
<1>3. op.kind # "write"
    BY DEF Serves, Writes
<1>4. op.kind = "read" => 0 < FullPacket * op.buf
    BY DEF Serves, FullPacket
<1>5. 0 < cmd.len
    BY DEF Serves, Reads, Asks, Writes, Tests
<1> QED BY <1>2, <1>3, <1>4, <1>5 DEF Yields

\* SendCbw keeps both ends in step.
LEMMA CbwLink ==
    ASSUME Inv, Live, SendCbw, ~broken', UNCHANGED <<scsiVars, appVars>>
    PROVE  LinkOK'
<1>1. /\ pc = "cbw" /\ Quiet /\ ~outHalted /\ TakesCommand(cmd)
      /\ toggle' = devToggle' /\ UNCHANGED <<unit, cmd, response, data, rc>>
      /\ pc' = (IF cmd.dir = "none" THEN "csw" ELSE "data")
      /\ sense \in Senses /\ unit \in Units
    BY CbwSent
<1>2. inFifo = <<>> /\ taking = NoWrite
    BY <1>1 DEF Quiet
<1>3. upgrading' = upgrading /\ op' = op /\ why' = why /\ pc' # "idle"
    BY <1>1 DEF scsiVars, appVars
<1>4. CASE upgrading
    <2>1. Asks(cmd) /\ cmd.op = "request_sense" /\ cmd.dir = "in" /\ cmd.len = 18
          /\ why = sense
        BY <1>1, <1>4 DEF Inv, LinkOK, ExplainingOK, Asks
    <2>2. /\ taking' = NoWrite /\ Shape(inFifo', cmd.len, cmd.tag) /\ sense' = sense
          /\ inFifo' = <<Data(18, sense), Csw(cmd.tag, 0)>>
        BY <1>1, <1>2, <2>1, TakesAsks
    <2>3. PhaseOK'
        BY <1>1, <2>1, <2>2 DEF PhaseOK
    <2>4. ExplainingOK'
        BY <1>1, <1>3, <2>1, <2>2 DEF ExplainingOK
    <2> QED BY <1>1, <1>3, <1>4, <2>2, <2>3, <2>4 DEF LinkOK
<1>5. CASE ~upgrading
    <2>1. Serves(op, cmd)
        BY <1>1, <1>5 DEF Inv, LinkOK, ServingOK
    <2>2. SUFFICES PhaseOK' /\ ServingOK' /\ sense' \in Senses
        BY <1>3, <1>5 DEF LinkOK
    <2>3. Serves(op', cmd')
        BY <1>1, <1>3, <2>1
    <2>4. CASE Reads(cmd)
        <3>1. cmd.dir = "in" /\ cmd.op \in {"read10", "read16"} /\ pc' = "data"
            BY <1>1, <2>4 DEF Reads
        <3>2. /\ taking' = NoWrite /\ sense' \in Senses /\ store' = store
              /\ Shape(inFifo', cmd.len, cmd.tag) \/ Halts(inFifo', cmd.tag)
              /\ Filled(inFifo', cmd.len) /\ inFifo'[Len(inFifo')].body[2] = 0
                 /\ inFifo' # <<Data(0, <<>>), Csw(cmd.tag, 0)>> =>
                    /\ ~MustFail(cmd) /\ Len(inFifo') = cmd.count + 1
                    /\ FullPacket * cmd.count = cmd.len
                    /\ \A i \in 1..cmd.count : inFifo'[i].body = store[cmd.lba + i - 1]
            BY <1>1, <1>2, <2>4, TakesRead
        <3>3. PhaseOK'
            BY <1>1, <3>1, <3>2 DEF PhaseOK
        <3>4. ASSUME Filled(inFifo', cmd.len), inFifo'[Len(inFifo')].body[2] = 0,
                     inFifo' # <<Data(0, <<>>), Csw(cmd.tag, 0)>>, NEW m
              PROVE  Yields(op, m, cmd.len, [i \in 1..(Len(inFifo') - 1) |-> inFifo'[i].body],
                            store, unit.last)
            <4> DEFINE d == [i \in 1..(Len(inFifo') - 1) |-> inFifo'[i].body]
            <4>1. cmd.count \in Nat /\ Len(inFifo') - 1 = cmd.count
                BY <2>4, <3>2, <3>4 DEF Reads
            <4>2. \A i \in 1..cmd.count : d[i] = store[cmd.lba + i - 1]
                BY <3>2, <3>4, <4>1
            <4> HIDE DEF d
            <4>3. op.kind = "read" => Holding(op, d, store)
                BY <2>1, <3>2, <3>4, <4>2, ReadYields DEF Inv
            <4>4. op.kind # "write" /\ op.kind # "info"
                BY <2>1, <3>1 DEF Serves, Writes
            <4>5. Yields(op, m, cmd.len, d, store, unit.last)
                BY <4>3, <4>4 DEF Yields
            <4> QED BY <4>5 DEF d
        <3>5. ASSUME inFifo' = <<Data(0, <<>>), Csw(cmd.tag, 0)>>, NEW d
              PROVE  Yields(op, Size(SubSeq(inFifo', 1, Len(inFifo') - 1)), cmd.len, d,
                            store, unit.last)
            BY <1>1, <2>1, <3>1, <3>5, BriefYields
        <3>6. ServingOK'
            BY <1>1, <1>3, <2>3, <3>1, <3>2, <3>4, <3>5 DEF ServingOK, Bodies
        <3> QED BY <3>2, <3>3, <3>6
    <2>5. CASE Asks(cmd)
        <3>1. cmd.dir = "in" /\ pc' = "data" /\ cmd.op \notin {"read10", "read16"}
            BY <1>1, <2>5 DEF Asks
        <3>2. /\ taking' = NoWrite /\ sense' \in Senses /\ store' = store
              /\ Shape(inFifo', cmd.len, cmd.tag) \/ Halts(inFifo', cmd.tag)
              /\ \/ inFifo'[Len(inFifo')].body[2] = 1
                 \/ inFifo' = <<Data(0, <<>>), Csw(cmd.tag, 0)>>
                 \/ ~Filled(inFifo', cmd.len)
                 \/ \E x : /\ inFifo' = <<Data(cmd.len, x), Csw(cmd.tag, 0)>>
                           /\ cmd.op \in {"read_capacity_10", "read_capacity_16"} =>
                                 x[1] \in 0..unit.last
            BY <1>1, <1>2, <2>5, TakesAsks
        <3>3. PhaseOK'
            BY <1>1, <3>1, <3>2 DEF PhaseOK
        <3>4. ASSUME inFifo'[Len(inFifo')].body[2] = 0, Filled(inFifo', cmd.len),
                     inFifo' # <<Data(0, <<>>), Csw(cmd.tag, 0)>>, NEW m
              PROVE  Yields(op, m, cmd.len, [i \in 1..(Len(inFifo') - 1) |-> inFifo'[i].body],
                            store, unit.last)
            <4>1. PICK x : /\ inFifo' = <<Data(cmd.len, x), Csw(cmd.tag, 0)>>
                           /\ cmd.op \in {"read_capacity_10", "read_capacity_16"} =>
                                 x[1] \in 0..unit.last
                BY <3>2, <3>4
            <4>2. Len(inFifo') = 2 /\ inFifo'[1] = Data(cmd.len, x)
                BY <4>1
            <4> DEFINE d == [i \in 1..(Len(inFifo') - 1) |-> inFifo'[i].body]
            <4>3. d[1] = x
                BY <4>2 DEF Data
            <4> HIDE DEF d
            <4>4. op.kind # "read" /\ op.kind # "write"
                BY <2>1, <3>1 DEF Serves, Writes, Reads
            <4>5. op.kind = "info" => d[1][1] \in 0..unit.last
                BY <2>1, <4>1, <4>3 DEF Serves
            <4>6. Yields(op, m, cmd.len, d, store, unit.last)
                BY <4>4, <4>5 DEF Yields
            <4> QED BY <4>6 DEF d
        <3>5. ASSUME inFifo' = <<Data(0, <<>>), Csw(cmd.tag, 0)>>, NEW d
              PROVE  Yields(op, Size(SubSeq(inFifo', 1, Len(inFifo') - 1)), cmd.len, d,
                            store, unit.last)
            BY <1>1, <2>1, <3>1, <3>5, BriefYields
        <3>6. ServingOK'
            BY <1>1, <1>3, <2>3, <3>1, <3>2, <3>4, <3>5 DEF ServingOK, Bodies
        <3> QED BY <3>2, <3>3, <3>6
    <2>6. CASE Writes(cmd)
        <3>1. cmd.dir = "out" /\ pc' = "data"
            BY <1>1, <2>6 DEF Writes
        <3>2. /\ sense' \in Senses
              /\ \/ outHalted' /\ taking' = NoWrite /\ inFifo' = <<Csw(cmd.tag, 1)>>
                 \/ /\ ~outHalted' /\ inFifo' = <<>> /\ taking' # NoWrite
                    /\ taking'.lba = cmd.lba /\ taking'.tag = cmd.tag
                    /\ taking'.count \in {0, cmd.count}
                    /\ taking'.count > 0 => cmd.lba + cmd.count - 1 <= unit.last
            BY <1>1, <1>2, <2>6, TakesWrite
        <3>3. PhaseOK'
            BY <1>1, <3>1, <3>2 DEF PhaseOK, AwaitsData, Refused
        <3>4. ServingOK'
            BY <1>1, <1>3, <2>3, <3>1 DEF ServingOK
        <3> QED BY <3>2, <3>3, <3>4
    <2>7. CASE Tests(cmd)
        <3>1. cmd.dir = "none" /\ pc' = "csw"
            BY <1>1, <2>7 DEF Tests
        <3>2. /\ taking' = NoWrite /\ sense' \in Senses /\ store' = store
              /\ \E s \in 0..2 : inFifo' = <<Csw(cmd.tag, s)>>
            BY <1>1, <1>2, <2>7, TakesTest
        <3>3. PhaseOK'
            BY <1>1, <3>1, <3>2 DEF PhaseOK
        <3>4. op.kind \notin {"read", "write", "info"}
            BY <2>1, <2>7, <3>1 DEF Serves, Reads, Writes, Tests
        <3>5. ServingOK'
            BY <1>1, <1>3, <2>3, <3>1, <3>4 DEF ServingOK, Yields
        <3> QED BY <3>2, <3>3, <3>5
    <2> QED BY <2>1, <2>4, <2>5, <2>6, <2>7 DEF Serves
<1> QED BY <1>4, <1>5

\* The length of an IN command's buffer.
LEMMA InLength ==
    ASSUME Inv, Live, pc # "idle", cmd.dir = "in"
    PROVE  cmd.len \in Nat /\ cmd.len > 0
<1>1. CASE upgrading
    BY <1>1 DEF Inv, LinkOK, ExplainingOK
<1>2. CASE ~upgrading
    <2>1. Serves(op, cmd)
        BY <1>2 DEF Inv, LinkOK, ServingOK
    <2> QED BY <2>1 DEF Serves, Reads, Asks, Writes, Tests
<1> QED BY <1>1, <1>2

\* DataIn keeps both ends in step.
LEMMA DataInLink ==
    ASSUME Inv, Live, DataIn, ~broken', UNCHANGED <<scsiVars, appVars>>,
           Shape(inFifo, cmd.len, cmd.tag)
    PROVE  LinkOK'
<1> DEFINE n == Len(inFifo) - 1
<1>1. /\ pc = "data" /\ cmd.dir = "in" /\ taking = NoWrite /\ toggle = devToggle
      /\ Shape(inFifo, cmd.len, cmd.tag) /\ sense \in Senses
    BY DEF DataIn, Inv, LinkOK, PhaseOK
<1>2. cmd.len \in Nat /\ cmd.len > 0
    BY <1>1, InLength
<1>3. /\ IsSeq(inFifo) /\ Len(inFifo) = n + 1 /\ n \in Nat /\ n >= 1
      /\ \E s \in 0..2 : inFifo[n + 1] = Csw(cmd.tag, s)
      /\ Filled(inFifo, cmd.len) \/ Stalled(inFifo, cmd.len)
    BY <1>1 DEF Shape
<1>4. PICK s \in 0..2 : inFifo[n + 1] = Csw(cmd.tag, s)
    BY <1>3
<1>5. upgrading' = upgrading /\ op' = op /\ why' = why
    BY DEF scsiVars, appVars
<1>6. upgrading => inFifo = <<Data(18, sense), Csw(cmd.tag, 0)>>
                   /\ cmd.op = "request_sense" /\ cmd.len = 18 /\ why = sense
    BY <1>1 DEF Inv, LinkOK, ExplainingOK
<1>7. ~upgrading => Serves(op, cmd)
    BY <1>1 DEF Inv, LinkOK, ServingOK
<1>8. Filled(inFifo, cmd.len) =>
         /\ PacketsFor(cmd.len) = n
         /\ Size(SubSeq(inFifo, 1, n)) \in 0..cmd.len
    BY <1>1, <1>2, FilledTakesAll
<1>9. Stalled(inFifo, cmd.len) => PacketsFor(cmd.len) = 0 /\ StallsAt = n
    BY <1>1, <1>2, StalledTakesNone
<1>10. CASE /\ BulkInOk(cmd.len)
            /\ response' = Size(SubSeq(inFifo, 1, PacketsFor(cmd.len)))
            /\ data' = Bodies(PacketsFor(cmd.len))
            /\ pc' = "csw" /\ UNCHANGED <<cmd, tag, rc, faults, broken>>
    <2>1. PacketsFor(cmd.len) > 0
        BY <1>10 DEF BulkInOk
    <2>2. Filled(inFifo, cmd.len) /\ PacketsFor(cmd.len) = n
        BY <1>3, <1>8, <1>9, <2>1
    <2>3. inFifo' = SubSeq(inFifo, n + 1, Len(inFifo)) /\ toggle' = devToggle'
          /\ UNCHANGED <<unit, store, taking, sense>>
        BY <1>1, <1>10, <2>2 DEF BulkInOk, Sent
    <2>4. inFifo' = <<Csw(cmd.tag, s)>>
        BY <1>3, <1>4, <2>3, LastOne
    <2>5. PhaseOK'
        BY <1>1, <1>10, <2>3, <2>4 DEF PhaseOK
    <2>6. CASE upgrading
        <3>1. Len(inFifo) = 2 /\ inFifo[1] = Data(18, sense) /\ inFifo[2] = Csw(cmd.tag, 0)
            BY <1>6, <2>6
        <3>2. n = 1
            BY <3>1
        <3>3. response' = FullPacket * (1 - 1) + inFifo[1].size
            <4>1. response' = Size(SubSeq(inFifo, 1, 1))
                BY <1>10, <2>2, <3>2
            <4> QED BY <1>3, <3>1, <4>1, SizeOfPrefix
        <3>4. response' = 18
            BY <3>1, <3>3 DEF FullPacket, Data
        <3>5. data' = <<sense>>
            <4>1. data' = [i \in 1..1 |-> inFifo[i].body]
                BY <1>10, <2>2, <3>2 DEF Bodies
            <4>2. inFifo[1].body = sense
                BY <3>1 DEF Data
            <4> QED BY <4>1, <4>2
        <3>6. inFifo' = <<Csw(cmd.tag, 0)>>
            BY <1>4, <2>4, <3>1, <3>2
        <3>7. ExplainingOK'
            BY <1>1, <1>5, <1>6, <1>10, <2>3, <2>6, <3>4, <3>5, <3>6 DEF ExplainingOK
        <3> QED BY <1>1, <1>5, <1>10, <2>3, <2>5, <2>6, <3>7 DEF LinkOK
    <2>7. CASE ~upgrading
        <3>1. inFifo'[1].body[2] = s /\ inFifo[Len(inFifo)].body[2] = s
            BY <1>3, <1>4, <2>4, CswParts
        <3>2. s = 0 => Yields(op, response', cmd.len, data', store, unit.last)
            BY <1>1, <1>10, <2>2, <2>7, <3>1 DEF Inv, LinkOK, ServingOK
        <3>3. ServingOK'
            BY <1>5, <1>7, <1>10, <2>3, <2>7, <3>1, <3>2 DEF ServingOK
        <3> QED BY <1>1, <1>5, <1>10, <2>3, <2>5, <2>7, <3>3 DEF LinkOK
    <2> QED BY <2>6, <2>7
<1>11. CASE /\ BulkInStall(cmd.len) /\ pc' = "clear"
            /\ UNCHANGED <<cmd, tag, response, rc, faults, broken>>
    <2>1. Stalled(inFifo, cmd.len) /\ StallsAt = n /\ inFifo[n] = Stall
        <3>1. PacketsFor(cmd.len) = 0
            BY <1>11 DEF BulkInStall
        <3>2. Stalled(inFifo, cmd.len)
            BY <1>3, <1>8, <3>1
        <3> QED BY <1>9, <3>2 DEF Stalled
    <2>2. /\ inFifo' = SubSeq(inFifo, (n - 1) + 1, Len(inFifo)) /\ toggle' = toggle
          /\ devToggle' = [devToggle EXCEPT !.in = Flip(@, n - 1)]
          /\ UNCHANGED <<unit, store, taking, sense>>
        BY <1>11, <2>1 DEF BulkInStall, Sent
    <2>3. inFifo' = <<Stall, Csw(cmd.tag, s)>>
        <3>1. (n - 1) + 1 = n
            BY <1>3
        <3>2. SubSeq(inFifo, n, Len(inFifo)) = <<inFifo[n], inFifo[n + 1]>>
            BY <1>3, LastTwo
        <3> QED BY <1>4, <2>1, <2>2, <3>1, <3>2
    <2>4. [toggle' EXCEPT !.in = 0] = [devToggle' EXCEPT !.in = 0]
        BY <1>1, <2>2
    <2>5. PhaseOK'
        BY <1>1, <1>11, <2>2, <2>3, <2>4 DEF PhaseOK
    <2>6. ~upgrading
        <3>1. SUFFICES ASSUME upgrading PROVE FALSE
            OBVIOUS
        <3>2. Len(inFifo) = 2 /\ inFifo[1] = Data(18, sense)
            BY <1>6, <3>1
        <3>3. inFifo[1] = Stall
            BY <2>1, <3>2
        <3> QED BY <3>2, <3>3 DEF Data, Stall
    <2>7. ServingOK'
        BY <1>5, <1>7, <1>11, <2>6 DEF ServingOK
    <2> QED BY <1>1, <1>5, <1>11, <2>2, <2>5, <2>6, <2>7 DEF LinkOK
<1>12. ~BulkInError(cmd.len)
    <2>1. SUFFICES ASSUME BulkInError(cmd.len) PROVE FALSE
        OBVIOUS
    <2>2. PacketsFor(cmd.len) > 0 /\ Size(SubSeq(inFifo, 1, PacketsFor(cmd.len))) > cmd.len
        BY <1>1, <2>1 DEF BulkInError
    <2>3. Filled(inFifo, cmd.len)
        BY <1>3, <1>9, <2>2
    <2> QED BY <1>2, <1>8, <2>2, <2>3
<1> QED BY <1>10, <1>11, <1>12 DEF DataIn, Fault, Unplugged

\* Or leaves it with a halt that the device has made behind a short packet.
LEMMA DataInHalts ==
    ASSUME Inv, Live, DataIn, ~broken', UNCHANGED <<scsiVars, appVars>>,
           Halts(inFifo, cmd.tag)
    PROVE  LinkOK'
<1>1. /\ pc = "data" /\ cmd.dir = "in" /\ taking = NoWrite /\ toggle = devToggle
      /\ sense \in Senses
    BY DEF DataIn, Inv, LinkOK, PhaseOK
<1>2. cmd.len \in Nat /\ cmd.len > 0
    BY <1>1, InLength
<1>3. PICK s \in 0..2 :
         /\ inFifo = <<Data(0, <<>>), Stall, Csw(cmd.tag, s)>>
         /\ IsSeq(inFifo) /\ Len(inFifo) = 3 /\ inFifo[1] = Data(0, <<>>)
         /\ inFifo[2] = Stall /\ inFifo[3] = Csw(cmd.tag, s)
         /\ inFifo[1].kind = "data" /\ inFifo[1].size = 0
         /\ inFifo[2].kind = "stall"
    BY HaltsIs
<1>4. upgrading' = upgrading /\ op' = op /\ why' = why
    BY DEF scsiVars, appVars
<1>5. ~upgrading /\ Serves(op, cmd)
    <2>1. ASSUME upgrading PROVE FALSE
        <3>1. inFifo = <<Data(18, sense), Csw(cmd.tag, 0)>>
            BY <1>1, <2>1 DEF Inv, LinkOK, ExplainingOK
        <3>2. Len(inFifo) = 2
            BY <3>1, PairIsSeq
        <3> QED BY <1>3, <3>2
    <2>2. ~upgrading
        BY <2>1
    <2> QED BY <1>1, <2>2 DEF Inv, LinkOK, ServingOK
<1>6. PacketsFor(cmd.len) = 1 /\ Size(SubSeq(inFifo, 1, 1)) = 0
    <2> DEFINE ends == {k \in 1..Len(inFifo) :
                          /\ \A j \in 1..k : inFifo[j].kind # "stall"
                          /\ \/ inFifo[k].size < FullPacket
                             \/ Size(SubSeq(inFifo, 1, k)) >= cmd.len}
    <2>1. 1 \in ends
        BY <1>3 DEF FullPacket
    <2>2. ends \in SUBSET Int /\ \A k \in ends : 1 <= k
        BY <1>3
    <2>3. Min(ends) = 1
        <3> HIDE DEF ends
        <3> QED BY <2>1, <2>2, MinIs
    <2>4. Size(SubSeq(inFifo, 1, 1)) = FullPacket * (1 - 1) + inFifo[1].size
        BY <1>3, SizeOfPrefix
    <2> QED BY <1>3, <2>1, <2>3, <2>4 DEF PacketsFor, FullPacket
<1>7. /\ BulkInOk(cmd.len) /\ response' = Size(SubSeq(inFifo, 1, 1))
      /\ pc' = "csw" /\ UNCHANGED <<cmd, rc>>
    BY <1>1, <1>2, <1>6 DEF DataIn, BulkInStall, BulkInError, Fault, Unplugged
<1>8. /\ inFifo' = SubSeq(inFifo, 1 + 1, Len(inFifo)) /\ toggle' = devToggle'
      /\ UNCHANGED <<unit, store, taking, sense>>
    BY <1>1, <1>6, <1>7 DEF BulkInOk, Sent
<1>9. inFifo' = <<Stall, Csw(cmd.tag, s)>>
    <2>1. SubSeq(inFifo, 2, Len(inFifo)) = <<inFifo[2], inFifo[3]>>
        <3>1. 2 \in Nat /\ 2 >= 1 /\ Len(inFifo) = 2 + 1 /\ 2 + 1 = 3
            BY <1>3
        <3> QED BY ONLY <1>3, <3>1, LastTwo
    <2>2. 1 + 1 = 2
        OBVIOUS
    <2> QED BY <1>3, <1>8, <2>1, <2>2
<1>10. PhaseOK'
    BY <1>1, <1>7, <1>8, <1>9 DEF PhaseOK
<1>11. inFifo'[1].kind = "stall"
    BY <1>9, PairIsSeq DEF Stall
<1>12. ServingOK'
    BY <1>4, <1>5, <1>7, <1>11 DEF ServingOK
<1> QED BY <1>1, <1>4, <1>5, <1>7, <1>8, <1>10, <1>12 DEF LinkOK

\* The data of a write arrives at a device that awaits it: if the status is
\* good the blocks hold it.
LEMMA DataTaken ==
    ASSUME UseOK, Serves(op, cmd), cmd.dir = "out", AwaitsData, TakesData(cmd.data)
    PROVE  /\ taking' = NoWrite /\ sense' = sense
           /\ \E s \in 0..2 :
                 /\ inFifo' = <<Csw(cmd.tag, s)>>
                 /\ s = 0 => Holding(op, op.data, store')
                 /\ store' = store
                    \/ (/\ op.kind = "write" /\ op.buf >= op.count
                        /\ Store!Extent(op) \subseteq DOMAIN store
                        /\ store' = [b \in DOMAIN store |->
                              IF b \in Store!Extent(op) THEN op.data[b - op.offset + 1]
                                                        ELSE store[b]])
<1>1. /\ op.kind = "write" /\ Writes(cmd)
      /\ cmd.lba = op.offset /\ cmd.count = op.count
      /\ cmd.data = op.data /\ Len(op.data) = op.buf
      /\ op.offset \in Nat /\ op.count \in Nat /\ op.buf \in Nat
    BY DEF Serves, Reads, Asks, Writes, Tests
<1>2. /\ inFifo = <<>> /\ taking # NoWrite /\ taking.lba = op.offset
      /\ taking.tag = cmd.tag /\ taking.count \in {0, op.count}
      /\ taking.count > 0 => op.offset + op.count - 1 <= unit.last
    BY <1>1 DEF AwaitsData
<1>3. unit.last \in Nat /\ DOMAIN store = 0..unit.last
    BY DeviceAssumption DEF UseOK
<1> DEFINE n == taking.count
           ok == n > 0 /\ Len(cmd.data) >= n
           status == IF ok THEN 0 ELSE IF n = 0 THEN 1 ELSE 2
<1>4. /\ store' = [b \in DOMAIN store |->
                     IF ok /\ b \in op.offset..(op.offset + n - 1)
                     THEN op.data[b - op.offset + 1] ELSE store[b]]
      /\ inFifo' = Append(<<>>, Csw(cmd.tag, status))
      /\ taking' = NoWrite /\ sense' = sense
    BY <1>1, <1>2 DEF TakesData
<1>5. inFifo' = <<Csw(cmd.tag, status)>>
    <2>1. \A x : Append(<<>>, x) = <<x>>
        OBVIOUS
    <2> QED BY <1>4, <2>1
<1>6. status \in 0..2
    OBVIOUS
<1>7. CASE ok
    <2>1. /\ n = op.count /\ op.buf >= op.count
          /\ op.offset + op.count - 1 <= unit.last
        BY <1>1, <1>2, <1>7
    <2>2. Store!Extent(op) = op.offset..(op.offset + n - 1)
        BY <2>1 DEF Store!Extent
    <2>3. Store!Extent(op) \subseteq DOMAIN store
        BY <1>1, <1>3, <2>1 DEF Store!Extent
    <2>4. store' = [b \in DOMAIN store |->
                      IF b \in Store!Extent(op) THEN op.data[b - op.offset + 1]
                                                ELSE store[b]]
        BY <1>4, <1>7, <2>2
    <2>5. Holding(op, op.data, store')
        BY <2>1, <2>3, <2>4 DEF Holding
    <2> QED BY <1>1, <1>4, <1>5, <1>6, <2>1, <2>3, <2>4, <2>5
<1>8. CASE ~ok
    <2>1. store' = [b \in DOMAIN store |-> store[b]]
        BY <1>4, <1>8
    <2>2. store' = store
        BY <2>1 DEF UseOK
    <2>3. status # 0
        BY <1>8
    <2> QED BY <1>4, <1>5, <1>6, <2>2, <2>3
<1> QED BY <1>7, <1>8

\* DataOut keeps both ends in step.
LEMMA DataOutLink ==
    ASSUME Inv, Live, DataOut, ~broken', UNCHANGED <<scsiVars, appVars>>
    PROVE  LinkOK'
<1>1. /\ pc = "data" /\ cmd.dir = "out" /\ toggle = devToggle /\ sense \in Senses
      /\ AwaitsData \/ Refused
    BY DEF DataOut, Inv, LinkOK, PhaseOK
<1>2. upgrading' = upgrading /\ op' = op /\ why' = why
    BY DEF scsiVars, appVars
<1>3. ~upgrading /\ Serves(op, cmd)
    BY <1>1 DEF Inv, LinkOK, ExplainingOK, ServingOK
<1>4. CASE /\ BulkOutOk(Len(cmd.data), TakesData(cmd.data)) /\ response' = cmd.len
           /\ pc' = "csw" /\ UNCHANGED <<cmd, tag, data, rc, faults, broken>>
    <2>1. ~outHalted /\ TakesData(cmd.data) /\ toggle' = devToggle' /\ unit' = unit
        BY <1>1, <1>4 DEF BulkOutOk
    <2>2. AwaitsData
        BY <1>1, <2>1 DEF Refused
    <2>3. /\ taking' = NoWrite /\ sense' = sense
          /\ \E s \in 0..2 : /\ inFifo' = <<Csw(cmd.tag, s)>>
                             /\ s = 0 => Holding(op, op.data, store')
        BY <1>1, <1>3, <2>1, <2>2, DataTaken DEF Inv
    <2>4. PICK s \in 0..2 : /\ inFifo' = <<Csw(cmd.tag, s)>>
                            /\ s = 0 => Holding(op, op.data, store')
        BY <2>3
    <2>5. PhaseOK'
        BY <1>1, <1>4, <2>1, <2>3, <2>4 DEF PhaseOK
    <2>6. inFifo'[1].body[2] = s
        BY <2>4, CswParts
    <2>7. op.kind = "write"
        BY <1>1, <1>3 DEF Serves, Reads, Asks, Writes, Tests
    <2>8. s = 0 => Yields(op, response', cmd.len, data', store', unit.last)
        BY <2>4, <2>7 DEF Yields
    <2>9. ServingOK'
        BY <1>2, <1>3, <1>4, <2>1, <2>6, <2>8 DEF ServingOK
    <2> QED BY <1>1, <1>2, <1>3, <1>4, <2>3, <2>5, <2>9 DEF LinkOK
<1>5. CASE /\ outHalted /\ pc' = "clear"
           /\ UNCHANGED <<cmd, tag, response, data, rc, toggle, faults, broken,
                          deviceVars>>
    <2>1. Refused
        BY <1>1, <1>5 DEF AwaitsData
    <2>2. PhaseOK'
        <3>1. [toggle' EXCEPT !.in = 0] = [devToggle' EXCEPT !.in = 0]
            BY <1>1, <1>5 DEF deviceVars
        <3> QED BY <1>1, <1>5, <2>1, <3>1 DEF PhaseOK, Refused, deviceVars
    <2>3. ServingOK'
        BY <1>2, <1>3, <1>5 DEF ServingOK
    <2>4. sense' = sense
        BY <1>5 DEF deviceVars
    <2> QED BY <1>1, <1>2, <1>3, <1>5, <2>2, <2>3, <2>4 DEF LinkOK
<1> QED BY <1>4, <1>5 DEF DataOut, Fault, Unplugged

\* clear_halt brings both ends back in step.
LEMMA ClearLink ==
    ASSUME Inv, Live, clear_halt, ~broken', UNCHANGED <<scsiVars, appVars>>
    PROVE  LinkOK'
<1>1. /\ pc = "clear" /\ taking = NoWrite /\ sense \in Senses
      /\ [toggle EXCEPT !.in = 0] = [devToggle EXCEPT !.in = 0]
      /\ \/ inFifo = <<Csw(cmd.tag, 1)>>
         \/ cmd.dir = "in" /\ \E s \in 0..2 : inFifo = <<Stall, Csw(cmd.tag, s)>>
    BY DEF clear_halt, Inv, LinkOK, PhaseOK
<1>2. upgrading' = upgrading /\ op' = op
    BY DEF scsiVars, appVars
<1>3. ~upgrading /\ Serves(op, cmd)
    BY <1>1 DEF Inv, LinkOK, ExplainingOK, ServingOK
<1>4. /\ ClearsIn /\ toggle' = [toggle EXCEPT !.in = 0] /\ response' = 0 /\ pc' = "csw"
      /\ UNCHANGED <<unit, store, taking, sense, cmd, data, rc>>
    BY DEF clear_halt, Fault, Unplugged
<1>5. toggle' = devToggle'
    BY <1>1, <1>4 DEF ClearsIn
<1>6. \E s \in 0..2 : inFifo' = <<Csw(cmd.tag, s)>> /\ (cmd.dir = "in" \/ s = 1)
    <2>1. CASE inFifo = <<Csw(cmd.tag, 1)>>
        <3>1. inFifo[1].kind = "csw" /\ 1 \in 0..2
            BY <2>1, CswParts
        <3>2. inFifo' = inFifo
            BY <1>4, <3>1 DEF ClearsIn
        <3> QED BY <2>1, <3>1, <3>2
    <2>2. CASE cmd.dir = "in" /\ \E s \in 0..2 : inFifo = <<Stall, Csw(cmd.tag, s)>>
        <3>1. PICK s \in 0..2 : inFifo = <<Stall, Csw(cmd.tag, s)>>
            BY <2>2
        <3>2. inFifo # <<>> /\ inFifo[1].kind = "stall"
            BY <3>1 DEF Stall
        <3>3. inFifo' = Tail(inFifo)
            BY <1>4, <3>2 DEF ClearsIn
        <3>4. \A x, y : Tail(<<x, y>>) = <<y>>
            OBVIOUS
        <3>5. inFifo' = <<Csw(cmd.tag, s)>>
            BY <3>1, <3>3, <3>4
        <3> QED BY <2>2, <3>5
    <2> QED BY <1>1, <2>1, <2>2
<1>7. PICK s \in 0..2 : inFifo' = <<Csw(cmd.tag, s)>> /\ (cmd.dir = "in" \/ s = 1)
    BY <1>6
<1>8. PhaseOK'
    BY <1>1, <1>4, <1>5, <1>7 DEF PhaseOK
<1>9. inFifo'[1].body[2] = s
    BY <1>7, CswParts
<1>10. s = 0 => Yields(op, 0, cmd.len, data, store, unit.last)
    <2>1. SUFFICES ASSUME cmd.dir = "in"
                   PROVE  Yields(op, 0, cmd.len, data, store, unit.last)
        BY <1>7
    <2>2. op.kind # "write"
        BY <1>3, <2>1 DEF Serves, Writes
    <2>3. op.kind = "read" => 0 < FullPacket * op.buf
        BY <1>3 DEF Serves, FullPacket
    <2>4. 0 < cmd.len
        BY <1>1, <2>1, InLength
    <2> QED BY <2>2, <2>3, <2>4 DEF Yields
<1>11. ServingOK'
    BY <1>2, <1>3, <1>4, <1>9, <1>10 DEF ServingOK
<1> QED BY <1>1, <1>2, <1>3, <1>4, <1>8, <1>11 DEF LinkOK

\* A transfer of 13 bytes takes the status wrapper and no more.
LEMMA CswTaken ==
    ASSUME NEW t, NEW s, inFifo = <<Csw(t, s)>>
    PROVE  /\ PacketsFor(13) = 1 /\ Size(SubSeq(inFifo, 1, 1)) = 13
           /\ SubSeq(inFifo, 1 + 1, Len(inFifo)) = <<>>
<1>1. Len(inFifo) = 1 /\ inFifo[1] = Csw(t, s)
    OBVIOUS
<1>2. inFifo[1].kind = "csw" /\ inFifo[1].size = 13
    BY <1>1, CswParts
<1>3. inFifo \in [1..1 -> {Csw(t, s)}]
    OBVIOUS
<1>4. IsSeq(inFifo)
    BY <1>3, FcnIsSeq
<1>5. Size(SubSeq(inFifo, 1, 1)) = 13
    BY <1>1, <1>2, <1>4, SizeOfPrefix DEF FullPacket
<1>6. PacketsFor(13) = 1
    <2> DEFINE ends == {k \in 1..Len(inFifo) :
                          /\ \A j \in 1..k : inFifo[j].kind # "stall"
                          /\ \/ inFifo[k].size < FullPacket
                             \/ Size(SubSeq(inFifo, 1, k)) >= 13}
    <2>1. 1 \in ends
        BY <1>1, <1>2 DEF FullPacket
    <2>2. ends \in SUBSET Int /\ \A k \in ends : 1 <= k
        BY <1>1
    <2>3. Min(ends) = 1
        <3> HIDE DEF ends
        <3> QED BY <2>1, <2>2, MinIs
    <2> QED BY <2>1, <2>3 DEF PacketsFor
<1>7. SubSeq(inFifo, 1 + 1, Len(inFifo)) = <<>>
    <2>1. \A x : SubSeq(<<x>>, 2, 1) = <<>>
        OBVIOUS
    <2> QED BY <1>1, <2>1
<1> QED BY <1>5, <1>6, <1>7

\* A halt in the status phase is the end of the link.
LEMMA HaltRemains ==
    ASSUME NEW t, NEW s, inFifo = <<Stall, Csw(t, s)>>, toggle = devToggle, GetCsw
    PROVE  broken'
<1>1. Len(inFifo) = 2 /\ inFifo[1] = Stall
    BY PairIsSeq
<1>2. inFifo[1].kind = "stall"
    BY <1>1 DEF Stall
<1>3. PacketsFor(13) = 0
    <2>1. {k \in 1..Len(inFifo) :
              /\ \A j \in 1..k : inFifo[j].kind # "stall"
              /\ \/ inFifo[k].size < FullPacket
                 \/ Size(SubSeq(inFifo, 1, k)) >= 13} = {}
        BY <1>1, <1>2
    <2> QED BY <2>1 DEF PacketsFor
<1> QED BY <1>2, <1>3 DEF GetCsw, BulkInOk, BulkInError, Fault, Unplugged

\* GetCsw keeps both ends in step.
LEMMA CswLink ==
    ASSUME Inv, Live, GetCsw, ~broken', UNCHANGED <<scsiVars, appVars>>
    PROVE  LinkOK'
<1>1. /\ pc = "csw" /\ taking = NoWrite /\ toggle = devToggle /\ sense \in Senses
      /\ \E s \in 0..2 : \/ inFifo = <<Csw(cmd.tag, s)>>
                        \/ inFifo = <<Stall, Csw(cmd.tag, s)>>
    BY DEF GetCsw, Inv, LinkOK, PhaseOK
<1>2. PICK s \in 0..2 : inFifo = <<Csw(cmd.tag, s)>>
    <2>1. ASSUME NEW s \in 0..2, inFifo = <<Stall, Csw(cmd.tag, s)>> PROVE FALSE
        BY <1>1, <2>1, HaltRemains
    <2> QED BY <1>1, <2>1
<1>3. upgrading' = upgrading /\ op' = op /\ why' = why
    BY DEF scsiVars, appVars
<1>4. /\ PacketsFor(13) = 1 /\ Size(SubSeq(inFifo, 1, 1)) = 13
      /\ SubSeq(inFifo, 1 + 1, Len(inFifo)) = <<>>
    BY <1>2, CswTaken
<1>5. BulkInOk(13) /\ Return(StatusOf(inFifo[1])) /\ UNCHANGED <<cmd, response, data>>
    BY <1>1, <1>4 DEF GetCsw, BulkInStall, BulkInError, Fault, Unplugged
<1>6. /\ inFifo' = <<>> /\ toggle' = devToggle' /\ pc' = "done"
      /\ UNCHANGED <<unit, store, taking, sense>> /\ rc' = StatusOf(inFifo[1])
    BY <1>1, <1>4, <1>5 DEF BulkInOk, Sent, Return
<1>7. PhaseOK'
    BY <1>1, <1>6 DEF PhaseOK, Quiet
<1>8. inFifo[1].body[2] = s /\ inFifo[1].size = 13
    BY <1>2, CswParts
<1>12. inFifo[1].kind = "csw"
    BY <1>2, CswParts
<1>9. /\ rc' \in {"Ok", "CommandFailed", "ProtocolError"}
      /\ rc' = "Ok" <=> s = 0
    BY <1>2, <1>6, <1>8 DEF StatusOf
<1>10. CASE upgrading
    <2>1. inFifo = <<Csw(cmd.tag, 0)>> /\ cmd.op = "request_sense" /\ cmd.dir = "in"
          /\ cmd.len = 18 /\ why = sense /\ response = 18 /\ data = <<sense>>
        BY <1>1, <1>10 DEF Inv, LinkOK, ExplainingOK
    <2>2. inFifo[1].body[2] = 0
        BY <2>1, CswParts
    <2>3. rc' = "Ok"
        BY <1>8, <1>9, <2>2
    <2>4. ExplainingOK'
        BY <1>3, <1>5, <1>6, <2>1, <2>3 DEF ExplainingOK
    <2> QED BY <1>1, <1>3, <1>6, <1>7, <1>10, <2>4 DEF LinkOK
<1>11. CASE ~upgrading
    <2>1. Serves(op, cmd) /\ (s = 0 => Yields(op, response, cmd.len, data, store, unit.last))
        BY <1>1, <1>8, <1>11, <1>12 DEF Inv, LinkOK, ServingOK
    <2>2. ServingOK'
        BY <1>3, <1>5, <1>6, <1>9, <2>1 DEF ServingOK
    <2> QED BY <1>1, <1>3, <1>6, <1>7, <1>11, <2>2 DEF LinkOK
<1> QED BY <1>10, <1>11

\* Any step of command().
LEMMA CommandStep ==
    ASSUME Inv, CommandNext, UNCHANGED <<scsiVars, appVars>>
    PROVE  Inv'
<1>1. UseOK'
    BY CommandUse DEF Inv
<1>2. CASE Live /\ ~broken'
    <2>1. CASE DataIn
        <3>1. Shape(inFifo, cmd.len, cmd.tag) \/ Halts(inFifo, cmd.tag)
            BY <1>2, <2>1 DEF Inv, LinkOK, PhaseOK, DataIn
        <3> QED BY <1>1, <1>2, <2>1, <3>1, DataInLink, DataInHalts DEF Inv
    <2> QED BY <1>1, <1>2, <2>1, CbwLink, DataOutLink, ClearLink, CswLink
        DEF Inv, CommandNext
<1>3. CASE ~Live /\ ~broken'
    <2>1. broken
        <3>1. op # NoOperation
            BY CommandUse DEF Inv
        <3> QED BY <1>3, <3>1 DEF Inv, UseOK, Live
    <2>2. broken'
        BY <2>1 DEF CommandNext, SendCbw, DataIn, DataOut, clear_halt, GetCsw,
            Fault, CutShort, Unplugged
    <2> QED BY <1>3, <2>2
<1>4. CASE broken'
    BY <1>1, <1>4 DEF Inv, LinkOK, Live
<1> QED BY <1>2, <1>3, <1>4

-----------------------------------------------------------------------------
(* Steps of the layers above.                                              *)

\* An operation starts, or goes on, with a command that serves it.
LEMMA StartStep ==
    ASSUME Inv, pc = "idle", stage \notin {"connect", "ignored"},
           NEW o, NEW c, Start(o, c), o # NoOperation, \A t : Serves(o, Tagged(c, t))
    PROVE  Inv'
<1>1. /\ op' = o /\ outcome' = NoOutcome /\ answer' = NoAnswer
      /\ cmd' = Tagged(c, tag') /\ pc' = "cbw"
      /\ UNCHANGED <<deviceVars, toggle, broken, upgrading, stage>>
    BY DEF Start, Command
<1>2. ~upgrading
    BY DEF Inv, UseOK
<1>3. UseOK'
    BY <1>1, <1>2 DEF Inv, UseOK, deviceVars
<1>4. ASSUME Live' PROVE PhaseOK' /\ sense' \in Senses /\ ServingOK'
    <2>1. Live
        BY <1>1, <1>4 DEF Live
    <2>2. Quiet /\ sense \in Senses
        BY <2>1 DEF Inv, LinkOK, PhaseOK
    <2>3. Serves(op', cmd')
        BY <1>1
    <2>4. Quiet'
        BY <1>1, <2>2 DEF Quiet, deviceVars
    <2>5. PhaseOK'
        BY <1>1, <2>4 DEF PhaseOK
    <2> QED BY <1>1, <2>2, <2>3, <2>5 DEF ServingOK, deviceVars
<1>5. LinkOK'
    BY <1>1, <1>2, <1>4 DEF LinkOK
<1> QED BY <1>3, <1>5 DEF Inv

\* The commands without data blocks serve operations that are not transfers.
LEMMA AskServes ==
    ASSUME NEW o, NEW t
    PROVE  /\ o.kind = "inquiry" => Serves(o, Tagged(Inquiry, t))
           /\ o.kind = "ready" => Serves(o, Tagged(TestUnitReady, t))
           /\ o.kind = "info" => Serves(o, Tagged(ReadCapacity10, t))
           /\ o.kind = "info" => Serves(o, Tagged(ReadCapacity16, t))
           /\ \A n : o.kind = "query" =>
                        Serves(o, Tagged(ReportSupportedOperationCodes(n), t))
           /\ o.kind = "limits" => Serves(o, Tagged(BlockLimitsPage, t))
<1>1. ASSUME NEW c, Asks(c) \/ Tests(c), c.op # "request_sense",
             o.kind \notin {"read", "write"},
             o.kind = "info" => c.op \in {"read_capacity_10", "read_capacity_16"}
      PROVE  Serves(o, c)
    <2>1. ~Writes(c)
        BY <1>1 DEF Asks, Tests, Writes
    <2> QED BY <1>1, <2>1 DEF Serves
<1>2. Asks(Tagged(Inquiry, t)) /\ Tagged(Inquiry, t).op = "inquiry"
    BY DEF Asks, Tagged, Inquiry
<1>3. Tests(Tagged(TestUnitReady, t)) /\ Tagged(TestUnitReady, t).op = "test_unit_ready"
    BY DEF Tests, Tagged, TestUnitReady
<1>4. Asks(Tagged(ReadCapacity10, t)) /\ Tagged(ReadCapacity10, t).op = "read_capacity_10"
    BY DEF Asks, Tagged, ReadCapacity10
<1>5. Asks(Tagged(ReadCapacity16, t)) /\ Tagged(ReadCapacity16, t).op = "read_capacity_16"
    BY DEF Asks, Tagged, ReadCapacity16
<1>6. \A n : /\ Asks(Tagged(ReportSupportedOperationCodes(n), t))
             /\ Tagged(ReportSupportedOperationCodes(n), t).op
                    = "report_supported_operation_codes"
    BY DEF Asks, Tagged, ReportSupportedOperationCodes
<1>7. Asks(Tagged(BlockLimitsPage, t)) /\ Tagged(BlockLimitsPage, t).op = "block_limits_page"
    BY DEF Asks, Tagged, BlockLimitsPage
<1> QED BY <1>1, <1>2, <1>3, <1>4, <1>5, <1>6, <1>7

\* A number that fits in a field is not changed by being cut to it.
LEMMA Fits ==
    ASSUME NEW x \in Nat, NEW m \in Nat, x <= m
    PROVE  x % (m + 1) = x
OBVIOUS

\* Both forms of read name the blocks that were asked for.
LEMMA ReadServes ==
    ASSUME NEW o \in Requests, o.kind = "read", ~Overflows(o), NEW t
    PROVE  Serves(o, Tagged(IF Short10(o) THEN Read10(o.offset, o.count, o.buf)
                                          ELSE Read16(o.offset, o.count, o.buf), t))
<1>1. /\ o.offset \in Nat /\ o.count \in Nat /\ o.buf \in Nat \ {0}
      /\ o.offset <= U64Max /\ o.count <= U32Max
      /\ U16Max \in Nat /\ U32Max \in Nat /\ U64Max \in Nat
    BY RequestAssumption, WidthAssumption
<1>2. ASSUME NEW c, c.op \in {"read10", "read16"}, c.lba = o.offset, c.count = o.count,
             c.dir = "in", c.len = FullPacket * o.buf
      PROVE  Serves(o, c)
    <2>1. c.len \in Nat /\ o.buf \in 1..c.len
        BY <1>1, <1>2 DEF FullPacket
    <2>2. Reads(c)
        BY <1>1, <1>2, <2>1 DEF Reads
    <2>3. ~Writes(c)
        BY <1>2 DEF Writes
    <2> QED BY <1>1, <1>2, <2>2, <2>3 DEF Serves
<1>3. CASE Short10(o)
    <2>1. o.offset <= U32Max /\ o.count <= U16Max
        BY <1>1, <1>3 DEF Short10
    <2>2. o.offset % (U32Max + 1) = o.offset /\ o.count % (U16Max + 1) = o.count
        BY <1>1, <2>1, Fits
    <2> DEFINE c == Tagged(Read10(o.offset, o.count, o.buf), t)
    <2>3. c.op = "read10" /\ c.lba = o.offset /\ c.count = o.count /\ c.dir = "in"
          /\ c.len = FullPacket * o.buf
        BY <2>2 DEF Tagged, Read10
    <2> HIDE DEF c
    <2>4. Serves(o, c)
        BY <1>2, <2>3
    <2> QED BY <1>3, <2>4 DEF c
<1>4. CASE ~Short10(o)
    <2>1. o.offset % (U64Max + 1) = o.offset /\ o.count % (U32Max + 1) = o.count
        BY <1>1, Fits
    <2> DEFINE c == Tagged(Read16(o.offset, o.count, o.buf), t)
    <2>2. c.op = "read16" /\ c.lba = o.offset /\ c.count = o.count /\ c.dir = "in"
          /\ c.len = FullPacket * o.buf
        BY <2>1 DEF Tagged, Read16
    <2> HIDE DEF c
    <2>3. Serves(o, c)
        BY <1>2, <2>2
    <2> QED BY <1>4, <2>3 DEF c
<1> QED BY <1>3, <1>4

\* And both forms of write.
LEMMA WriteServes ==
    ASSUME NEW o \in Requests, o.kind = "write", ~Overflows(o), NEW t, NEW p,
           p = [kind |-> o.kind, offset |-> o.offset, count |-> o.count,
                buf |-> o.buf, data |-> Fresh(o)]
    PROVE  Serves(p, Tagged(IF Short10(o) THEN Write10(o.offset, o.count, Fresh(o))
                                          ELSE Write16(o.offset, o.count, Fresh(o)), t))
<1>1. /\ o.offset \in Nat /\ o.count \in Nat /\ o.buf \in Nat
      /\ o.offset <= U64Max /\ o.count <= U32Max
      /\ U16Max \in Nat /\ U32Max \in Nat /\ U64Max \in Nat
    BY RequestAssumption, WidthAssumption
<1>2. Len(Fresh(o)) = o.buf
    <2> DEFINE S == {<<U64Max + 1, i>> : i \in 1..o.buf}
    <2>1. Fresh(o) \in [1..o.buf -> S]
        BY DEF Fresh
    <2> HIDE DEF S
    <2> QED BY <1>1, <2>1, FcnIsSeq
<1>3. /\ p.kind = "write" /\ p.offset = o.offset /\ p.count = o.count
      /\ p.buf = o.buf /\ p.data = Fresh(o)
    OBVIOUS
<1>4. ASSUME NEW c, c.op \in {"write10", "write16"}, c.lba = o.offset,
             c.count = o.count, c.dir = "out", c.data = Fresh(o),
             {"op", "dir", "lba", "count", "tag", "data"} \subseteq DOMAIN c
      PROVE  Serves(p, c)
    <2>1. Writes(c)
        BY <1>1, <1>2, <1>4 DEF Writes
    <2>2. c.op # "request_sense"
        BY <1>4
    <2> QED BY <1>2, <1>3, <1>4, <2>1, <2>2 DEF Serves
<1>5. CASE Short10(o)
    <2>1. o.offset <= U32Max /\ o.count <= U16Max
        BY <1>1, <1>5 DEF Short10
    <2>2. o.offset % (U32Max + 1) = o.offset /\ o.count % (U16Max + 1) = o.count
        BY <1>1, <2>1, Fits
    <2> DEFINE c == Tagged(Write10(o.offset, o.count, Fresh(o)), t)
    <2>3. c.op = "write10" /\ c.lba = o.offset /\ c.count = o.count /\ c.dir = "out"
          /\ c.data = Fresh(o)
        BY <2>2 DEF Tagged, Write10
    <2>4. {"op", "dir", "lba", "count", "tag", "data"} \subseteq DOMAIN c
        BY DEF Tagged, Write10
    <2> HIDE DEF c
    <2>5. Serves(p, c)
        BY <1>4, <2>3, <2>4
    <2> QED BY <1>5, <2>5 DEF c
<1>6. CASE ~Short10(o)
    <2>1. o.offset % (U64Max + 1) = o.offset /\ o.count % (U32Max + 1) = o.count
        BY <1>1, Fits
    <2> DEFINE c == Tagged(Write16(o.offset, o.count, Fresh(o)), t)
    <2>2. c.op = "write16" /\ c.lba = o.offset /\ c.count = o.count /\ c.dir = "out"
          /\ c.data = Fresh(o)
        BY <2>1 DEF Tagged, Write16
    <2>3. {"op", "dir", "lba", "count", "tag", "data"} \subseteq DOMAIN c
        BY DEF Tagged, Write16
    <2> HIDE DEF c
    <2>4. Serves(p, c)
        BY <1>4, <2>2, <2>3
    <2> QED BY <1>6, <2>4 DEF c
<1> QED BY <1>5, <1>6

-----------------------------------------------------------------------------
(* The tables of try_upgrade_error.                                        *)

\* A table of m rows: n numbers that no other row has, and an error.
IsTable(table, n, m) ==
    /\ DOMAIN table = 1..m /\ Len(table) = m
    /\ \A i \in 1..m : /\ IsSeq(table[i]) /\ Len(table[i]) = n + 1
                       /\ table[i][n + 1] \notin {"none", "Ok"}
    /\ \A i, j \in 1..m : (\A k \in 1..n : table[i][k] = table[j][k]) => i = j

Explains(row, s) == SubSeq(row, 1, Len(row) - 1) = SubSeq(s, 1, Len(row) - 1)

\* Sequences start alike if their members do.
LEMMA SamePrefix ==
    ASSUME NEW f, IsSeq(f), Len(f) \in Nat, NEW g, IsSeq(g), Len(g) \in Nat,
           NEW n \in Nat, n <= Len(f), n <= Len(g)
    PROVE  SubSeq(f, 1, n) = SubSeq(g, 1, n) <=> \A k \in 1..n : f[k] = g[k]
<1>1. SubSeq(f, 1, n) = [k \in 1..n |-> f[k]]
    BY DEF IsSeq
<1>2. SubSeq(g, 1, n) = [k \in 1..n |-> g[k]]
    BY DEF IsSeq
<1>3. ASSUME [k \in 1..n |-> f[k]] = [k \in 1..n |-> g[k]], NEW k \in 1..n
      PROVE  f[k] = g[k]
    <2>1. [i \in 1..n |-> f[i]][k] = f[k] /\ [i \in 1..n |-> g[i]][k] = g[k]
        OBVIOUS
    <2> QED BY <1>3, <2>1
<1>4. ASSUME \A k \in 1..n : f[k] = g[k]
      PROVE  [k \in 1..n |-> f[k]] = [k \in 1..n |-> g[k]]
    BY <1>4
<1> QED BY <1>1, <1>2, <1>3, <1>4

\* A triple of numbers is a sequence.
LEMMA SenseIsSeq ==
    ASSUME NEW s \in Senses
    PROVE  IsSeq(s) /\ Len(s) = 3
<1>1. s \in [1..3 -> Nat]
    BY DEF Senses
<1> QED BY <1>1, FcnIsSeq

\* Every row of key, additional code and qualifier ends in a proper error.
LEMMA Table3 == IsTable(ERRORS3, 3, 21)
<1>1. DOMAIN ERRORS3 = 1..21 /\ Len(ERRORS3) = 21
    BY DEF ERRORS3
<1>2. ASSUME NEW i \in 1..21
      PROVE  /\ IsSeq(ERRORS3[i]) /\ Len(ERRORS3[i]) = 3 + 1
             /\ ERRORS3[i][3 + 1] \notin {"none", "Ok"}
    <2>1. ERRORS3[i] = <<ERRORS3[i][1], ERRORS3[i][2], ERRORS3[i][3], ERRORS3[i][4]>>
        BY DEF ERRORS3
    <2>2. \A a, b, c, d : IsSeq(<<a, b, c, d>>) /\ Len(<<a, b, c, d>>) = 4
        <3> TAKE a, b, c, d
        <3>1. <<a, b, c, d>> \in [1..4 -> {a, b, c, d}]
            OBVIOUS
        <3>2. 4 \in Nat
            OBVIOUS
        <3> QED BY ONLY <3>1, <3>2, FcnIsSeq
    <2>3. IsSeq(ERRORS3[i]) /\ Len(ERRORS3[i]) = 4
        BY <2>1, <2>2, Zenon
    <2>4. ERRORS3[i][4] \notin {"none", "Ok"}
        BY DEF ERRORS3
    <2> QED BY <2>3, <2>4
<1>3. \A i, j \in 1..21 :
         /\ ERRORS3[i][1] = ERRORS3[j][1] /\ ERRORS3[i][2] = ERRORS3[j][2]
         /\ ERRORS3[i][3] = ERRORS3[j][3]
         => i = j
    BY DEF ERRORS3
<1>4. \A i, j \in 1..21 : (\A k \in 1..3 : ERRORS3[i][k] = ERRORS3[j][k]) => i = j
    <2>1. 1 \in 1..3 /\ 2 \in 1..3 /\ 3 \in 1..3
        OBVIOUS
    <2> QED BY <1>3, <2>1, Zenon
<1> QED BY <1>1, <1>2, <1>4 DEF IsTable

\* The rows of sense key and additional code end in a proper error too.
LEMMA Table2 == IsTable(ERRORS2, 2, 7)
<1>1. DOMAIN ERRORS2 = 1..7 /\ Len(ERRORS2) = 7
    BY DEF ERRORS2
<1>2. ASSUME NEW i \in 1..7
      PROVE  /\ IsSeq(ERRORS2[i]) /\ Len(ERRORS2[i]) = 2 + 1
             /\ ERRORS2[i][2 + 1] \notin {"none", "Ok"}
    <2>1. ERRORS2[i] = <<ERRORS2[i][1], ERRORS2[i][2], ERRORS2[i][3]>>
        BY DEF ERRORS2
    <2>2. IsSeq(ERRORS2[i]) /\ Len(ERRORS2[i]) = 3
        <3>1. \A a, b, c : IsSeq(<<a, b, c>>) /\ Len(<<a, b, c>>) = 3
            BY TripleIsSeq
        <3> QED BY <2>1, <3>1, Zenon
    <2>3. ERRORS2[i][3] \notin {"none", "Ok"}
        BY DEF ERRORS2
    <2> QED BY <2>2, <2>3
<1>3. \A i, j \in 1..7 :
         ERRORS2[i][1] = ERRORS2[j][1] /\ ERRORS2[i][2] = ERRORS2[j][2] => i = j
    BY DEF ERRORS2
<1>4. \A i, j \in 1..7 : (\A k \in 1..2 : ERRORS2[i][k] = ERRORS2[j][k]) => i = j
    BY <1>3
<1> QED BY <1>1, <1>2, <1>4 DEF IsTable

\* And so do those of the sense key alone.
LEMMA Table1 == IsTable(ERRORS1, 1, 12)
<1>1. DOMAIN ERRORS1 = 1..12 /\ Len(ERRORS1) = 12
    BY DEF ERRORS1
<1>2. ASSUME NEW i \in 1..12
      PROVE  /\ IsSeq(ERRORS1[i]) /\ Len(ERRORS1[i]) = 1 + 1
             /\ ERRORS1[i][1 + 1] \notin {"none", "Ok"}
    <2>1. ERRORS1[i] = <<ERRORS1[i][1], ERRORS1[i][2]>>
        BY DEF ERRORS1
    <2>2. IsSeq(ERRORS1[i]) /\ Len(ERRORS1[i]) = 2
        BY <2>1, PairIsSeq, Zenon
    <2>3. ERRORS1[i][2] \notin {"none", "Ok"}
        BY DEF ERRORS1
    <2> QED BY <2>2, <2>3
<1>3. \A i, j \in 1..12 : ERRORS1[i][1] = ERRORS1[j][1] => i = j
    BY DEF ERRORS1
<1>4. \A i, j \in 1..12 : (\A k \in 1..1 : ERRORS1[i][k] = ERRORS1[j][k]) => i = j
    BY <1>3
<1> QED BY <1>1, <1>2, <1>4 DEF IsTable

\* Lookup finds the one row that explains the sense data, if there is one.
LEMMA LookupFinds ==
    ASSUME NEW s \in Senses, NEW n \in 1..3, NEW m \in Nat, m >= 1,
           NEW table, IsTable(table, n, m)
    PROVE  \/ /\ Lookup(table, s) = "none"
              /\ \A i \in 1..m : ~Explains(table[i], s)
           \/ \E i \in 1..m :
                 /\ Explains(table[i], s)
                 /\ \A j \in 1..m : Explains(table[j], s) => j = i
                 /\ Lookup(table, s) = table[i][n + 1]
                 /\ Lookup(table, s) \notin {"none", "Ok"}
<1> DEFINE rows == {i \in 1..m : SubSeq(table[i], 1, n) = SubSeq(s, 1, n)}
<1>1. /\ Len(table) = m
      /\ \A i \in 1..m : /\ IsSeq(table[i]) /\ Len(table[i]) = n + 1
                         /\ table[i][n + 1] \notin {"none", "Ok"}
      /\ \A i, j \in 1..m : (\A k \in 1..n : table[i][k] = table[j][k]) => i = j
    BY DEF IsTable
<1>2. \A i \in 1..m : Explains(table[i], s) <=> i \in rows
    <2>1. \A i \in 1..m : Len(table[i]) - 1 = n
        BY <1>1
    <2> QED BY <2>1 DEF Explains
<1>3. ASSUME NEW i \in rows PROVE \A k \in 1..n : table[i][k] = s[k]
    <2>1. IsSeq(table[i]) /\ Len(table[i]) = n + 1 /\ IsSeq(s) /\ Len(s) = 3
        BY <1>1, SenseIsSeq
    <2>2. Len(table[i]) \in Nat /\ n \in Nat /\ n <= Len(table[i]) /\ n <= Len(s)
        BY <2>1
    <2>3. SubSeq(table[i], 1, n) = SubSeq(s, 1, n)
        OBVIOUS
    <2> QED BY <2>1, <2>2, <2>3, SamePrefix
<1>4. \A i, j \in rows : i = j
    <2>1. \A i, j \in rows : \A k \in 1..n : table[i][k] = table[j][k]
        BY <1>3
    <2> QED BY <1>1, <2>1
<1>5. Lookup(table, s) = IF rows = {} THEN "none" ELSE table[Min(rows)][n + 1]
    <2>1. Len(table[1]) - 1 = n
        BY <1>1
    <2> QED BY <1>1, <2>1 DEF Lookup
<1>6. CASE rows = {}
    BY <1>2, <1>5, <1>6
<1>7. CASE rows # {}
    <2>1. PICK i \in rows : TRUE
        BY <1>7
    <2>2. rows \in SUBSET Int /\ \A y \in rows : i <= y
        BY <1>4
    <2>3. i \in 1..m
        OBVIOUS
    <2> HIDE DEF rows
    <2>4. Min(rows) = i
        BY <2>1, <2>2, MinIs
    <2>5. Lookup(table, s) = table[i][n + 1]
        BY <1>5, <1>7, <2>4
    <2> QED BY <1>1, <1>2, <1>4, <2>1, <2>3, <2>5
<1> QED BY <1>6, <1>7

\* The longest of a set of sequences.
LEMMA LongestIs ==
    ASSUME NEW S, NEW r \in S,
           \A q \in S : Len(q) \in Nat /\ Len(q) <= Len(r) /\ (Len(q) = Len(r) => q = r)
    PROVE  (CHOOSE p \in S : \A q \in S : Len(q) <= Len(p)) = r
<1>1. \A q \in S : Len(q) <= Len(r)
    OBVIOUS
<1>2. ASSUME NEW p \in S, \A q \in S : Len(q) <= Len(p)
      PROVE  p = r
    <2>1. Len(r) <= Len(p) /\ Len(p) <= Len(r) /\ Len(p) \in Nat /\ Len(r) \in Nat
        BY <1>2
    <2>2. Len(p) = Len(r)
        BY <2>1
    <2> QED BY <2>2
<1> QED BY <1>1, <1>2

\* Searching the tables one after the other finds the best explanation.
LEMMA UpgradedIsBest ==
    ASSUME NEW s \in Senses
    PROVE  Upgraded(s) = BestExplanation(s) /\ Upgraded(s) # "Ok"
<1> DEFINE S == Explanations(s)
<1>1. /\ \A q \in S : \/ \E j \in 1..21 : q = ERRORS3[j] /\ Explains(ERRORS3[j], s)
                      \/ \E j \in 1..7 : q = ERRORS2[j] /\ Explains(ERRORS2[j], s)
                      \/ \E j \in 1..12 : q = ERRORS1[j] /\ Explains(ERRORS1[j], s)
      /\ \A j \in 1..21 : Explains(ERRORS3[j], s) => ERRORS3[j] \in S
      /\ \A j \in 1..7 : Explains(ERRORS2[j], s) => ERRORS2[j] \in S
      /\ \A j \in 1..12 : Explains(ERRORS1[j], s) => ERRORS1[j] \in S
    <2>1. DOMAIN ERRORS3 = 1..21 /\ DOMAIN ERRORS2 = 1..7 /\ DOMAIN ERRORS1 = 1..12
        BY Table3, Table2, Table1 DEF IsTable
    <2> QED BY <2>1, Zenon DEF Explanations, Explains, Range
<1>2. /\ \A j \in 1..21 : Len(ERRORS3[j]) = 4
      /\ \A j \in 1..7 : Len(ERRORS2[j]) = 3
      /\ \A j \in 1..12 : Len(ERRORS1[j]) = 2
    <2>1. \A j \in 1..21 : Len(ERRORS3[j]) = 3 + 1
        BY Table3, Zenon DEF IsTable
    <2>2. \A j \in 1..7 : Len(ERRORS2[j]) = 2 + 1
        BY Table2, Zenon DEF IsTable
    <2>3. \A j \in 1..12 : Len(ERRORS1[j]) = 1 + 1
        BY Table1, Zenon DEF IsTable
    <2> QED BY <2>1, <2>2, <2>3
<1>3. \/ /\ Lookup(ERRORS3, s) = "none"
         /\ \A i \in 1..21 : ~Explains(ERRORS3[i], s)
      \/ \E i \in 1..21 :
            /\ Explains(ERRORS3[i], s)
            /\ \A j \in 1..21 : Explains(ERRORS3[j], s) => j = i
            /\ Lookup(ERRORS3, s) = ERRORS3[i][3 + 1]
            /\ Lookup(ERRORS3, s) \notin {"none", "Ok"}
    <2>1. 3 \in 1..3 /\ 21 \in Nat /\ 21 >= 1
        OBVIOUS
    <2> QED BY ONLY <2>1, Table3, LookupFinds, s \in Senses
<1>4. \/ /\ Lookup(ERRORS2, s) = "none"
         /\ \A i \in 1..7 : ~Explains(ERRORS2[i], s)
      \/ \E i \in 1..7 :
            /\ Explains(ERRORS2[i], s)
            /\ \A j \in 1..7 : Explains(ERRORS2[j], s) => j = i
            /\ Lookup(ERRORS2, s) = ERRORS2[i][2 + 1]
            /\ Lookup(ERRORS2, s) \notin {"none", "Ok"}
    <2>1. 2 \in 1..3 /\ 7 \in Nat /\ 7 >= 1
        OBVIOUS
    <2> QED BY ONLY <2>1, Table2, LookupFinds, s \in Senses
<1>5. \/ /\ Lookup(ERRORS1, s) = "none"
         /\ \A i \in 1..12 : ~Explains(ERRORS1[i], s)
      \/ \E i \in 1..12 :
            /\ Explains(ERRORS1[i], s)
            /\ \A j \in 1..12 : Explains(ERRORS1[j], s) => j = i
            /\ Lookup(ERRORS1, s) = ERRORS1[i][1 + 1]
            /\ Lookup(ERRORS1, s) \notin {"none", "Ok"}
    <2>1. 1 \in 1..3 /\ 12 \in Nat /\ 12 >= 1
        OBVIOUS
    <2> QED BY ONLY <2>1, Table1, LookupFinds, s \in Senses
<1> HIDE DEF S
<1>6. CASE Lookup(ERRORS3, s) # "none"
    <2>1. PICK i \in 1..21 :
              /\ Explains(ERRORS3[i], s)
              /\ \A j \in 1..21 : Explains(ERRORS3[j], s) => j = i
              /\ Lookup(ERRORS3, s) = ERRORS3[i][4]
              /\ Lookup(ERRORS3, s) \notin {"none", "Ok"}
        BY <1>3, <1>6
    <2> DEFINE r == ERRORS3[i]
    <2>2. r \in S /\ Len(r) = 4
        BY <1>1, <1>2, <2>1
    <2>3. ASSUME NEW q \in S
          PROVE  Len(q) \in Nat /\ Len(q) <= Len(r) /\ (Len(q) = Len(r) => q = r)
        <3>1. CASE \E j \in 1..21 : q = ERRORS3[j] /\ Explains(ERRORS3[j], s)
            <4>1. q = r
                BY <2>1, <3>1
            <4>2. Len(q) = 4 /\ Len(r) = 4
                BY <2>2, <4>1
            <4> QED BY <4>1, <4>2
        <3>2. CASE \E j \in 1..7 : q = ERRORS2[j] /\ Explains(ERRORS2[j], s)
            <4>1. Len(q) = 3
                BY <1>2, <3>2
            <4> HIDE DEF r
            <4> QED BY <2>2, <4>1
        <3>3. CASE \E j \in 1..12 : q = ERRORS1[j] /\ Explains(ERRORS1[j], s)
            <4>1. Len(q) = 2
                BY <1>2, <3>3
            <4> HIDE DEF r
            <4> QED BY <2>2, <4>1
        <3> QED BY <1>1, <3>1, <3>2, <3>3
    <2> HIDE DEF r
    <2>4. BestExplanation(s) = r[4]
        <3>1. (CHOOSE p \in S : \A q \in S : Len(q) <= Len(p)) = r
            BY ONLY <2>2, <2>3, LongestIs
        <3> QED BY <2>2, <3>1 DEF BestExplanation, S
    <2>5. Upgraded(s) = Lookup(ERRORS3, s)
        BY <1>6 DEF Upgraded
    <2> QED BY <2>1, <2>4, <2>5 DEF r
<1>7. CASE Lookup(ERRORS3, s) = "none" /\ Lookup(ERRORS2, s) # "none"
    <2>1. PICK i \in 1..7 :
              /\ Explains(ERRORS2[i], s)
              /\ \A j \in 1..7 : Explains(ERRORS2[j], s) => j = i
              /\ Lookup(ERRORS2, s) = ERRORS2[i][3]
              /\ Lookup(ERRORS2, s) \notin {"none", "Ok"}
        BY <1>4, <1>7
    <2>2. \A j \in 1..21 : ~Explains(ERRORS3[j], s)
        BY <1>3, <1>7
    <2> DEFINE r == ERRORS2[i]
    <2>3. r \in S /\ Len(r) = 3
        BY <1>1, <1>2, <2>1
    <2>4. ASSUME NEW q \in S
          PROVE  Len(q) \in Nat /\ Len(q) <= Len(r) /\ (Len(q) = Len(r) => q = r)
        <3>1. CASE \E j \in 1..21 : q = ERRORS3[j] /\ Explains(ERRORS3[j], s)
            BY <2>2, <3>1
        <3>2. CASE \E j \in 1..7 : q = ERRORS2[j] /\ Explains(ERRORS2[j], s)
            <4>1. q = r
                BY <2>1, <3>2
            <4> HIDE DEF r
            <4> QED BY <2>3, <4>1
        <3>3. CASE \E j \in 1..12 : q = ERRORS1[j] /\ Explains(ERRORS1[j], s)
            <4>1. Len(q) = 2
                BY <1>2, <3>3
            <4> HIDE DEF r
            <4> QED BY <2>3, <4>1
        <3> QED BY <1>1, <3>1, <3>2, <3>3
    <2> HIDE DEF r
    <2>5. BestExplanation(s) = r[3]
        <3>1. (CHOOSE p \in S : \A q \in S : Len(q) <= Len(p)) = r
            BY ONLY <2>3, <2>4, LongestIs
        <3> QED BY <2>3, <3>1 DEF BestExplanation, S
    <2>6. Upgraded(s) = Lookup(ERRORS2, s)
        BY <1>7 DEF Upgraded
    <2> QED BY <2>1, <2>5, <2>6 DEF r
<1>8. CASE /\ Lookup(ERRORS3, s) = "none" /\ Lookup(ERRORS2, s) = "none"
           /\ Lookup(ERRORS1, s) # "none"
    <2>1. PICK i \in 1..12 :
              /\ Explains(ERRORS1[i], s)
              /\ \A j \in 1..12 : Explains(ERRORS1[j], s) => j = i
              /\ Lookup(ERRORS1, s) = ERRORS1[i][2]
              /\ Lookup(ERRORS1, s) \notin {"none", "Ok"}
        BY <1>5, <1>8
    <2>2. /\ \A j \in 1..21 : ~Explains(ERRORS3[j], s)
          /\ \A j \in 1..7 : ~Explains(ERRORS2[j], s)
        BY <1>3, <1>4, <1>8
    <2> DEFINE r == ERRORS1[i]
    <2>3. r \in S /\ Len(r) = 2
        BY <1>1, <1>2, <2>1
    <2>4. ASSUME NEW q \in S
          PROVE  Len(q) \in Nat /\ Len(q) <= Len(r) /\ (Len(q) = Len(r) => q = r)
        <3>1. CASE \E j \in 1..21 : q = ERRORS3[j] /\ Explains(ERRORS3[j], s)
            BY <2>2, <3>1
        <3>2. CASE \E j \in 1..7 : q = ERRORS2[j] /\ Explains(ERRORS2[j], s)
            BY <2>2, <3>2
        <3>3. CASE \E j \in 1..12 : q = ERRORS1[j] /\ Explains(ERRORS1[j], s)
            <4>1. q = r
                BY <2>1, <3>3
            <4> HIDE DEF r
            <4> QED BY <2>3, <4>1
        <3> QED BY <1>1, <3>1, <3>2, <3>3
    <2> HIDE DEF r
    <2>5. BestExplanation(s) = r[2]
        <3>1. (CHOOSE p \in S : \A q \in S : Len(q) <= Len(p)) = r
            BY ONLY <2>3, <2>4, LongestIs
        <3> QED BY <2>3, <3>1 DEF BestExplanation, S
    <2>6. Upgraded(s) = Lookup(ERRORS1, s)
        BY <1>8 DEF Upgraded
    <2> QED BY <2>1, <2>5, <2>6 DEF r
<1>9. CASE /\ Lookup(ERRORS3, s) = "none" /\ Lookup(ERRORS2, s) = "none"
           /\ Lookup(ERRORS1, s) = "none"
    <2>1. S = {}
        BY <1>1, <1>3, <1>4, <1>5, <1>9
    <2>2. BestExplanation(s) = "CommandFailed"
        BY <2>1 DEF BestExplanation, S
    <2>3. Upgraded(s) = "CommandFailed"
        BY <1>9 DEF Upgraded
    <2> QED BY <2>2, <2>3
<1> QED BY <1>6, <1>7, <1>8, <1>9

-----------------------------------------------------------------------------
(* ScsiDevice.                                                             *)

\* The transport's result reaches the caller.
LEMMA ReturnsStep ==
    ASSUME Inv, CommandReturns, UNCHANGED appVars
    PROVE  Inv'
<1>1. /\ pc = "done" /\ ~upgrading /\ rc # "CommandFailed" /\ pc' = "idle"
      /\ outcome' = [rc |-> IF rc = "Ok" /\ cmd.op \in WholeReply /\ response < cmd.len
                            THEN "ProtocolError" ELSE rc,
                     n |-> response, data |-> data]
      /\ UNCHANGED <<deviceVars, cmd, tag, response, data, rc, toggle, faults,
                     broken, upgrading, why>>
    BY DEF CommandReturns, Delivers
<1>2. op # NoOperation
    BY <1>1 DEF Inv, UseOK
<1>3. UseOK'
    BY <1>1, <1>2 DEF Inv, UseOK, deviceVars, appVars
<1>4. ASSUME Live' PROVE PhaseOK' /\ sense' \in Senses /\ ReturnedOK'
    <2>1. Live
        BY <1>1, <1>4 DEF Live, appVars
    <2>2. Quiet /\ sense \in Senses /\ ServingOK
        BY <1>1, <2>1 DEF Inv, LinkOK, PhaseOK
    <2>3. PhaseOK' /\ sense' \in Senses
        BY <1>1, <2>2 DEF PhaseOK, Quiet, deviceVars
    <2>4. rc \in {"Ok", "ProtocolError"}
        BY <1>1, <2>2 DEF ServingOK
    <2>5. outcome'.n = response /\ outcome'.data = data
        BY <1>1
    <2>6. CASE rc = "ProtocolError"
        <3>1. outcome'.rc = "ProtocolError"
            BY <1>1, <2>6
        <3> QED BY <2>3, <3>1 DEF ReturnedOK
    <2>7. CASE rc = "Ok" /\ cmd.op \in WholeReply /\ response < cmd.len
        <3>1. outcome'.rc = "ProtocolError"
            BY <1>1, <2>7
        <3> QED BY <2>3, <3>1 DEF ReturnedOK
    <2>8. CASE rc = "Ok" /\ ~(cmd.op \in WholeReply /\ response < cmd.len)
        <3>1. outcome'.rc = "Ok"
            BY <1>1, <2>8
        <3>2. Yields(op, response, cmd.len, data, store, unit.last)
            BY <1>1, <2>2, <2>8 DEF ServingOK
        <3>3. op.kind = "info" => ~(response < cmd.len)
            BY <2>2, <2>8 DEF ServingOK, Serves, WholeReply
        <3>4. /\ op' = op /\ cmd' = cmd /\ store' = store /\ unit' = unit
            BY <1>1 DEF deviceVars, appVars
        <3>5. Yields(op', outcome'.n, cmd'.len, outcome'.data, store', unit'.last)
            BY <2>5, <3>2, <3>4, Zenon
        <3> QED BY <2>3, <2>5, <3>1, <3>3, <3>4, <3>5 DEF ReturnedOK
    <2> QED BY <2>4, <2>6, <2>7, <2>8
<1> QED BY <1>1, <1>3, <1>4 DEF Inv, LinkOK

\* The device is asked why.
LEMMA UpgradeStep ==
    ASSUME Inv, try_upgrade_error, UNCHANGED appVars
    PROVE  Inv'
<1>1. /\ pc = "done" /\ ~upgrading /\ upgrading' = TRUE /\ why' = sense /\ pc' = "cbw"
      /\ cmd' = Tagged(RequestSense, tag')
      /\ UNCHANGED <<deviceVars, toggle, faults, broken, outcome>>
    BY DEF try_upgrade_error, Command
<1>2. op # NoOperation
    BY <1>1 DEF Inv, UseOK
<1>3. UseOK'
    BY <1>1, <1>2 DEF Inv, UseOK, deviceVars, appVars
<1>4. ASSUME Live' PROVE PhaseOK' /\ sense' \in Senses /\ ExplainingOK'
    <2>1. Live
        BY <1>1, <1>4 DEF Live, appVars
    <2>2. Quiet /\ sense \in Senses
        BY <1>1, <2>1 DEF Inv, LinkOK, PhaseOK
    <2>3. PhaseOK' /\ sense' \in Senses
        BY <1>1, <2>2 DEF PhaseOK, Quiet, deviceVars
    <2>4. cmd'.op = "request_sense" /\ cmd'.dir = "in" /\ cmd'.len = 18
        BY <1>1 DEF Tagged, RequestSense
    <2> QED BY <1>1, <2>3, <2>4 DEF ExplainingOK, deviceVars
<1> QED BY <1>1, <1>3, <1>4 DEF Inv, LinkOK

\* It has said why.
LEMMA SenseStep ==
    ASSUME Inv, request_sense_returns, UNCHANGED appVars
    PROVE  Inv'
<1>1. /\ pc = "done" /\ upgrading /\ upgrading' = FALSE /\ pc' = "idle"
      /\ outcome' = [rc |-> IF rc = "Ok" /\ response = 18 THEN Upgraded(data[1])
                                                          ELSE "CommandFailed",
                     n |-> response, data |-> data]
      /\ UNCHANGED <<deviceVars, cmd, tag, response, data, rc, toggle, faults,
                     broken, why>>
    BY DEF request_sense_returns, Delivers
<1>2. op # NoOperation
    BY <1>1 DEF Inv, UseOK
<1>3. UseOK'
    BY <1>1, <1>2 DEF Inv, UseOK, deviceVars, appVars
<1>4. ASSUME Live' PROVE PhaseOK' /\ sense' \in Senses /\ ReturnedOK'
    <2>1. Live
        BY <1>1, <1>4 DEF Live, appVars
    <2>2. Quiet /\ sense \in Senses /\ ExplainingOK
        BY <1>1, <2>1 DEF Inv, LinkOK, PhaseOK
    <2>3. PhaseOK' /\ sense' \in Senses
        BY <1>1, <2>2 DEF PhaseOK, Quiet, deviceVars
    <2>4. rc = "Ok" /\ response = 18 /\ data = <<sense>> /\ why = sense
        BY <1>1, <2>2 DEF ExplainingOK
    <2>5. data[1] = why
        BY <2>4
    <2>6. outcome'.rc = Upgraded(why) /\ why' = why
        BY <1>1, <2>4, <2>5, Zenon
    <2>7. why \in Senses /\ Upgraded(why) # "Ok"
        BY <2>2, <2>4, UpgradedIsBest
    <2> QED BY <2>3, <2>6, <2>7 DEF ReturnedOK
<1> QED BY <1>1, <1>3, <1>4 DEF Inv, LinkOK

-----------------------------------------------------------------------------
(* The application.                                                        *)

\* The record of no operation differs from that of any other.
LEMMA SomeOperation ==
    ASSUME NEW o, o.kind # "none"
    PROVE  o # NoOperation
<1>1. NoOperation.kind = "none"
    BY DEF NoOperation, Store!NoOperation
<1> QED BY <1>1

\* At first.
LEMMA InitInv == Init => Inv
<1> SUFFICES ASSUME Init PROVE Inv
    OBVIOUS
<1>1. UseOK
    <2>1. unit \in Units /\ store = [b \in 0..unit.last |-> <<b, 0>>]
        BY DEF Init
    <2> DEFINE S == {<<b, 0>> : b \in 0..unit.last}
    <2>2. store \in [0..unit.last -> S]
        BY <2>1
    <2> HIDE DEF S
    <2>3. store \in [0..unit.last -> Range(store)]
        BY <2>2, OntoRange
    <2> QED BY <2>1, <2>3 DEF Init, UseOK
<1>2. ~Live
    BY DEF Init, Live
<1> QED BY <1>1, <1>2 DEF Inv, LinkOK

\* MassStorage::new finds a device that waits for its first command.
LEMMA AttachStep ==
    ASSUME Inv, Attach
    PROVE  Inv'
<1>1. /\ stage = "connect" /\ plugged
      /\ UNCHANGED <<deviceVars, pc, cmd, response, data, rc, scsiVars, op, answer>>
    BY DEF Attach
<1>2. /\ op = NoOperation /\ pc = "idle" /\ ~upgrading
      /\ inFifo = <<>> /\ taking = NoWrite /\ sense = NoSense
      /\ devToggle = [in |-> 0, out |-> 0]
    BY <1>1 DEF Inv, UseOK
<1>3. UseOK'
    BY <1>1, <1>2 DEF Inv, UseOK, deviceVars, scsiVars, Attach
<1>4. CASE stage' = "ignored"
    BY <1>3, <1>4 DEF Inv, LinkOK, Live
<1>5. CASE NewMassStorage
    <2>1. toggle' = [in |-> 0, out |-> 0]
        BY <1>5 DEF NewMassStorage
    <2>2. Quiet'
        BY <1>1, <1>2, <2>1 DEF Quiet, deviceVars
    <2>3. pc' = "idle" /\ op' = NoOperation /\ sense' = NoSense
        BY <1>1, <1>2 DEF deviceVars
    <2>4. PhaseOK'
        BY <2>2, <2>3 DEF PhaseOK
    <2>5. sense' \in Senses
        BY <2>3 DEF NoSense, Senses
    <2> QED BY <1>3, <2>3, <2>4, <2>5 DEF Inv, LinkOK
<1> QED BY <1>4, <1>5 DEF Attach

\* LinkOK is about the two ends of the link and the operation under way.
linkVars == <<unit, store, inFifo, outHalted, taking, sense, devToggle, pc, cmd,
              response, data, rc, toggle, broken, upgrading, outcome, why, stage, op>>

\* What leaves those alone keeps it.
LEMMA SameLink ==
    ASSUME LinkOK, UNCHANGED linkVars
    PROVE  LinkOK'
<1>1. /\ unit' = unit /\ store' = store /\ inFifo' = inFifo /\ outHalted' = outHalted
      /\ taking' = taking /\ sense' = sense /\ devToggle' = devToggle
      /\ pc' = pc /\ cmd' = cmd /\ response' = response /\ data' = data /\ rc' = rc
      /\ toggle' = toggle /\ broken' = broken /\ upgrading' = upgrading
      /\ outcome' = outcome /\ why' = why /\ stage' = stage /\ op' = op
    BY DEF linkVars
<1>2. Live' = Live
    BY <1>1 DEF Live
<1>3. PhaseOK' = PhaseOK
    BY <1>1, Zenon DEF PhaseOK, Quiet, AwaitsData, Refused
<1>4. ServingOK' = ServingOK
    BY <1>1, Zenon DEF ServingOK, Bodies
<1>5. ExplainingOK' = ExplainingOK
    BY <1>1, Zenon DEF ExplainingOK
<1>6. ReturnedOK' = ReturnedOK
    BY <1>1, Zenon DEF ReturnedOK
<1> QED BY <1>1, <1>2, <1>3, <1>4, <1>5, <1>6 DEF LinkOK

\* Pulling the device out changes neither what it is nor what it has done.
LEMMA UnplugStep ==
    ASSUME Inv, Unplug
    PROVE  Inv'
<1>1. /\ plugged' = FALSE
      /\ UNCHANGED <<unit, store, inFifo, outHalted, taking, sense, devToggle,
                     transportVars, scsiVars, appVars>>
    BY DEF Unplug
<1>2. UseOK'
    BY <1>1 DEF Inv, UseOK, transportVars, scsiVars, appVars
<1>3. LinkOK'
    BY <1>1, SameLink DEF Inv, linkVars, transportVars, scsiVars, appVars
<1> QED BY <1>2, <1>3 DEF Inv

\* Put back, it has been reset and waits to be attached.
LEMMA ReplugStep ==
    ASSUME Inv, Replug
    PROVE  Inv'
<1>1. UseOK'
    BY DEF Inv, UseOK, Replug, transportVars, scsiVars
<1>2. ~Live'
    BY DEF Replug, Live
<1> QED BY <1>1, <1>2 DEF Inv, LinkOK

\* The questions the application asks of a device before it mounts it.
LEMMA AskStep ==
    ASSUME Inv, inquiry \/ test_unit_ready \/ device_info
    PROVE  Inv'
<1>1. CASE inquiry
    <2> DEFINE o == [kind |-> "inquiry"]
    <2>1. o.kind = "inquiry"
        OBVIOUS
    <2>2. Start(o, Inquiry) /\ pc = "idle" /\ stage = "inquiry"
        BY <1>1 DEF inquiry, Free
    <2> HIDE DEF o
    <2>3. \A t : Serves(o, Tagged(Inquiry, t))
        BY <2>1, AskServes
    <2>4. o # NoOperation
        BY <2>1, SomeOperation
    <2> QED BY <2>2, <2>3, <2>4, StartStep
<1>2. CASE test_unit_ready
    <2> DEFINE o == [kind |-> "ready"]
    <2>1. o.kind = "ready"
        OBVIOUS
    <2>2. Start(o, TestUnitReady) /\ pc = "idle" /\ stage = "ready"
        BY <1>2 DEF test_unit_ready, Free
    <2> HIDE DEF o
    <2>3. \A t : Serves(o, Tagged(TestUnitReady, t))
        BY <2>1, AskServes
    <2>4. o # NoOperation
        BY <2>1, SomeOperation
    <2> QED BY <2>2, <2>3, <2>4, StartStep
<1>3. CASE device_info
    <2> DEFINE o == [kind |-> "info"]
    <2>1. o.kind = "info"
        OBVIOUS
    <2>2. Start(o, ReadCapacity10) /\ pc = "idle" /\ stage = "info"
        BY <1>3 DEF device_info, Free
    <2> HIDE DEF o
    <2>3. \A t : Serves(o, Tagged(ReadCapacity10, t))
        BY <2>1, AskServes
    <2>4. o # NoOperation
        BY <2>1, SomeOperation
    <2> QED BY <2>2, <2>3, <2>4, StartStep
<1> QED BY <1>1, <1>2, <1>3

\* A request that is refused at once.
LEMMA RefuseStep ==
    ASSUME Inv, op = NoOperation, NEW o, RangeError(o)
    PROVE  Inv'
<1>1. UNCHANGED <<deviceVars, transportVars, scsiVars, stage, op>>
    BY DEF RangeError
<1>2. UseOK'
    BY <1>1 DEF Inv, UseOK, deviceVars, transportVars, scsiVars
<1>3. LinkOK'
    BY <1>1, SameLink DEF Inv, linkVars, deviceVars, transportVars, scsiVars
<1> QED BY <1>2, <1>3 DEF Inv

\* A request that is not starts with a command for the blocks it names.
LEMMA ReadStep ==
    ASSUME Inv, Free, stage = "mounted", NEW o \in Requests, o.kind = "read",
           read_blocks(o)
    PROVE  Inv'
<1>1. CASE RangeError(o)
    BY <1>1, RefuseStep DEF Free
<1>2. CASE ~RangeError(o)
    <2> DEFINE c == IF Short10(o) THEN Read10(o.offset, o.count, o.buf)
                                  ELSE Read16(o.offset, o.count, o.buf)
    <2>1. ~Overflows(o) /\ Start(o, c) /\ pc = "idle"
        BY <1>2 DEF read_blocks, Free
    <2>2. \A t : Serves(o, Tagged(c, t))
        BY <2>1, ReadServes
    <2>3. o # NoOperation
        BY SomeOperation
    <2> HIDE DEF c
    <2> QED BY <2>1, <2>2, <2>3, StartStep
<1> QED BY <1>1, <1>2

\* So does a write.
LEMMA WriteStep ==
    ASSUME Inv, Free, stage = "mounted", NEW o \in Requests, o.kind = "write",
           write_blocks(o)
    PROVE  Inv'
<1>1. CASE RangeError(o)
    BY <1>1, RefuseStep DEF Free
<1>2. CASE ~RangeError(o)
    <2> DEFINE c == IF Short10(o) THEN Write10(o.offset, o.count, Fresh(o))
                                  ELSE Write16(o.offset, o.count, Fresh(o))
               p == [kind |-> o.kind, offset |-> o.offset, count |-> o.count,
                     buf |-> o.buf, data |-> Fresh(o)]
    <2>1. ~Overflows(o) /\ Start(p, c) /\ pc = "idle"
        BY <1>2 DEF write_blocks, Free
    <2>2. \A t : Serves(p, Tagged(c, t))
        BY <2>1, WriteServes
    <2>3. p.kind = "write"
        OBVIOUS
    <2> HIDE DEF c, p
    <2>4. p # NoOperation
        BY <2>3, SomeOperation
    <2> QED BY <2>1, <2>2, <2>4, StartStep
<1> QED BY <1>1, <1>2

\* Any request.
LEMMA RequestStep ==
    ASSUME Inv, Request
    PROVE  Inv'
<1>1. Free /\ stage = "mounted" /\ pc = "idle"
    BY DEF Request, Free
<1>2. CASE \E o \in Requests : o.kind = "read" /\ read_blocks(o)
    BY <1>1, <1>2, ReadStep
<1>3. CASE \E o \in Requests : o.kind = "write" /\ write_blocks(o)
    BY <1>1, <1>3, WriteStep
<1>4. CASE query_commands
    <2> DEFINE o == [kind |-> "query"]
    <2>1. o.kind = "query"
        OBVIOUS
    <2>2. Start(o, ReportSupportedOperationCodes(1))
        BY <1>4 DEF query_commands
    <2> HIDE DEF o
    <2>3. \A t : Serves(o, Tagged(ReportSupportedOperationCodes(1), t))
        BY <2>1, AskServes
    <2>4. o # NoOperation
        BY <2>1, SomeOperation
    <2> QED BY <1>1, <2>2, <2>3, <2>4, StartStep
<1>5. CASE block_limits_page
    <2> DEFINE o == [kind |-> "limits"]
    <2>1. o.kind = "limits"
        OBVIOUS
    <2>2. Start(o, BlockLimitsPage)
        BY <1>5 DEF block_limits_page
    <2> HIDE DEF o
    <2>3. \A t : Serves(o, Tagged(BlockLimitsPage, t))
        BY <2>1, AskServes
    <2>4. o # NoOperation
        BY <2>1, SomeOperation
    <2> QED BY <1>1, <2>2, <2>3, <2>4, StartStep
<1> QED BY <1>2, <1>3, <1>4, <1>5 DEF Request

\* An operation of several commands goes on to the next.
LEMMA NextCommandStep ==
    ASSUME Inv, NextCommand
    PROVE  Inv'
<1>1. pc = "idle" /\ op # NoOperation /\ op.kind \in {"info", "query"}
    BY DEF NextCommand, Returned, GoesOn
<1>2. stage \notin {"connect", "ignored"}
    BY <1>1 DEF Inv, UseOK
<1>3. CASE op.kind = "info"
    <2>1. Start(op, ReadCapacity16)
        BY <1>3 DEF NextCommand
    <2>2. \A t : Serves(op, Tagged(ReadCapacity16, t))
        BY <1>3, AskServes
    <2> QED BY <1>1, <1>2, <2>1, <2>2, StartStep
<1>4. CASE op.kind = "query"
    <2>1. Start(op, ReportSupportedOperationCodes(2))
        BY <1>4 DEF NextCommand
    <2>2. \A t : Serves(op, Tagged(ReportSupportedOperationCodes(2), t))
        BY <1>4, AskServes
    <2> QED BY <1>1, <1>2, <2>1, <2>2, StartStep
<1> QED BY <1>1, <1>3, <1>4

\* It ends, and leaves the link as it was.
LEMMA FinishStep ==
    ASSUME Inv, Finish
    PROVE  Inv'
<1>1. /\ pc = "idle" /\ pc' = "idle" /\ op # NoOperation
      /\ op' = NoOperation /\ outcome' = NoOutcome
      /\ UNCHANGED <<deviceVars, toggle, broken, upgrading>>
    BY DEF Finish, Returned
<1>2. ~upgrading /\ stage \notin {"connect", "ignored"}
    BY <1>1 DEF Inv, UseOK
<1>3. stage' # "connect"
    BY <1>2, Zenon DEF Finish
<1>4. UseOK'
    BY <1>1, <1>2, <1>3 DEF Inv, UseOK, deviceVars
<1>5. ASSUME Live' PROVE PhaseOK' /\ sense' \in Senses
    <2>1. Live
        BY <1>1, <1>2, <1>5 DEF Live
    <2>2. Quiet /\ sense \in Senses
        BY <1>1, <2>1 DEF Inv, LinkOK, PhaseOK
    <2> QED BY <1>1, <2>2 DEF PhaseOK, Quiet, deviceVars
<1> QED BY <1>1, <1>4, <1>5 DEF Inv, LinkOK

\* The invariant holds throughout.
LEMMA StepInv == Inv /\ [Next]_vars => Inv'
<1> SUFFICES ASSUME Inv, [Next]_vars PROVE Inv'
    OBVIOUS
<1>1. CASE Next
    <2>1. CASE Attach \/ Unplug \/ Replug
        BY <2>1, AttachStep, UnplugStep, ReplugStep
    <2>2. CASE inquiry \/ test_unit_ready \/ device_info
        BY <2>2, AskStep
    <2>3. CASE Request
        BY <2>3, RequestStep
    <2>4. CASE CommandNext /\ UNCHANGED <<scsiVars, appVars>>
        BY <2>4, CommandStep
    <2>5. CASE ScsiNext /\ UNCHANGED appVars
        BY <2>5, ReturnsStep, UpgradeStep, SenseStep DEF ScsiNext
    <2>6. CASE NextCommand \/ Finish
        BY <2>6, NextCommandStep, FinishStep
    <2> QED BY <1>1, <2>1, <2>2, <2>3, <2>4, <2>5, <2>6 DEF Next
<1>2. CASE UNCHANGED vars
    <2>1. UseOK'
        BY <1>2 DEF Inv, UseOK, vars, deviceVars, transportVars, scsiVars, appVars
    <2>2. LinkOK'
        BY <1>2, SameLink
        DEF Inv, linkVars, vars, deviceVars, transportVars, scsiVars, appVars
    <2> QED BY <2>1, <2>2 DEF Inv
<1> QED BY <1>1, <1>2

\* By induction.
LEMMA Invariance == Spec => []Inv
BY InitInv, StepInv, PTL DEF Spec

-----------------------------------------------------------------------------
(* The theorems.                                                           *)

\* As long as no command has ended in a transport error, whatever the device
\* and whatever failures, short answers and stalls of the data phase it
\* answers with: when MassStorage::command is not running, the device waits
\* for a command block with nothing left to send and the toggles of both ends
\* agree, so that the status command() takes without a look at its tag is its
\* own. (A stall in the status phase is such an error: the halt stays.)
THEOREM HostAndDeviceStayInStep == Spec => []InStep
<1>1. Inv => InStep
    BY DEF Inv, LinkOK, Live, PhaseOK, Quiet, InStep
<1> QED BY Invariance, <1>1, PTL

\* The error that ScsiDevice::try_upgrade_error reports for a command that the
\* device failed is the most specific one its tables have for the sense data of
\* that very failure, for every sense data there is.
THEOREM FailuresAreExplained == Spec => []FailuresExplained
<1>1. Inv => FailuresExplained
    <2> SUFFICES ASSUME Inv, pc = "idle", ~broken,
                        outcome.rc \notin {"none", "Ok", "ProtocolError", "Transport"}
                 PROVE  outcome.rc = BestExplanation(why)
        BY DEF FailuresExplained
    <2>1. op # NoOperation
        <3>1. NoOutcome.rc = "none"
            BY DEF NoOutcome
        <3> QED BY <3>1 DEF Inv, UseOK
    <2>2. Live
        BY <2>1 DEF Inv, UseOK, Live
    <2>3. why \in Senses /\ outcome.rc = Upgraded(why)
        BY <2>1, <2>2 DEF Inv, LinkOK, ReturnedOK
    <2> QED BY <2>3, UpgradedIsBest
<1> QED BY Invariance, <1>1, PTL

\* The blocks of the store are those of the device.
LEMMA StoreBlocks ==
    ASSUME UseOK
    PROVE  /\ Store!Blocks = 0..unit.last /\ unit.last \in Nat
           /\ DOMAIN store = 0..unit.last
<1>1. unit.last \in Nat
    BY DeviceAssumption DEF UseOK
<1> QED BY <1>1 DEF UseOK, Store!Blocks

\* What is promised of the answer that an operation ends with.
LEMMA FinishIsTruthful ==
    ASSUME Inv, Finish, Live
    PROVE  Store!Truthful(op, answer')
<1>1. /\ pc = "idle" /\ op # NoOperation
      /\ answer' = [rc     |-> Verdict,
                    data   |-> IF op.kind = "read" THEN outcome.data ELSE <<>>,
                    blocks |-> IF op.kind = "info" /\ Verdict = "Ok"
                               THEN outcome.data[1][1] ELSE 0]
    BY DEF Finish, Returned
<1>2. SUFFICES ASSUME answer'.rc = "Ok", op.kind \in {"read", "write", "info"}
               PROVE  Store!Truthful(op, answer')
    BY DEF Store!Truthful
<1>3. Verdict = "Ok"
    BY <1>1, <1>2
<1>4. /\ outcome.rc = "Ok"
      /\ ~(op.kind = "read" /\ outcome.n < FullPacket * op.buf)
    BY <1>3 DEF Verdict
<1>5. /\ Yields(op, outcome.n, cmd.len, outcome.data, store, unit.last)
      /\ op.kind = "info" => ~(outcome.n < cmd.len)
    BY <1>1, <1>4 DEF Inv, LinkOK, ReturnedOK
<1>6. CASE op.kind = "read"
    <2>1. answer'.data = outcome.data
        BY <1>1, <1>6
    <2>2. Holding(op, outcome.data, store)
        BY <1>4, <1>5, <1>6 DEF Yields
    <2>3. Store!Sound(op) /\ Store!Holds(op, answer'.data)
        BY <2>1, <2>2 DEF Holding, Store!Sound, Store!Holds, Store!Blocks
    <2> QED BY <1>6, <2>3 DEF Store!Truthful
<1>7. CASE op.kind = "write"
    <2>1. Holding(op, op.data, store)
        BY <1>5, <1>7 DEF Yields
    <2>2. Store!Sound(op) /\ Store!Holds(op, op.data)
        BY <2>1 DEF Holding, Store!Sound, Store!Holds, Store!Blocks
    <2> QED BY <1>7, <2>2 DEF Store!Truthful
<1>8. CASE op.kind = "info"
    <2>1. answer'.blocks = outcome.data[1][1]
        BY <1>1, <1>3, <1>8
    <2>2. outcome.data[1][1] \in 0..unit.last
        BY <1>5, <1>8 DEF Yields
    <2>3. Store!Blocks = 0..unit.last /\ unit.last \in Nat
        BY StoreBlocks DEF Inv
    <2>4. \A b \in 0..(answer'.blocks - 1) : b \in Store!Blocks
        BY <2>1, <2>2, <2>3
    <2> QED BY <1>8, <2>4 DEF Store!Truthful
<1> QED BY <1>2, <1>6, <1>7, <1>8

\* The medium changes only in the data phase of a write, and as it says.
LEMMA CommandCommits ==
    ASSUME Inv, CommandNext, UNCHANGED <<scsiVars, appVars>>, ~broken'
    PROVE  Store!Commit \/ UNCHANGED Store!storeVars
<1>1. op # NoOperation /\ pc # "idle"
    BY CommandUse, CommandFrame DEF Inv, UseOK
<1>2. broken' = broken /\ ~broken
    BY DEF CommandNext, SendCbw, DataIn, DataOut, clear_halt, GetCsw, Fault,
        CutShort, Unplugged
<1>3. op' = op /\ answer' = answer
    BY DEF appVars
<1>4. CASE store' = store
    BY <1>2, <1>3, <1>4 DEF Store!storeVars
<1>5. CASE store' # store
    <2>1. pc = "data" /\ cmd.dir = "out"
        BY <1>5, CommandFrame DEF Inv, UseOK
    <2>2. Live
        BY <1>1, <1>2 DEF Inv, UseOK, Live
    <2>3. DataOut
        BY <2>1 DEF CommandNext, SendCbw, DataIn, DataOut, clear_halt, GetCsw
    <2>4. TakesData(cmd.data) /\ ~outHalted
        BY <1>2, <1>5, <2>3 DEF DataOut, BulkOutOk, Fault, Unplugged, deviceVars
    <2>5. ~upgrading
        BY <1>1, <2>1, <2>2 DEF Inv, LinkOK, ExplainingOK
    <2>6. Serves(op, cmd)
        BY <1>1, <2>2, <2>5 DEF Inv, LinkOK, ServingOK
    <2>7. AwaitsData
        BY <2>1, <2>2, <2>4 DEF Inv, LinkOK, PhaseOK, Refused
    <2>8. /\ op.kind = "write" /\ op.buf >= op.count
          /\ Store!Extent(op) \subseteq DOMAIN store
          /\ store' = [b \in DOMAIN store |->
                          IF b \in Store!Extent(op) THEN op.data[b - op.offset + 1]
                                                    ELSE store[b]]
        BY <1>5, <2>1, <2>4, <2>6, <2>7, DataTaken DEF Inv
    <2>9. Store!Sound(op) /\ store' = Store!Written(op)
        BY <2>8 DEF Store!Sound, Store!Written, Store!Blocks
    <2> QED BY <1>2, <1>3, <2>8, <2>9 DEF Store!Commit
<1> QED BY <1>4, <1>5

\* Every step of the layers is one that BlockStore allows.
LEMMA StepRefines ==
    ASSUME Inv, [Next]_vars
    PROVE  [Store!Next]_Store!storeVars
<1>1. CASE broken'
    BY <1>1 DEF Store!Next, Store!Break
<1>2. SUFFICES ASSUME ~broken' PROVE [Store!Next]_Store!storeVars
    BY <1>1
<1>3. ASSUME NEW o, NEW c, Start(o, c), op = NoOperation, o # NoOperation
      PROVE  Store!Next
    <2>1. op' = o /\ store' = store /\ broken' = broken
        BY <1>3 DEF Start, deviceVars
    <2> QED BY <1>3, <2>1 DEF Store!Next, Store!Invoke, NoOperation
<1>4. ASSUME NEW o, RangeError(o), op = NoOperation PROVE Store!Next
    <2>1. UNCHANGED <<store, op, broken>> /\ answer'.rc = "LogicalBlockAddressOutOfRange"
        BY <1>4 DEF RangeError, deviceVars, transportVars, NoAnswer
    <2> QED BY <1>4, <2>1 DEF Store!Next, Store!Refuse, NoOperation
<1>5. CASE Attach
    <2>1. op = NoOperation
        BY <1>5 DEF Attach, Inv, UseOK
    <2>2. UNCHANGED <<store, op, answer>>
        BY <1>5 DEF Attach, deviceVars
    <2> QED BY <2>1, <2>2 DEF Store!Next, Store!Attach, NoOperation
<1>6. CASE Unplug \/ Replug
    BY <1>6 DEF Unplug, Replug, transportVars, appVars, Store!storeVars
<1>7. CASE inquiry \/ test_unit_ready \/ device_info
    <2>1. /\ [kind |-> "inquiry"].kind # "none" /\ [kind |-> "ready"].kind # "none"
          /\ [kind |-> "info"].kind # "none"
        OBVIOUS
    <2>2. /\ [kind |-> "inquiry"] # NoOperation /\ [kind |-> "ready"] # NoOperation
          /\ [kind |-> "info"] # NoOperation
        BY <2>1, SomeOperation
    <2> QED BY <1>3, <1>7, <2>2, Zenon DEF inquiry, test_unit_ready, device_info, Free
<1>8. CASE Request
    <2>1. op = NoOperation
        BY <1>8 DEF Request, Free
    <2>2. ASSUME NEW o \in Requests, read_blocks(o) \/ write_blocks(o) PROVE Store!Next
        <3> DEFINE p == [kind |-> o.kind, offset |-> o.offset, count |-> o.count,
                         buf |-> o.buf, data |-> Fresh(o)]
        <3>1. o.kind # "none" /\ p.kind # "none"
            BY RequestAssumption
        <3>2. o # NoOperation /\ p # NoOperation
            <4> HIDE DEF p
            <4> QED BY <3>1, SomeOperation
        <3>3. RangeError(o) \/ (\E c : Start(o, c)) \/ (\E c : Start(p, c))
            BY <2>2, Zenon DEF read_blocks, write_blocks
        <3> HIDE DEF p
        <3> QED BY <1>3, <1>4, <2>1, <3>2, <3>3
    <2>3. CASE query_commands \/ block_limits_page
        <3>1. [kind |-> "query"].kind # "none" /\ [kind |-> "limits"].kind # "none"
            OBVIOUS
        <3>2. [kind |-> "query"] # NoOperation /\ [kind |-> "limits"] # NoOperation
            BY <3>1, SomeOperation
        <3> QED BY <1>3, <2>1, <2>3, <3>2, Zenon DEF query_commands, block_limits_page
    <2> QED BY <1>8, <2>2, <2>3 DEF Request
<1>9. CASE CommandNext /\ UNCHANGED <<scsiVars, appVars>>
    BY <1>2, <1>9, CommandCommits DEF Store!Next
<1>10. CASE ScsiNext /\ UNCHANGED appVars
    BY <1>10 DEF ScsiNext, CommandReturns, try_upgrade_error, request_sense_returns,
        deviceVars, appVars, Store!storeVars
<1>11. CASE NextCommand
    <2>1. op # NoOperation
        BY <1>11 DEF NextCommand, Returned
    <2>2. answer = NoAnswer
        BY <2>1 DEF Inv, UseOK
    <2> QED BY <1>11, <2>2 DEF NextCommand, Start, deviceVars, Store!storeVars
<1>12. CASE Finish
    <2>1. /\ op # NoOperation /\ op' = NoOperation
          /\ UNCHANGED <<store, broken>>
        BY <1>12 DEF Finish, Returned, deviceVars
    <2>2. Live
        BY <1>2, <2>1 DEF Inv, UseOK, Live
    <2>3. Store!Truthful(op, answer')
        BY <1>12, <2>2, FinishIsTruthful
    <2> QED BY <2>1, <2>3 DEF Store!Next, Store!Respond, NoOperation
<1>13. CASE UNCHANGED vars
    BY <1>13 DEF vars, deviceVars, transportVars, appVars, Store!storeVars
<1> QED BY <1>5, <1>6, <1>7, <1>8, <1>9, <1>10, <1>11, <1>12, <1>13 DEF Next

\* The block device, SCSI and bulk-only layers together implement BlockStore:
\* a read that reports success returns what the medium holds, a write that
\* does is on it, whichever of the 10- and 16-byte commands was chosen, no
\* block is promised that is not there; and only a failure of the link excuses
\* them, until the device is attached anew.
THEOREM LayersImplementStore == Spec => ImplementsStore
<1>1. Init => Store!Init
    BY DEF Init, Store!Init, NoOperation
<1>2. Inv /\ [Next]_vars => [Store!Next]_Store!storeVars
    BY StepRefines
<1> QED BY Invariance, <1>1, <1>2, PTL DEF Spec, ImplementsStore, Store!Spec

-----------------------------------------------------------------------------
(* The endpoints that MassStorage opens.                                   *)

\* The configuration that the i-th descriptor belongs to, 0 for none, and the
\* interfaces before it.
Within(suite, i) ==
    LET cfs == {k \in 1..(i - 1) : suite[k].type = "configuration"}
    IN  IF cfs = {} THEN 0 ELSE suite[Max(cfs)].value
Interfaces(suite, i) == {k \in 1..(i - 1) : suite[k].type = "interface"}

(***************************************************************************)
(* The devices that the driver is written for: their descriptors are whole *)
(* and no other function shares a configuration with the storage.  There   *)
(* may be any number of other configurations, descriptors of other kinds   *)
(* and descriptors past the bytes that the host fetches.                   *)
(***************************************************************************)
SingleFunction ==
    \A u \in Units :
        /\ IsSeq(u.suite)
        /\ \A i \in 1..Len(u.suite) :
              u.suite[i].type = "other" \/ u.suite[i].len = SizeOf[u.suite[i].type]
        /\ \A i, j \in 1..Len(u.suite) :
              /\ u.suite[i].type = "interface" /\ IsBulkOnly(u.suite[i])
              /\ u.suite[j].type = "endpoint"
              /\ Within(u.suite, i) = Within(u.suite, j)
              => /\ u.suite[j].kind = "bulk"
                 /\ Interfaces(u.suite, j) # {}
                 /\ IsBulkOnly(u.suite[Max(Interfaces(u.suite, j))])

\* A set of numbers with a bound has a greatest member.
LEMMA MaxIs ==
    ASSUME NEW n \in Nat, NEW S \in SUBSET (1..n), S # {}
    PROVE  Max(S) \in S
<1> DEFINE R == OpToRel(<, Nat)
           D == {n - x : x \in S}
<1>1. IsWellFoundedOn(R, Nat)
    BY NatLessThanWellFounded
<1>2. \A x, y \in Nat : <<x, y>> \in R <=> x < y
    BY DEF OpToRel
<1>3. D \in SUBSET Nat /\ D # {}
    <2>1. \A x \in S : n - x \in Nat
        OBVIOUS
    <2>2. PICK x : x \in S
        OBVIOUS
    <2>3. n - x \in D
        BY <2>2
    <2> QED BY <2>1, <2>3
<1> HIDE DEF R, D
<1>4. PICK d \in D : \A e \in D : ~(<<e, d>> \in R)
    BY <1>1, <1>3, WFMin
<1>5. PICK m \in S : d = n - m
    BY <1>4 DEF D
<1>6. ASSUME NEW y \in S PROVE m >= y
    <2>1. n - y \in D /\ n - y \in Nat /\ n - m \in Nat
        BY DEF D
    <2>2. ~(n - y < n - m)
        BY <1>2, <1>4, <1>5, <2>1
    <2> QED BY <2>1, <2>2
<1> QED BY <1>6 DEF Max

\* In a suite of whole descriptors, one that is parsed is parsed with all that
\* come before it, and so in its own configuration.
LEMMA ParsedInPlace ==
    ASSUME NEW suite, IsSeq(suite),
           \A i \in 1..Len(suite) : suite[i].type = "other" \/ suite[i].len = SizeOf[suite[i].type],
           NEW i \in parse_descriptors(suite)
    PROVE  CurrentConfiguration(suite, i) = Within(suite, i)
<1>1. Len(suite) \in Nat
    BY DEF IsSeq
<1>2. i \in 1..Len(suite) /\ Reaches(suite, i)
    BY DEF parse_descriptors
<1>3. ASSUME NEW j \in 1..(i - 1) PROVE j \in 1..Len(suite) /\ Reaches(suite, j)
    <2>1. j \in 1..Len(suite) /\ \A k \in 1..j : k \in 1..i
        BY <1>1, <1>2
    <2> QED BY <1>2, <2>1 DEF Reaches
<1>4. \A j \in 1..(i - 1) : j \in parse_descriptors(suite)
    BY <1>3 DEF parse_descriptors
<1>5. \A j \in parse_descriptors(suite) : j < i => j \in 1..(i - 1)
    BY <1>1, <1>2 DEF parse_descriptors
<1>6. \A j \in 1..(i - 1) : j < i
    BY <1>1, <1>2
<1>7. {j \in OfType(suite, "configuration") : j < i}
      = {k \in 1..(i - 1) : suite[k].type = "configuration"}
    BY <1>4, <1>5, <1>6 DEF OfType
<1> QED BY <1>7 DEF CurrentConfiguration, Within

\* What configure() gives a storage device are the storage interface's own
\* endpoints.
LEMMA OwnEndpoints ==
    ASSUME SingleFunction, NEW u \in Units, NEW dir,
           IdentifyMassStorage(u.suite) # 0,
           NEW ep \in SpecificConfiguration(u.suite, IdentifyMassStorage(u.suite), dir)
    PROVE  ep \in TrueEndpoints(u.suite, IdentifyMassStorage(u.suite), dir)
<1> DEFINE suite == u.suite
           value == IdentifyMassStorage(suite)
           msc == {i \in OfType(suite, "interface") : IsBulkOnly(suite[i])}
<1>0. IsSeq(suite)
    BY DEF SingleFunction
<1>1. /\ IsSeq(suite) /\ Len(suite) \in Nat
      /\ \A i \in 1..Len(suite) : suite[i].type = "other" \/ suite[i].len = SizeOf[suite[i].type]
    <2>1. Len(suite) \in Nat
        BY <1>0 DEF IsSeq
    <2>2. \A i \in 1..Len(suite) : suite[i].type = "other" \/ suite[i].len = SizeOf[suite[i].type]
        BY DEF SingleFunction
    <2> QED BY <1>0, <2>1, <2>2
<1>2. msc # {} /\ value = CurrentConfiguration(suite, Max(msc))
    BY DEF IdentifyMassStorage
<1>3. msc \in SUBSET (1..Len(suite))
    BY DEF OfType, parse_descriptors
<1> DEFINE i == Max(msc)
<1>4. i \in msc
    BY <1>1, <1>2, <1>3, MaxIs
<1>5. /\ i \in parse_descriptors(suite) /\ i \in 1..Len(suite)
      /\ suite[i].type = "interface" /\ IsBulkOnly(suite[i])
    BY <1>4 DEF OfType, parse_descriptors
<1> HIDE DEF i, msc
<1>6. value = Within(suite, i)
    BY <1>1, <1>2, <1>5, ParsedInPlace DEF i
<1>7. PICK j \in OfType(suite, "endpoint") :
          suite[j].dir = dir /\ CurrentConfiguration(suite, j) = value /\ ep = suite[j].ep
    BY DEF SpecificConfiguration
<1>8. /\ j \in parse_descriptors(suite) /\ j \in 1..Len(suite) /\ suite[j].type = "endpoint"
    BY <1>7 DEF OfType, parse_descriptors
<1>9. value = Within(suite, j)
    BY <1>1, <1>7, <1>8, ParsedInPlace
<1>10. /\ suite[j].kind = "bulk" /\ Interfaces(suite, j) # {}
       /\ IsBulkOnly(suite[Max(Interfaces(suite, j))])
    BY <1>5, <1>6, <1>8, <1>9 DEF SingleFunction
<1> DEFINE cfs == {k \in 1..(j - 1) : suite[k].type = "configuration"}
<1>11. cfs # {} /\ suite[Max(cfs)].value = value
    BY <1>9 DEF Within
<1> QED BY <1>7, <1>8, <1>10, <1>11 DEF TrueEndpoints, Interfaces

\* They stay opened until the device is attached again.
Opened ==
    stage = "inquiry" =>
        LET value == IdentifyMassStorage(unit.suite)
        IN  /\ endpoints.in \in TrueEndpoints(unit.suite, value, "in")
            /\ endpoints.out \in TrueEndpoints(unit.suite, value, "out")

\* Attaching opens them.
LEMMA AttachOpens ==
    ASSUME SingleFunction, Inv, Attach
    PROVE  Opened'
<1>1. unit' = unit /\ unit \in Units
    BY DEF Attach, deviceVars, Inv, UseOK
<1>2. CASE stage' # "inquiry"
    BY <1>2 DEF Opened
<1>3. CASE stage' = "inquiry"
    <2> DEFINE value == IdentifyMassStorage(unit.suite)
    <2>1. /\ Recognised
          /\ endpoints' = [in |-> Opens(value, "in"), out |-> Opens(value, "out")]
        BY <1>3 DEF Attach
    <2>2. /\ value # 0
          /\ endpoints'.in \in SpecificConfiguration(unit.suite, value, "in")
          /\ endpoints'.out \in SpecificConfiguration(unit.suite, value, "out")
        BY <2>1 DEF Recognised, CanOpen, Bitmap, configure
    <2> HIDE DEF value
    <2>3. /\ endpoints'.in \in TrueEndpoints(unit.suite, value, "in")
          /\ endpoints'.out \in TrueEndpoints(unit.suite, value, "out")
        BY <1>1, <2>2, OwnEndpoints DEF value
    <2> QED BY <1>1, <2>3 DEF Opened, value
<1> QED BY <1>2, <1>3

\* The rest leaves them alone.
LEMMA StepOpened ==
    ASSUME SingleFunction, Inv, Opened, [Next]_vars
    PROVE  Opened'
<1>1. CASE Attach
    BY <1>1, AttachOpens
<1>2. CASE unit' = unit /\ (stage' # "inquiry" \/ UNCHANGED <<stage, endpoints>>)
    BY <1>2 DEF Opened
<1>3. CASE Unplug \/ Replug
    BY <1>2, <1>3 DEF Unplug, Replug, appVars
<1>4. ASSUME NEW o, NEW c, Start(o, c) PROVE Opened'
    BY <1>2, <1>4 DEF Start, deviceVars
<1>5. ASSUME NEW o, RangeError(o) PROVE Opened'
    BY <1>2, <1>5 DEF RangeError, deviceVars
<1>6. CASE inquiry \/ test_unit_ready \/ device_info \/ NextCommand
    BY <1>4, <1>6 DEF inquiry, test_unit_ready, device_info, NextCommand
<1>7. CASE Request
    BY <1>4, <1>5, <1>7 DEF Request, read_blocks, write_blocks, query_commands, block_limits_page
<1>8. CASE CommandNext /\ UNCHANGED <<scsiVars, appVars>>
    <2>1. UNCHANGED <<stage, endpoints>>
        BY <1>8 DEF appVars
    <2>2. ASSUME NEW n, NEW Takes, BulkOutOk(n, Takes) \/ BulkOutFault(n, Takes)
          PROVE  unit' = unit
        BY <2>2 DEF BulkOutOk, BulkOutFault, deviceVars
    <2>3. ASSUME NEW n, BulkInOk(n) \/ BulkInStall(n) \/ BulkInError(n) \/ BulkInFault
          PROVE  unit' = unit
        BY <2>3 DEF BulkInOk, BulkInStall, BulkInError, BulkInFault, Sent, deviceVars
    <2>4. unit' = unit
        BY <1>8, <2>2, <2>3 DEF CommandNext, SendCbw, DataIn, DataOut, clear_halt, GetCsw, deviceVars
    <2> QED BY <1>2, <2>1, <2>4
<1>9. CASE ScsiNext /\ UNCHANGED appVars
    BY <1>2, <1>9 DEF ScsiNext, CommandReturns, try_upgrade_error, request_sense_returns,
       deviceVars, appVars
<1>10. CASE Finish
    <2>1. unit' = unit /\ UNCHANGED endpoints /\ (stage' \in {"ready", "info", "mounted", "ignored", stage})
        BY <1>10 DEF Finish, deviceVars
    <2> QED BY <1>2, <2>1
<1>11. CASE UNCHANGED vars
    BY <1>2, <1>11 DEF vars, deviceVars, appVars
<1> QED BY <1>1, <1>3, <1>6, <1>7, <1>8, <1>9, <1>10, <1>11 DEF Next

\* Whatever configurations and descriptors a device has, and however few of
\* them the host fetches: if nothing but storage is in a configuration with
\* storage, the endpoints that MassStorage::new opens are those of a bulk-only
\* interface in the configuration that was set.  (On a device of several
\* functions they may be another's.)
THEOREM StorageIsFound == SingleFunction => (Spec => []TalksToStorage)
<1> SUFFICES ASSUME SingleFunction PROVE Spec => []TalksToStorage
    OBVIOUS
<1>1. Init => Opened
    BY DEF Init, Opened
<1>2. Inv /\ Opened /\ [Next]_vars => Opened'
    BY StepOpened
<1>3. Opened => TalksToStorage
    BY DEF Opened, TalksToStorage
<1> QED BY <1>1, <1>2, <1>3, Invariance, PTL DEF Spec
=============================================================================
