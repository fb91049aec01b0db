------------------------------ MODULE Messages ------------------------------
(***************************************************************************)
(* cotton-ssdp/src/message.rs: how SSDP messages are written into a buffer *)
(* of fixed size and what a receiver reads out of it.  write! writes the   *)
(* literal text and the arguments piece by piece; MessageCursor writes a   *)
(* piece entirely or not at all, and the first piece that does not fit is  *)
(* the end of the message, which is sent all the same.                     *)
(*                                                                         *)
(* A text is a value and its size in bytes.  A message is its first line   *)
(* and a function from the names of its headers to their values.           *)
(***************************************************************************)
EXTENDS Integers

MAX_PACKET_SIZE == 512

Text(value, size) == [value |-> value, size |-> size]

\* Mutant of Fits: a piece that fills the buffer is refused.
FitsBelow(n) == n < MAX_PACKET_SIZE

\* MessageCursor::write_str, of a piece that ends at offset n.
Fits(n) == n <= MAX_PACKET_SIZE

\* write! of the headers texts: for each the literal that ends in "KEY: ", at
\* offset at[KEY], and then the argument, which may be missing.  (A value that
\* is itself part of a literal has no size of its own.)
Written(at, texts) ==
    [key \in {k \in DOMAIN texts : Fits(at[k])} |->
        IF Fits(at[key] + texts[key].size) THEN texts[key].value ELSE ""]

build_search(type) ==
    [prefix |-> "M-SEARCH * HTTP/1.1",
     map |-> Written([MX |-> 82, ST |-> 82], [MX |-> Text(5, 0), ST |-> type])]

build_response(target, usn, location) ==
    LET n == 50 + target.size + 7
    IN  [prefix |-> "HTTP/1.1 200 OK",
         map |-> Written([ST |-> 50, USN |-> n, LOCATION |-> n + usn.size + 12],
                         [ST |-> target, USN |-> usn, LOCATION |-> location])]

build_notify(type, usn, location) ==
    LET n == 86 + location.size + 6
        m == n + type.size + 24
    IN  [prefix |-> "NOTIFY * HTTP/1.1",
         map |-> Written([LOCATION |-> 86, NT |-> n, NTS |-> m, USN |-> m],
                         [LOCATION |-> location, NT |-> type, NTS |-> Text("ssdp:alive", 0),
                          USN |-> usn])]

build_byebye(type, usn) ==
    LET n == 80 + type.size + 25
    IN  [prefix |-> "NOTIFY * HTTP/1.1",
         map |-> Written([NT |-> 80, NTS |-> n, USN |-> n],
                         [NT |-> type, NTS |-> Text("ssdp:byebye", 0), USN |-> usn])]

Has(packet, prefix, keys) == packet.prefix = prefix /\ keys \subseteq DOMAIN packet.map

IsNotify(packet, nts, keys) ==
    Has(packet, "NOTIFY * HTTP/1.1", keys \cup {"NTS"}) /\ packet.map["NTS"] = nts

\* A message without the headers of its kind is InvalidData.
parse(packet) ==
    LET map == packet.map IN
    IF IsNotify(packet, "ssdp:alive", {"NT", "USN", "LOCATION"})
    THEN [kind |-> "alive", type |-> map["NT"], usn |-> map["USN"], location |-> map["LOCATION"]]
    ELSE IF IsNotify(packet, "ssdp:byebye", {"NT", "USN"})
    THEN [kind |-> "byebye", type |-> map["NT"], usn |-> map["USN"]]
    ELSE IF Has(packet, "HTTP/1.1 200 OK", {"ST", "USN", "LOCATION"})
    THEN [kind |-> "response", type |-> map["ST"], usn |-> map["USN"],
          location |-> map["LOCATION"]]
    ELSE IF Has(packet, "M-SEARCH * HTTP/1.1", {"ST", "MX"})
    THEN [kind |-> "search", type |-> map["ST"], mx |-> map["MX"]]
    ELSE [kind |-> "InvalidData"]
=============================================================================
