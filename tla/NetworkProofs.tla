--------------------------- MODULE NetworkProofs ----------------------------
(***************************************************************************)
(* Proofs about the network side, in three parts.                          *)
(*                                                                         *)
(* The engine: its peers know what it advertises and have been asked for   *)
(* what it searches, for any number of interfaces, addresses and           *)
(* resources, as long as the messages fit their buffer and none is lost;   *)
(* and no search is forgotten.                                             *)
(*                                                                         *)
(* The services: both owners of an engine wake it up in time, searches are *)
(* answered in time therefore, and the polling loop leaves no packet       *)
(* behind.                                                                 *)
(*                                                                         *)
(* The feed: cotton-netif tells the truth about any network, and an engine *)
(* that is fed by it follows the kernel.                                   *)
(***************************************************************************)
EXTENDS NetworkFeed, Services, FiniteSetTheorems, WellFoundedInduction, SequenceTheorems, TLAPS

(***************************************************************************)
(* The messages are short enough for the buffer of MAX_PACKET_SIZE bytes,  *)
(* which the engine does not check: see the literals of message.rs.        *)
(***************************************************************************)
PacketsFit ==
    /\ \A url \in Urls :
          /\ 86 + UrlText(url).size + 6 + TypeSize + 24 + UsnSize <= MAX_PACKET_SIZE
          /\ 50 + TypeSize + 7 + UsnSize + 12 + UrlText(url).size <= MAX_PACKET_SIZE
    /\ 80 + TypeSize + 25 + UsnSize <= MAX_PACKET_SIZE
    /\ 82 + TypeSize <= MAX_PACKET_SIZE
-----------------------------------------------------------------------------
(* What a receiver reads out of a message that fits.                       *)

(***************************************************************************)
(* write! of headers that end within the buffer leaves none out.           *)
(***************************************************************************)
LEMMA WrittenWhole ==
  ASSUME NEW pos, NEW texts,
         \A k \in DOMAIN texts : /\ pos[k] \in Nat /\ texts[k].size \in Nat
                                 /\ pos[k] + texts[k].size <= MAX_PACKET_SIZE
  PROVE  /\ DOMAIN Written(pos, texts) = DOMAIN texts
         /\ \A k \in DOMAIN texts : Written(pos, texts)[k] = texts[k].value
<1>1. {k \in DOMAIN texts : Fits(pos[k])} = DOMAIN texts
  BY DEF Fits, MAX_PACKET_SIZE
<1>2. \A k \in DOMAIN texts : Fits(pos[k] + texts[k].size)
  BY DEF Fits
<1> QED BY <1>1, <1>2 DEF Written

(***************************************************************************)
(* build_notify, and parse of what it builds.                              *)
(***************************************************************************)
LEMMA NotifyRead ==
  ASSUME NEW t, NEW u, NEW url,
         t.size \in Nat, u.size \in Nat, url.size \in Nat,
         86 + url.size + 6 + t.size + 24 + u.size <= MAX_PACKET_SIZE
  PROVE  parse(build_notify(t, u, url)) =
            [kind |-> "alive", type |-> t.value, usn |-> u.value, location |-> url.value]
<1> DEFINE n == 86 + url.size + 6
           m == n + t.size + 24
           pos == [LOCATION |-> 86, NT |-> n, NTS |-> m, USN |-> m]
           texts == [LOCATION |-> url, NT |-> t, NTS |-> Text("ssdp:alive", 0), USN |-> u]
           p == build_notify(t, u, url)
<1>1. p.prefix = "NOTIFY * HTTP/1.1" /\ p.map = Written(pos, texts)
  BY DEF build_notify
<1>2. /\ DOMAIN texts = {"LOCATION", "NT", "NTS", "USN"}
      /\ texts["LOCATION"] = url /\ texts["NT"] = t
      /\ texts["NTS"].size = 0
      /\ texts["NTS"].value = "ssdp:alive"
      /\ texts["USN"] = u
  BY DEF Text
<1>3. pos["LOCATION"] = 86 /\ pos["NT"] = n /\ pos["NTS"] = m /\ pos["USN"] = m
  OBVIOUS
<1> HIDE DEF pos, texts, p
<1>4. \A k \in DOMAIN texts : /\ pos[k] \in Nat /\ texts[k].size \in Nat
                              /\ pos[k] + texts[k].size <= MAX_PACKET_SIZE
  BY <1>2, <1>3 DEF MAX_PACKET_SIZE
<1>5. /\ DOMAIN Written(pos, texts) = DOMAIN texts
      /\ \A k \in DOMAIN texts : Written(pos, texts)[k] = texts[k].value
  BY <1>4, WrittenWhole
<1>6. \A k \in DOMAIN texts : p.map[k] = texts[k].value
  BY <1>1, <1>5
<1>7. DOMAIN p.map = {"LOCATION", "NT", "NTS", "USN"}
  BY <1>1, <1>2, <1>5, Zenon
<1>8. p.map["LOCATION"] = url.value
  BY <1>2, <1>6, Zenon
<1>9. p.map["NT"] = t.value
  BY <1>2, <1>6, Zenon
<1>10. p.map["NTS"] = "ssdp:alive"
  BY <1>2, <1>6, Zenon
<1>11. p.map["USN"] = u.value
  BY <1>2, <1>6, Zenon
<1>12. IsNotify(p, "ssdp:alive", {"NT", "USN", "LOCATION"})
  BY <1>1, <1>7, <1>8, <1>9, <1>10, <1>11 DEF IsNotify, Has
<1>13. parse(p) = [kind |-> "alive", type |-> t.value, usn |-> u.value, location |-> url.value]
  BY <1>12, <1>7, <1>8, <1>9, <1>10, <1>11 DEF parse
<1> QED BY <1>13 DEF p

(***************************************************************************)
(* build_byebye, and parse of what it builds.                              *)
(***************************************************************************)
LEMMA ByeByeRead ==
  ASSUME NEW t, NEW u,
         t.size \in Nat, u.size \in Nat,
         80 + t.size + 25 + u.size <= MAX_PACKET_SIZE
  PROVE  parse(build_byebye(t, u)) =
            [kind |-> "byebye", type |-> t.value, usn |-> u.value]
<1> DEFINE n == 80 + t.size + 25
           pos == [NT |-> 80, NTS |-> n, USN |-> n]
           texts == [NT |-> t, NTS |-> Text("ssdp:byebye", 0), USN |-> u]
           p == build_byebye(t, u)
<1>1. p.prefix = "NOTIFY * HTTP/1.1" /\ p.map = Written(pos, texts)
  BY DEF build_byebye
<1>2. /\ DOMAIN texts = {"NT", "NTS", "USN"}
      /\ texts["NT"] = t /\ texts["NTS"].size = 0
      /\ texts["NTS"].value = "ssdp:byebye"
      /\ texts["USN"] = u
  BY DEF Text
<1>3. pos["NT"] = 80 /\ pos["NTS"] = n /\ pos["USN"] = n
  OBVIOUS
<1> HIDE DEF pos, texts, p
<1>4. \A k \in DOMAIN texts : /\ pos[k] \in Nat /\ texts[k].size \in Nat
                              /\ pos[k] + texts[k].size <= MAX_PACKET_SIZE
  BY <1>2, <1>3 DEF MAX_PACKET_SIZE
<1>5. /\ DOMAIN Written(pos, texts) = DOMAIN texts
      /\ \A k \in DOMAIN texts : Written(pos, texts)[k] = texts[k].value
  BY <1>4, WrittenWhole
<1>6. \A k \in DOMAIN texts : p.map[k] = texts[k].value
  BY <1>1, <1>5
<1>7. DOMAIN p.map = {"NT", "NTS", "USN"}
  BY <1>1, <1>2, <1>5, Zenon
<1>8. p.map["NT"] = t.value
  BY <1>2, <1>6, Zenon
<1>9. p.map["NTS"] = "ssdp:byebye"
  BY <1>2, <1>6, Zenon
<1>10. p.map["USN"] = u.value
  BY <1>2, <1>6, Zenon
<1>11. IsNotify(p, "ssdp:byebye", {"NT", "USN"})
  BY <1>1, <1>7, <1>8, <1>9, <1>10 DEF IsNotify, Has
<1>12. parse(p) = [kind |-> "byebye", type |-> t.value, usn |-> u.value]
  BY <1>1, <1>11, <1>7, <1>8, <1>9, <1>10 DEF parse, IsNotify
<1> QED BY <1>12 DEF p

(***************************************************************************)
(* build_response, and parse of what it builds.                            *)
(***************************************************************************)
LEMMA ResponseRead ==
  ASSUME NEW t, NEW u, NEW url,
         t.size \in Nat, u.size \in Nat, url.size \in Nat,
         50 + t.size + 7 + u.size + 12 + url.size <= MAX_PACKET_SIZE
  PROVE  parse(build_response(t, u, url)) =
            [kind |-> "response", type |-> t.value, usn |-> u.value, location |-> url.value]
<1> DEFINE n == 50 + t.size + 7
           pos == [ST |-> 50, USN |-> n, LOCATION |-> n + u.size + 12]
           texts == [ST |-> t, USN |-> u, LOCATION |-> url]
           p == build_response(t, u, url)
<1>1. p.prefix = "HTTP/1.1 200 OK" /\ p.map = Written(pos, texts)
  BY DEF build_response
<1>2. /\ DOMAIN texts = {"ST", "USN", "LOCATION"}
      /\ texts["ST"] = t /\ texts["USN"] = u
      /\ texts["LOCATION"] = url
  BY DEF Text
<1>3. pos["ST"] = 50 /\ pos["USN"] = n /\ pos["LOCATION"] = n + u.size + 12
  OBVIOUS
<1> HIDE DEF pos, texts, p
<1>4. \A k \in DOMAIN texts : /\ pos[k] \in Nat /\ texts[k].size \in Nat
                              /\ pos[k] + texts[k].size <= MAX_PACKET_SIZE
  BY <1>2, <1>3 DEF MAX_PACKET_SIZE
<1>5. /\ DOMAIN Written(pos, texts) = DOMAIN texts
      /\ \A k \in DOMAIN texts : Written(pos, texts)[k] = texts[k].value
  BY <1>4, WrittenWhole
<1>6. \A k \in DOMAIN texts : p.map[k] = texts[k].value
  BY <1>1, <1>5
<1>7. DOMAIN p.map = {"ST", "USN", "LOCATION"}
  BY <1>1, <1>2, <1>5, Zenon
<1>8. p.map["ST"] = t.value
  BY <1>2, <1>6, Zenon
<1>9. p.map["USN"] = u.value
  BY <1>2, <1>6, Zenon
<1>10. p.map["LOCATION"] = url.value
  BY <1>2, <1>6, Zenon
<1>11. Has(p, "HTTP/1.1 200 OK", {"ST", "USN", "LOCATION"})
  BY <1>1, <1>7, <1>8, <1>9, <1>10 DEF Has
<1>12. parse(p) = [kind |-> "response", type |-> t.value, usn |-> u.value, location |-> url.value]
  BY <1>1, <1>11, <1>7, <1>8, <1>9, <1>10 DEF parse, IsNotify, Has
<1> QED BY <1>12 DEF p

(***************************************************************************)
(* build_search, and parse of what it builds.                              *)
(***************************************************************************)
LEMMA SearchRead ==
  ASSUME NEW t, t.size \in Nat, 82 + t.size <= MAX_PACKET_SIZE
  PROVE  parse(build_search(t)).kind = "search" /\ parse(build_search(t)).type = t.value
<1> DEFINE pos == [MX |-> 82, ST |-> 82]
           texts == [MX |-> Text(5, 0), ST |-> t]
           p == build_search(t)
<1>1. p.prefix = "M-SEARCH * HTTP/1.1" /\ p.map = Written(pos, texts)
  BY DEF build_search
<1>2. /\ DOMAIN texts = {"MX", "ST"}
      /\ texts["MX"].size = 0 /\ texts["ST"] = t
  BY DEF Text
<1>3. pos["MX"] = 82 /\ pos["ST"] = 82
  OBVIOUS
<1> HIDE DEF pos, texts, p
<1>4. \A k \in DOMAIN texts : /\ pos[k] \in Nat /\ texts[k].size \in Nat
                              /\ pos[k] + texts[k].size <= MAX_PACKET_SIZE
  BY <1>2, <1>3 DEF MAX_PACKET_SIZE
<1>5. /\ DOMAIN Written(pos, texts) = DOMAIN texts
      /\ \A k \in DOMAIN texts : Written(pos, texts)[k] = texts[k].value
  BY <1>4, WrittenWhole
<1>6. \A k \in DOMAIN texts : p.map[k] = texts[k].value
  BY <1>1, <1>5
<1>7. DOMAIN p.map = {"MX", "ST"}
  BY <1>1, <1>2, <1>5, Zenon
<1>8. p.map["ST"] = t.value
  BY <1>2, <1>6, Zenon
<1>9. Has(p, "M-SEARCH * HTTP/1.1", {"ST", "MX"})
  BY <1>1, <1>7 DEF Has
<1>10. parse(p).kind = "search" /\ parse(p).type = t.value
  BY <1>1, <1>8, <1>9 DEF parse, IsNotify, Has
<1> QED BY <1>10 DEF p
-----------------------------------------------------------------------------
(* The packets that the engine sends.                                      *)

(***************************************************************************)
(* The texts of types, of service names and of URLs have a size.           *)
(***************************************************************************)
LEMMA Texts ==
  /\ \A t \in Types : TypeText(t).value = t /\ TypeText(t).size = TypeSize
  /\ TypeText(All).value = All /\ TypeText(All).size = 8
  /\ \A u : UsnText(u).value = u /\ UsnText(u).size = UsnSize
  /\ \A url \in Urls : UrlText(url).value = url /\ UrlText(url).size \in Nat
<1>1. ASSUME NEW url \in Urls PROVE UrlText(url).value = url /\ UrlText(url).size \in Nat
  <2>1. PICK l \in Locations, ip \in Ips : url = rewrite_host(l, ip)
    BY <1>1 DEF Urls
  <2>2. l \in [scheme : BOOLEAN, host : STRING, rest : Nat]
    BY EngineAssumption
  <2>3. url.rest \in Nat /\ url.scheme \in BOOLEAN
    BY <2>1, <2>2 DEF rewrite_host
  <2> QED BY <2>3 DEF UrlText, Text
<1> QED BY <1>1, EngineAssumption DEF TypeText, UsnText, Text

(***************************************************************************)
(* A notification that is sent from ip says what is advertised, with the   *)
(* URL that is right for ip.                                               *)
(***************************************************************************)
LEMMA NotifySays ==
  ASSUME PacketsFit, NEW u \in Usns, NEW adv, adv.type \in Types, adv.location \in Locations,
         NEW ip \in Ips
  PROVE  Notify(u, adv, ip) =
            [ip |-> ip, packet |-> [kind |-> "alive", type |-> adv.type, usn |-> u,
                                    location |-> rewrite_host(adv.location, ip)]]
<1> DEFINE url == rewrite_host(adv.location, ip)
<1>1. url \in Urls
  BY DEF Urls
<1> HIDE DEF url
<1>2. Parsed.notify[adv.type][u][url]
         = parse(build_notify(TypeText(adv.type), UsnText(u), UrlText(url)))
  BY <1>1 DEF Parsed
<1>3. parse(build_notify(TypeText(adv.type), UsnText(u), UrlText(url)))
         = [kind |-> "alive", type |-> adv.type, usn |-> u, location |-> url]
  <2> DEFINE t == TypeText(adv.type)  n == UsnText(u)  l == UrlText(url)
  <2>1. /\ t.value = adv.type /\ t.size = TypeSize /\ n.value = u /\ n.size = UsnSize
        /\ l.value = url /\ l.size \in Nat
    BY <1>1, Texts
  <2>2. 86 + l.size + 6 + t.size + 24 + n.size <= MAX_PACKET_SIZE
    BY <1>1, <2>1 DEF PacketsFit
  <2> HIDE DEF t, n, l
  <2>3. t.size \in Nat /\ n.size \in Nat
    BY <2>1, EngineAssumption
  <2>4. parse(build_notify(t, n, l))
           = [kind |-> "alive", type |-> t.value, usn |-> n.value, location |-> l.value]
    BY <2>1, <2>2, <2>3, NotifyRead
  <2> QED BY <2>1, <2>4 DEF t, n, l
<1> QED BY <1>2, <1>3 DEF Notify, From, url

(***************************************************************************)
(* Likewise a farewell.                                                    *)
(***************************************************************************)
LEMMA ByeByeSays ==
  ASSUME PacketsFit, NEW u \in Usns, NEW type \in Types
  PROVE  Parsed.byebye[type][u] = [kind |-> "byebye", type |-> type, usn |-> u]
<1> DEFINE t == TypeText(type)  n == UsnText(u)
<1>1. t.value = type /\ t.size = TypeSize /\ n.value = u /\ n.size = UsnSize
  BY Texts
<1>2. Parsed.byebye[type][u] = parse(build_byebye(t, n))
  BY DEF Parsed
<1> HIDE DEF t, n
<1>3. 80 + t.size + 25 + n.size <= MAX_PACKET_SIZE
  BY <1>1 DEF PacketsFit
<1>4. t.size \in Nat /\ n.size \in Nat
  BY <1>1, EngineAssumption
<1>5. parse(build_byebye(t, n)) = [kind |-> "byebye", type |-> t.value, usn |-> n.value]
  BY <1>3, <1>4, ByeByeRead
<1> QED BY <1>1, <1>2, <1>5

(***************************************************************************)
(* Likewise a search.                                                      *)
(***************************************************************************)
LEMMA SearchSays ==
  ASSUME PacketsFit, NEW type \in Types \cup {All}
  PROVE  Parsed.search[type].kind = "search" /\ Parsed.search[type].type = type
<1> DEFINE t == TypeText(type)
<1>1. t.value = type /\ t.size \in Nat /\ 82 + t.size <= MAX_PACKET_SIZE
  BY Texts, EngineAssumption DEF PacketsFit, MAX_PACKET_SIZE
<1>2. Parsed.search[type] = parse(build_search(t))
  BY DEF Parsed
<1> HIDE DEF t
<1>3. parse(build_search(t)).kind = "search" /\ parse(build_search(t)).type = t.value
  BY <1>1, SearchRead
<1> QED BY <1>1, <1>2, <1>3

(***************************************************************************)
(* Likewise an answer.                                                     *)
(***************************************************************************)
LEMMA ResponseSays ==
  ASSUME PacketsFit, NEW u \in Usns, NEW type \in Types, NEW url \in Urls
  PROVE  Parsed.response[type][u][url]
            = [kind |-> "response", type |-> type, usn |-> u, location |-> url]
<1> DEFINE t == TypeText(type)  n == UsnText(u)  l == UrlText(url)
<1>1. /\ t.value = type /\ t.size = TypeSize /\ n.value = u /\ n.size = UsnSize
      /\ l.value = url /\ l.size \in Nat
  BY Texts
<1>2. Parsed.response[type][u][url] = parse(build_response(t, n, l))
  BY DEF Parsed
<1>3. 50 + t.size + 7 + n.size + 12 + l.size <= MAX_PACKET_SIZE
  BY <1>1 DEF PacketsFit
<1> HIDE DEF t, n, l
<1>4. t.size \in Nat /\ n.size \in Nat
  BY <1>1, EngineAssumption
<1>5. parse(build_response(t, n, l))
         = [kind |-> "response", type |-> t.value, usn |-> n.value, location |-> l.value]
  BY <1>1, <1>3, <1>4, ResponseRead
<1> QED BY <1>1, <1>2, <1>5
-----------------------------------------------------------------------------
(* What the network makes of the packets.                                  *)

(***************************************************************************)
(* When no packet is lost, Send takes every packet of an address in use to *)
(* the peers.                                                              *)
(***************************************************************************)
LEMMA Delivered ==
  ASSUME NEW mail, NEW ifs, NEW advs, NEW newly, Send(mail, ifs, advs, newly),
         losses \in Nat, losses' = 0
  PROVE  /\ losses = 0
         /\ \A ip \in Ips, u \in Usns :
               heard'[ip][u] =
                  IF ip \notin UpIps(ifs)
                  THEN IF u \notin DOMAIN advs /\ heard[ip][u] # NoAdvert THEN Outdated
                       ELSE heard[ip][u]
                  ELSE IF About("byebye", mail, ip, u) # {} THEN NoAdvert
                  ELSE IF About("alive", mail, ip, u) # {} THEN Said(About("alive", mail, ip, u))
                  ELSE heard[ip][u]
         /\ \A ip \in Ips :
               asked'[ip] = IF ip \notin UpIps(ifs) THEN {}
                            ELSE asked[ip] \cup {m.packet.type : m \in OfKind("search", mail, ip)}
         /\ \A o : o \in owed' <=>
               /\ o \in owed \cup newly
               /\ o.to \in UpIps(ifs) /\ o.usn \in DOMAIN advs
               /\ \A ip \in Via[o.from] : ip \in UpIps(ifs) =>
                     /\ About("alive", mail, ip, o.usn) = {}
                     /\ \A m \in About("response", mail, ip, o.usn) : m.to # o.from
<1> DEFINE out == send_from(mail, UpIps(ifs))
<1>0. PICK lost \in SUBSET out :
         /\ IsFiniteSet(lost) /\ losses' = losses + Cardinality(lost)
         /\ Received(out \ lost, ifs, advs, newly)
  BY DEF Send
<1> DEFINE got == out \ lost
<1>1. /\ IsFiniteSet(lost) /\ losses' = losses + Cardinality(lost)
      /\ got = send_from(mail, UpIps(ifs)) \ lost
      /\ Received(got, ifs, advs, newly)
  BY <1>0
<1> HIDE DEF got
<1>2. losses = 0 /\ lost = {}
  BY <1>1, FS_CardinalityType, FS_EmptySet
<1>3. \A m : m \in got <=> m \in mail /\ m.ip \in UpIps(ifs)
  BY <1>1, <1>2 DEF send_from
<1>4. ASSUME NEW ip \in UpIps(ifs), NEW kind
      PROVE  /\ OfKind(kind, got, ip) = OfKind(kind, mail, ip)
             /\ \A u : About(kind, got, ip, u) = About(kind, mail, ip, u)
  BY <1>3 DEF OfKind, About
<1>5. ASSUME NEW ip, ip \notin UpIps(ifs), NEW kind, NEW u
      PROVE  About(kind, got, ip, u) = {}
  BY <1>3, <1>5 DEF OfKind, About
<1>6. ASSUME NEW ip \in Ips, NEW u \in Usns
      PROVE  heard'[ip][u] =
                IF ip \notin UpIps(ifs)
                THEN IF u \notin DOMAIN advs /\ heard[ip][u] # NoAdvert THEN Outdated
                     ELSE heard[ip][u]
                ELSE IF About("byebye", mail, ip, u) # {} THEN NoAdvert
                ELSE IF About("alive", mail, ip, u) # {} THEN Said(About("alive", mail, ip, u))
                ELSE heard[ip][u]
  <2>1. heard'[ip][u] =
           IF About("byebye", got, ip, u) # {} THEN NoAdvert
           ELSE IF About("alive", got, ip, u) # {} THEN Said(About("alive", got, ip, u))
           ELSE IF /\ ip \notin UpIps(ifs) /\ u \notin DOMAIN advs
                   /\ heard[ip][u] # NoAdvert THEN Outdated
           ELSE heard[ip][u]
    BY <1>1 DEF Received
  <2>2. CASE ip \in UpIps(ifs)
    BY <1>4, <2>1, <2>2
  <2>3. CASE ip \notin UpIps(ifs)
    BY <1>5, <2>1, <2>3
  <2> QED BY <2>2, <2>3
<1>7. ASSUME NEW ip \in Ips
      PROVE  asked'[ip] = IF ip \notin UpIps(ifs) THEN {}
                          ELSE asked[ip] \cup {m.packet.type : m \in OfKind("search", mail, ip)}
  BY <1>1, <1>4 DEF Received
<1>8. ASSUME NEW o
      PROVE  o \in owed' <=>
               /\ o \in owed \cup newly
               /\ o.to \in UpIps(ifs) /\ o.usn \in DOMAIN advs
               /\ \A ip \in Via[o.from] : ip \in UpIps(ifs) =>
                     /\ About("alive", mail, ip, o.usn) = {}
                     /\ \A m \in About("response", mail, ip, o.usn) : m.to # o.from
  <2>1. o \in owed' <=>
           /\ o \in owed \cup newly
           /\ o.to \in UpIps(ifs) /\ o.usn \in DOMAIN advs
           /\ \A ip \in Via[o.from] :
                 /\ About("alive", got, ip, o.usn) = {}
                 /\ \A m \in About("response", got, ip, o.usn) : m.to # o.from
    BY <1>1 DEF Received
  <2>2. ASSUME NEW ip
        PROVE  (/\ About("alive", got, ip, o.usn) = {}
                /\ \A m \in About("response", got, ip, o.usn) : m.to # o.from)
               <=> (ip \in UpIps(ifs) =>
                      /\ About("alive", mail, ip, o.usn) = {}
                      /\ \A m \in About("response", mail, ip, o.usn) : m.to # o.from)
    BY <1>4, <1>5
  <2> QED BY <2>1, <2>2
<1> QED BY <1>2, <1>6, <1>7, <1>8
-----------------------------------------------------------------------------
(* Types.                                                                  *)

\* The arrival of a search, in the terms of both owners of an engine.
Searching ==
    \E from \in Searchers, t \in Types \cup {All}, mx \in MaxWaits :
       \E to \in Via[from] : on_search(from, to, t, mx)

\* An event of the network, with any flags.
Event ==
    \E l \in Links :
       \/ (\E flags : on_new_link_event(l, flags)) \/ on_del_link_event(l)
       \/ \E ip \in Ips : on_new_addr_event(l, ip) \/ on_del_addr_event(l, ip)

\* The calls of an engine, and its steps: calls, and the passing of time.
Call == Event \/ Application \/ Searching \/ reset_refresh_timer \/ handle_timeout
Step == Call \/ Elapse

(***************************************************************************)
(* The events of the specification are such events, or are ignored.        *)
(***************************************************************************)
LEMMA NetworkEventIsEvent ==
  ASSUME NetworkEvent
  PROVE  Event \/ UNCHANGED vars
<1>1. PICK e \in NetworkEvents : on_network_event(e)
  BY DEF NetworkEvent
<1>2. /\ e.ix \in Links
      /\ e.type \in {"NewAddr", "DelAddr"} => e.addr \in Ips
  BY EngineAssumption DEF NetworkEvents
<1> QED BY <1>1, <1>2 DEF on_network_event, Event

(***************************************************************************)
(* Every step of the specification is such a step, or none.                *)
(***************************************************************************)
LEMMA NextIsStep ==
  ASSUME Next
  PROVE  Step \/ UNCHANGED vars
<1>1. CASE Datagram
  BY <1>1 DEF Datagram, receive_to, Step, Call, Searching
<1>2. CASE NetworkEvent
  BY <1>2, NetworkEventIsEvent DEF Step, Call
<1> QED BY <1>1, <1>2 DEF Next, Tick, Step, Call

(***************************************************************************)
(* What leaves the engine does not change the type of the network.         *)
(***************************************************************************)
LEMMA SendTypes ==
  ASSUME NEW mail, NEW ifs, NEW advs, NEW newly, Send(mail, ifs, advs, newly), losses \in Nat
  PROVE  losses' \in Nat /\ owed' \subseteq owed \cup newly
<1>1. PICK lost, got :
         /\ IsFiniteSet(lost) /\ losses' = losses + Cardinality(lost)
         /\ Received(got, ifs, advs, newly)
  BY DEF Send
<1>2. losses' \in Nat
  BY <1>1, FS_CardinalityType
<1>3. owed' \subseteq owed \cup newly
  BY <1>1 DEF Received
<1> QED BY <1>2, <1>3

(***************************************************************************)
(* An address is in use if an interface that is up has it.                 *)
(***************************************************************************)
LEMMA UpIpsMember ==
  ASSUME NEW ifs, NEW ip
  PROVE  ip \in UpIps(ifs) <=> \E l \in DOMAIN ifs : ifs[l].up /\ ip \in ifs[l].ips
BY DEF UpIps

(***************************************************************************)
(* The addresses in use are addresses.                                     *)
(***************************************************************************)
LEMMA UpIpsType ==
  ASSUME TypeOK
  PROVE  UpIps(interfaces) \subseteq Ips
BY DEF TypeOK, UpIps

(***************************************************************************)
(* The answer to a search is put off by MIN_DELAY, and by less than its MX *)
(* and than MAX_DELAY.                                                     *)
(***************************************************************************)
LEMMA DelayType ==
  ASSUME NEW mx \in MaxWaits, mx * SECOND # 0
  PROVE  /\ MaxDelay(mx) \in Nat /\ MaxDelay(mx) <= MAX_DELAY
         /\ Delay(mx) \in Int /\ Delay(mx) <= MaxDelay(mx) + MIN_DELAY
         /\ Delay(mx) >= MIN_DELAY
<1>1. mx * SECOND \in Nat
  BY EngineAssumption
<1>2. MaxDelay(mx) \in Nat \ {0} /\ MaxDelay(mx) <= MAX_DELAY
  <2> DEFINE n == mx * SECOND
  <2>1. n \in Nat \ {0} /\ MaxDelay(mx) = IF n > MAX_DELAY THEN MAX_DELAY ELSE n
    BY <1>1 DEF MaxDelay
  <2> HIDE DEF n
  <2> QED BY <2>1, EngineAssumption
<1>3. \A n \in Nat \ {0} : random_seed % n \in 0 .. n - 1
  BY TimerAssumption
<1> QED BY <1>2, <1>3, EngineAssumption DEF Delay

(***************************************************************************)
(* The periods of the refresh timer are natural numbers.                   *)
(***************************************************************************)
LEMMA PeriodType ==
  ASSUME NEW p \in 0 .. 3
  PROVE  Period(p) \in Nat /\ (p + 1) % 4 \in 0 .. 3
<1>1. RandomOffset(p) \in Nat
  <2> DEFINE byte == random_seed \div <<1, 256, 65536, 16777216>>[p + 1]
  <2>1. <<1, 256, 65536, 16777216>>[p + 1] \in Nat \ {0}
    OBVIOUS
  <2>2. byte % 256 \in Nat
    BY <2>1, TimerAssumption
  <2> HIDE DEF byte
  <2> QED BY <2>2, TimerAssumption DEF RandomOffset, byte
<1>2. Period(p) \in Nat
  BY <1>1, TimerAssumption DEF Period
<1> QED BY <1>2

(***************************************************************************)
(* Each step of the engine keeps the type invariant.                       *)
(***************************************************************************)
LEMMA TypingStep ==
  ASSUME TypeOK, Step
  PROVE  TypeOK'
<1> USE DEF TypeOK
<1>1. ASSUME NEW l \in Links, NEW flags, on_new_link_event(l, flags) PROVE TypeOK'
  <2>1. losses' \in Nat /\ owed' \subseteq owed
    <3>1. PICK mail : Send(mail, interfaces', advertisements, {})
      BY <1>1 DEF on_new_link_event, Quietly
    <3> QED BY <3>1, SendTypes
  <2>2. /\ interfaces' \in [DOMAIN interfaces' -> [ips : SUBSET Ips, up : BOOLEAN]]
        /\ DOMAIN interfaces' \subseteq Links
    <3>1. PICK up \in BOOLEAN :
             \/ l \in DOMAIN interfaces /\ interfaces' = [interfaces EXCEPT ![l].up = up]
             \/ interfaces' = [k \in DOMAIN interfaces \cup {l} |->
                                  IF k = l THEN [ips |-> {}, up |-> up] ELSE interfaces[k]]
      BY <1>1 DEF on_new_link_event
    <3>2. CASE l \in DOMAIN interfaces /\ interfaces' = [interfaces EXCEPT ![l].up = up]
      BY <3>2
    <3>3. CASE interfaces' = [k \in DOMAIN interfaces \cup {l} |->
                                 IF k = l THEN [ips |-> {}, up |-> up] ELSE interfaces[k]]
      BY <3>3
    <3> QED BY <3>1, <3>2, <3>3
  <2> QED BY <1>1, <2>1, <2>2 DEF on_new_link_event, timer
<1>2. ASSUME NEW l \in Links, on_del_link_event(l) PROVE TypeOK'
  <2>1. losses' \in Nat /\ owed' \subseteq owed
    BY <1>2, SendTypes DEF on_del_link_event, Quietly
  <2> QED BY <1>2, <2>1 DEF on_del_link_event, timer
<1>3. ASSUME NEW l \in Links, NEW ip \in Ips, on_new_addr_event(l, ip) PROVE TypeOK'
  <2>1. losses' \in Nat /\ owed' \subseteq owed
    BY <1>3, SendTypes DEF on_new_addr_event
  <2>2. /\ interfaces' \in [DOMAIN interfaces' -> [ips : SUBSET Ips, up : BOOLEAN]]
        /\ DOMAIN interfaces' \subseteq Links
    BY <1>3 DEF on_new_addr_event
  <2> QED BY <1>3, <2>1, <2>2 DEF on_new_addr_event, timer
<1>4. ASSUME NEW l \in Links, NEW ip \in Ips, on_del_addr_event(l, ip) PROVE TypeOK'
  <2>1. losses' \in Nat /\ owed' \subseteq owed
    BY <1>4, SendTypes DEF on_del_addr_event, Quietly
  <2>2. /\ interfaces' \in [DOMAIN interfaces' -> [ips : SUBSET Ips, up : BOOLEAN]]
        /\ DOMAIN interfaces' \subseteq Links
    BY <1>4 DEF on_del_addr_event
  <2> QED BY <1>4, <2>1, <2>2 DEF on_del_addr_event, timer
<1>5. ASSUME NEW t \in SearchTypes, subscribe(t) PROVE TypeOK'
  <2>1. losses' \in Nat /\ owed' \subseteq owed
    BY <1>5, SendTypes DEF subscribe
  <2> QED BY <1>5, <2>1 DEF subscribe, timer
<1>6. ASSUME NEW u \in Usns, NEW t \in Types, NEW url \in Locations, advertise(u, t, url)
      PROVE  TypeOK'
  <2>1. losses' \in Nat /\ owed' \subseteq owed
    BY <1>6, SendTypes DEF advertise
  <2>2. None \in Responses
    BY DEF None, Responses
  <2>3. /\ advertisements' \in [DOMAIN advertisements' ->
                                   [type : Types, location : Locations, response : Responses]]
        /\ DOMAIN advertisements' \subseteq Usns
    BY <1>6, <2>2 DEF advertise
  <2> QED BY <1>6, <2>1, <2>3 DEF advertise, timer
<1>7. ASSUME NEW u \in Usns, deadvertise(u) PROVE TypeOK'
  <2>1. losses' \in Nat /\ owed' \subseteq owed
    BY <1>7, SendTypes DEF deadvertise
  <2> QED BY <1>7, <2>1 DEF deadvertise, timer
<1>8. ASSUME Searching PROVE TypeOK'
  <2>1. PICK from \in Searchers, t \in Types \cup {All}, mx \in MaxWaits :
           \E to \in Via[from] : on_search(from, to, t, mx)
    BY <1>8 DEF Searching
  <2>2. PICK to \in Via[from] : on_search(from, to, t, mx)
    BY <2>1
  <2>3. to \in Ips
    BY EngineAssumption
  <2>4. CASE mx * SECOND = 0
    BY <2>2, <2>4 DEF on_search, timer, network
  <2>5. CASE mx * SECOND # 0
    <3>1. MaxDelay(mx) \in Nat /\ Delay(mx) \in Int
      BY <2>5, DelayType
    <3>2. PICK newly : /\ Send({}, interfaces, advertisements, newly)
                       /\ newly \subseteq [from : Searchers, to : Ips, usn : Usns,
                                           type : Types \cup {All}, by : Int]
      <4> DEFINE owing(u) == [from |-> from, to |-> to, usn |-> u, type |-> t,
                              by |-> MIN_DELAY
                                     + (IF u \in Pending THEN MAX_DELAY ELSE MaxDelay(mx))]
                 M == {u \in DOMAIN advertisements : target_match(t, advertisements[u].type)}
                 N == {v \in M : \A o \in owed :
                          <<o.from, o.to, o.usn, o.type>> # <<from, to, v, t>>}
      <4>1. Send({}, interfaces, advertisements, {owing(u) : u \in N})
        BY <2>2, <2>5 DEF on_search
      <4>2. \A u \in N : owing(u) \in [from : Searchers, to : Ips, usn : Usns,
                                       type : Types \cup {All}, by : Int]
        BY <2>3, <3>1, EngineAssumption
      <4> QED BY <4>1, <4>2
    <3>3. losses' \in Nat
          /\ owed' \subseteq [from : Searchers, to : Ips, usn : Usns,
                               type : Types \cup {All}, by : Int]
      BY <3>2, SendTypes
    <3>4. \A u \in DOMAIN advertisements :
             Rescheduled(advertisements[u].response, Delay(mx), from, to,
                         IF t = All THEN advertisements[u].type ELSE t) \in Responses
      BY <2>3, <3>1 DEF Rescheduled, Responses, Unicast, Multicast
    <3>5. /\ advertisements' \in [DOMAIN advertisements' ->
                                     [type : Types, location : Locations, response : Responses]]
          /\ DOMAIN advertisements' \subseteq Usns
      BY <2>2, <2>5, <3>4 DEF on_search
    <3> QED BY <2>2, <2>5, <3>3, <3>5 DEF on_search, timer
  <2> QED BY <2>4, <2>5
<1>9. ASSUME handle_timeout PROVE TypeOK'
  <2>1. losses' \in Nat /\ owed' \subseteq owed
    BY <1>9, SendTypes DEF handle_timeout
  <2>2. /\ advertisements' \in [DOMAIN advertisements' ->
                                   [type : Types, location : Locations, response : Responses]]
        /\ DOMAIN advertisements' \subseteq Usns
    <3>1. None \in Responses
      BY DEF None, Responses
    <3> QED BY <1>9, <3>1 DEF handle_timeout
  <2>3. next_salvo' \in Int /\ phase' \in 0 .. 3
    BY <1>9, PeriodType DEF handle_timeout, update_refresh, timer
  <2> QED BY <1>9, <2>1, <2>2, <2>3 DEF handle_timeout
<1>10. ASSUME Elapse PROVE TypeOK'
  <2>1. ASSUME NEW u \in Pending
        PROVE  [advertisements[u] EXCEPT !.response.at = @ - 1] \in
                  [type : Types, location : Locations, response : Responses]
    <3>1. advertisements[u].response \in Responses /\ advertisements[u].response.kind # "none"
      BY <2>1 DEF Pending
    <3>2. [advertisements[u].response EXCEPT !.at = @ - 1] \in Responses
      BY <3>1 DEF Responses
    <3> QED BY <2>1, <3>2 DEF Pending
  <2>2. /\ advertisements' \in [DOMAIN advertisements' ->
                                   [type : Types, location : Locations, response : Responses]]
        /\ DOMAIN advertisements' \subseteq Usns
    BY <1>10, <2>1 DEF Elapse
  <2>3. owed' \subseteq [from : Searchers, to : Ips, usn : Usns, type : Types \cup {All}, by : Int]
    BY <1>10 DEF Elapse
  <2> QED BY <1>10, <2>2, <2>3 DEF Elapse
<1>11. ASSUME reset_refresh_timer PROVE TypeOK'
  BY <1>11 DEF reset_refresh_timer, reset, engine, network
<1> QED BY <1>1, <1>2, <1>3, <1>4, <1>5, <1>6, <1>7, <1>8, <1>9, <1>10, <1>11
        DEF Step, Call, Event, Application
-----------------------------------------------------------------------------
(* What the peers know.                                                    *)

\* What the peers that are reached from ip know of u, if all goes well.
Understood(ip, u) ==
    IF u \in DOMAIN advertisements
    THEN ip \in UpIps(interfaces) => heard[ip][u] = Meant(u, ip)
    ELSE heard[ip][u] \in {NoAdvert, Outdated}

\* AnnouncedEverywhere, and what is not advertised is not known, or outdated,
\* through an address that is not in use either.
PeersKnow == losses = 0 => \A ip \in Ips, u \in Usns : Understood(ip, u)

\* A step does not change what the peers reached from ip should know of u.
Settled(ip, u) ==
    IF u \in DOMAIN advertisements
    THEN /\ u \in DOMAIN advertisements' /\ ip \in UpIps(interfaces)
         /\ advertisements'[u].type = advertisements[u].type
         /\ advertisements'[u].location = advertisements[u].location
    ELSE u \notin DOMAIN advertisements'

\* The notifications among mail say what is advertised in advs, and there is
\* no farewell to any of it.
Truthful(mail, advs) ==
    \A m \in mail :
       /\ m.packet.kind = "alive" =>
             /\ m.packet.usn \in DOMAIN advs
             /\ m.packet.type = advs[m.packet.usn].type
             /\ m.packet.location = rewrite_host(advs[m.packet.usn].location, m.ip)
       /\ m.packet.kind = "byebye" => m.packet.usn \notin DOMAIN advs

\* mail has a notification of u from every address in ips.
Covers(mail, u, ips) == \A ip \in ips : About("alive", mail, ip, u) # {}

(***************************************************************************)
(* A step that sends the truth, and sends it wherever something changed,   *)
(* keeps the peers informed.                                               *)
(***************************************************************************)
LEMMA Informed ==
  ASSUME TypeOK, PeersKnow, NEW mail, NEW advs, NEW newly,
         Send(mail, interfaces', advs, newly), DOMAIN advs = DOMAIN advertisements',
         Truthful(mail, advertisements'),
         \A ip \in Ips, u \in Usns :
            ip \in UpIps(interfaces') =>
               \/ Settled(ip, u)
               \/ About("alive", mail, ip, u) # {}
               \/ About("byebye", mail, ip, u) # {}
  PROVE  PeersKnow'
<1> SUFFICES ASSUME losses' = 0, NEW ip \in Ips, NEW u \in Usns
             PROVE  Understood(ip, u)'
  BY DEF PeersKnow
<1>1. /\ losses = 0
      /\ heard'[ip][u] =
            IF ip \notin UpIps(interfaces')
            THEN IF u \notin DOMAIN advs /\ heard[ip][u] # NoAdvert THEN Outdated
                 ELSE heard[ip][u]
            ELSE IF About("byebye", mail, ip, u) # {} THEN NoAdvert
            ELSE IF About("alive", mail, ip, u) # {} THEN Said(About("alive", mail, ip, u))
            ELSE heard[ip][u]
  BY Delivered DEF TypeOK
<1>2. CASE ip \notin UpIps(interfaces')
  BY <1>1, <1>2 DEF Understood
<1>3. CASE ip \in UpIps(interfaces') /\ About("byebye", mail, ip, u) # {}
  <2>1. u \notin DOMAIN advertisements'
    BY <1>3 DEF About, OfKind, Truthful
  <2> QED BY <1>1, <1>3, <2>1 DEF Understood
<1>4. CASE /\ ip \in UpIps(interfaces') /\ About("byebye", mail, ip, u) = {}
           /\ About("alive", mail, ip, u) # {}
  <2> DEFINE m == CHOOSE m \in About("alive", mail, ip, u) : TRUE
  <2>1. m \in About("alive", mail, ip, u)
    BY <1>4
  <2>2. Said(About("alive", mail, ip, u))
           = [type |-> m.packet.type, location |-> m.packet.location]
    BY DEF Said
  <2> HIDE DEF m
  <2>3. /\ u \in DOMAIN advertisements' /\ m.packet.type = advertisements'[u].type
        /\ m.packet.location = rewrite_host(advertisements'[u].location, ip)
    BY <2>1 DEF About, OfKind, Truthful
  <2> QED BY <1>1, <1>4, <2>2, <2>3 DEF Understood, Meant
<1>5. CASE /\ ip \in UpIps(interfaces') /\ About("byebye", mail, ip, u) = {}
           /\ About("alive", mail, ip, u) = {}
  <2>1. Understood(ip, u) /\ Settled(ip, u) /\ heard'[ip][u] = heard[ip][u]
    BY <1>1, <1>5 DEF PeersKnow
  <2> QED BY <2>1 DEF Understood, Settled, Meant
<1> QED BY <1>2, <1>3, <1>4, <1>5

(***************************************************************************)
(* The notifications of a resource say what is advertised, and are sent    *)
(* from each of the addresses.                                             *)
(***************************************************************************)
LEMMA NotifyOnSays ==
  ASSUME PacketsFit, NEW advs, NEW u \in Usns, u \in DOMAIN advs,
         advs[u].type \in Types, advs[u].location \in Locations, NEW ips \in SUBSET Ips
  PROVE  /\ Truthful(NotifyOn(u, advs[u], ips), advs)
         /\ Covers(NotifyOn(u, advs[u], ips), u, ips)
<1>1. \A ip \in ips :
         Notify(u, advs[u], ip) =
            [ip |-> ip, packet |-> [kind |-> "alive", type |-> advs[u].type, usn |-> u,
                                    location |-> rewrite_host(advs[u].location, ip)]]
  BY NotifySays
<1>2. ASSUME NEW m \in NotifyOn(u, advs[u], ips)
      PROVE  /\ m.packet.kind = "alive" /\ m.packet.usn = u
             /\ m.packet.type = advs[u].type
             /\ m.packet.location = rewrite_host(advs[u].location, m.ip)
  BY <1>1, <1>2 DEF NotifyOn
<1>3. Truthful(NotifyOn(u, advs[u], ips), advs)
  BY <1>2 DEF Truthful
<1>4. ASSUME NEW ip \in ips
      PROVE  Notify(u, advs[u], ip) \in About("alive", NotifyOn(u, advs[u], ips), ip, u)
  BY <1>1 DEF NotifyOn, About, OfKind
<1> QED BY <1>3, <1>4 DEF Covers

(***************************************************************************)
(* Likewise the farewells.                                                 *)
(***************************************************************************)
LEMMA ByeByeOnSays ==
  ASSUME PacketsFit, NEW u \in Usns, NEW type \in Types, NEW ips
  PROVE  /\ \A m \in ByeByeOn(u, type, ips) : m.packet.kind = "byebye" /\ m.packet.usn = u
         /\ \A ip \in ips : About("byebye", ByeByeOn(u, type, ips), ip, u) # {}
<1> DEFINE bye == Parsed.byebye[type][u]
<1>1. bye.kind = "byebye" /\ bye.usn = u
  <2>1. bye = [kind |-> "byebye", type |-> type, usn |-> u]
    BY ByeByeSays
  <2> HIDE DEF bye
  <2> QED BY <2>1
<1>2. ByeByeOn(u, type, ips) = {[ip |-> ip, packet |-> bye] : ip \in ips}
  BY DEF ByeByeOn, From
<1> HIDE DEF bye
<1>3. \A m \in ByeByeOn(u, type, ips) : m.packet.kind = "byebye" /\ m.packet.usn = u
  BY <1>1, <1>2
<1>4. ASSUME NEW ip \in ips
      PROVE  [ip |-> ip, packet |-> bye] \in About("byebye", ByeByeOn(u, type, ips), ip, u)
  BY <1>1, <1>2 DEF About, OfKind
<1> QED BY <1>3, <1>4

(***************************************************************************)
(* Searches announce nothing.                                              *)
(***************************************************************************)
LEMMA SearchOnSays ==
  ASSUME PacketsFit, NEW t \in Types \cup {All}, NEW ips, NEW advs
  PROVE  /\ Truthful(SearchOn(t, ips), advs)
         /\ \A ip \in ips : t \in {m.packet.type : m \in OfKind("search", SearchOn(t, ips), ip)}
<1>1. \A m \in SearchOn(t, ips) : m.packet.kind = "search"
  BY SearchSays DEF SearchOn, From
<1>2. ASSUME NEW ip \in ips
      PROVE  t \in {m.packet.type : m \in OfKind("search", SearchOn(t, ips), ip)}
  <2>1. From(ip, Parsed.search[t]) \in OfKind("search", SearchOn(t, ips), ip)
    BY SearchSays DEF SearchOn, From, OfKind
  <2>2. From(ip, Parsed.search[t]).packet.type = t
    BY SearchSays DEF From
  <2> QED BY <2>1, <2>2
<1> QED BY <1>1, <1>2 DEF Truthful

(***************************************************************************)
(* send_all (and refresh) announces everything, truthfully, and searches   *)
(* for everything that is subscribed to, from each of the addresses.       *)
(***************************************************************************)
LEMMA SendAllSays ==
  ASSUME PacketsFit, TypeOK, NEW ips \in SUBSET Ips
  PROVE  /\ Truthful(send_all(ips), advertisements)
         /\ \A u \in DOMAIN advertisements : Covers(send_all(ips), u, ips)
         /\ \A ip \in ips :
               LET types == {m.packet.type : m \in OfKind("search", send_all(ips), ip)}
               IN  All \in types \/ active_searches \subseteq types
<1> DEFINE T == IF All \in active_searches THEN {All} ELSE active_searches
<1>1. T \subseteq Types \cup {All}
  BY EngineAssumption DEF TypeOK
<1>2. \A m \in send_all(ips) :
         \/ \E t \in T : m \in SearchOn(t, ips)
         \/ \E u \in DOMAIN advertisements : m \in NotifyOn(u, advertisements[u], ips)
  BY DEF send_all, SearchAll, NotifyAll
<1>3. \A u \in DOMAIN advertisements :
         /\ Truthful(NotifyOn(u, advertisements[u], ips), advertisements)
         /\ Covers(NotifyOn(u, advertisements[u], ips), u, ips)
  BY NotifyOnSays DEF TypeOK
<1>4. \A t \in T :
         /\ Truthful(SearchOn(t, ips), advertisements)
         /\ \A ip \in ips : t \in {m.packet.type : m \in OfKind("search", SearchOn(t, ips), ip)}
  BY <1>1, SearchOnSays
<1>5. Truthful(send_all(ips), advertisements)
  BY <1>2, <1>3, <1>4 DEF Truthful
<1>6. ASSUME NEW u \in DOMAIN advertisements PROVE Covers(send_all(ips), u, ips)
  <2>1. NotifyOn(u, advertisements[u], ips) \subseteq send_all(ips)
    BY DEF send_all, NotifyAll
  <2> QED BY <1>3, <2>1 DEF Covers, About, OfKind
<1>7. ASSUME NEW ip \in ips, NEW t \in T
      PROVE  t \in {m.packet.type : m \in OfKind("search", send_all(ips), ip)}
  <2>1. SearchOn(t, ips) \subseteq send_all(ips)
    BY DEF send_all, SearchAll
  <2>2. t \in {m.packet.type : m \in OfKind("search", SearchOn(t, ips), ip)}
    BY <1>4
  <2> QED BY <2>1, <2>2 DEF OfKind
<1> QED BY <1>5, <1>6, <1>7

(***************************************************************************)
(* Likewise, a step that searches on each new address for everything, and  *)
(* on every address for what is new, keeps the peers asked.                *)
(***************************************************************************)
LEMMA Asked ==
  ASSUME TypeOK, TypeOK', SearchedEverywhere, NEW mail, NEW advs, NEW newly,
         Send(mail, interfaces', advs, newly),
         \A ip \in UpIps(interfaces') :
            LET types == {m.packet.type : m \in OfKind("search", mail, ip)} IN
            \/ ip \in UpIps(interfaces) /\ active_searches' \subseteq active_searches \cup types
            \/ All \in types \/ active_searches' \subseteq types
  PROVE  SearchedEverywhere'
<1> SUFFICES ASSUME losses' = 0, NEW ip \in UpIps(interfaces')
             PROVE  All \in asked'[ip] \/ active_searches' \subseteq asked'[ip]
  BY DEF SearchedEverywhere
<1> DEFINE types == {m.packet.type : m \in OfKind("search", mail, ip)}
<1>1. ip \in Ips
  BY UpIpsType, TypeOK' DEF TypeOK, UpIps
<1>2. losses = 0 /\ asked'[ip] = asked[ip] \cup types
  <2>1. /\ losses = 0
        /\ \A a \in Ips :
              asked'[a] = IF a \notin UpIps(interfaces') THEN {}
                          ELSE asked[a] \cup {m.packet.type : m \in OfKind("search", mail, a)}
    BY Delivered DEF TypeOK
  <2> QED BY <1>1, <2>1
<1>3. \/ ip \in UpIps(interfaces) /\ active_searches' \subseteq active_searches \cup types
      \/ All \in types \/ active_searches' \subseteq types
  OBVIOUS
<1> HIDE DEF types
<1> QED BY <1>2, <1>3 DEF SearchedEverywhere

\* What the peers know and have been asked.
Acquainted == PeersKnow /\ SearchedEverywhere

(***************************************************************************)
(* What a step must do if it leaves advertisements and subscriptions alone *)
(* and may bring addresses into use: announce and search there.            *)
(***************************************************************************)
LEMMA Introduced ==
  ASSUME TypeOK, TypeOK', Acquainted, NEW mail, NEW newly,
         Send(mail, interfaces', advertisements, newly),
         advertisements' = advertisements, active_searches' = active_searches,
         Truthful(mail, advertisements),
         \A ip \in UpIps(interfaces') : ip \notin UpIps(interfaces) =>
            /\ \A u \in DOMAIN advertisements : About("alive", mail, ip, u) # {}
            /\ LET types == {m.packet.type : m \in OfKind("search", mail, ip)}
               IN  All \in types \/ active_searches \subseteq types
  PROVE  Acquainted'
<1>1. ASSUME NEW ip \in Ips, NEW u \in Usns, ip \in UpIps(interfaces')
      PROVE  Settled(ip, u) \/ About("alive", mail, ip, u) # {}
  <2>1. CASE u \notin DOMAIN advertisements
    BY <2>1 DEF Settled
  <2>2. CASE u \in DOMAIN advertisements /\ ip \in UpIps(interfaces)
    BY <1>1, <2>2 DEF Settled
  <2>3. CASE u \in DOMAIN advertisements /\ ip \notin UpIps(interfaces)
    BY <1>1, <2>3
  <2> QED BY <2>1, <2>2, <2>3
<1>2. PeersKnow'
  BY <1>1, Informed DEF Acquainted
<1>3. SearchedEverywhere'
  BY Asked DEF Acquainted
<1> QED BY <1>2, <1>3 DEF Acquainted

(***************************************************************************)
(* Events of the network: interfaces and addresses that come and go.       *)
(***************************************************************************)
LEMMA EventInforms ==
  ASSUME PacketsFit, TypeOK, TypeOK', Acquainted, Event
  PROVE  Acquainted'
<1>0. Truthful({}, advertisements)
  BY DEF Truthful
<1>1. ASSUME NEW l \in Links, NEW flags, on_new_link_event(l, flags) PROVE Acquainted'
  <2>1. advertisements' = advertisements /\ active_searches' = active_searches
    BY <1>1 DEF on_new_link_event
  <2>2. CASE l \in DOMAIN interfaces
    <3>1. PICK up \in BOOLEAN :
             /\ interfaces' = [interfaces EXCEPT ![l].up = up]
             /\ Send(IF up /\ ~interfaces[l].up THEN send_all(interfaces[l].ips) ELSE {},
                     interfaces', advertisements, {})
      BY <1>1, <2>2 DEF on_new_link_event
    <3>2. interfaces[l] \in [ips : SUBSET Ips, up : BOOLEAN]
      BY <2>2 DEF TypeOK
    <3>3. CASE up /\ ~interfaces[l].up
      <4>1. UpIps(interfaces') \subseteq UpIps(interfaces) \cup interfaces[l].ips
        BY <2>2, <3>1 DEF TypeOK, UpIps
      <4>2. Send(send_all(interfaces[l].ips), interfaces', advertisements, {})
        BY <3>1, <3>3
      <4> QED BY <2>1, <3>2, <4>1, <4>2, SendAllSays, Introduced DEF Covers
    <3>4. CASE ~(up /\ ~interfaces[l].up)
      <4>1. UpIps(interfaces') \subseteq UpIps(interfaces)
        BY <2>2, <3>1, <3>4 DEF TypeOK, UpIps
      <4>2. Send({}, interfaces', advertisements, {})
        BY <3>1, <3>4
      <4> QED BY <1>0, <2>1, <4>1, <4>2, Introduced
    <3> QED BY <3>3, <3>4
  <2>3. CASE l \notin DOMAIN interfaces
    <3>1. PICK up \in BOOLEAN :
             interfaces' = [k \in DOMAIN interfaces \cup {l} |->
                              IF k = l THEN [ips |-> {}, up |-> up] ELSE interfaces[k]]
      BY <1>1, <2>3 DEF on_new_link_event
    <3>2. ASSUME NEW ip \in UpIps(interfaces') PROVE ip \in UpIps(interfaces)
      <4>1. PICK k \in DOMAIN interfaces' : interfaces'[k].up /\ ip \in interfaces'[k].ips
        BY UpIpsMember
      <4>2. k # l /\ k \in DOMAIN interfaces /\ interfaces'[k] = interfaces[k]
        BY <3>1, <4>1
      <4> QED BY <4>1, <4>2, UpIpsMember
    <3>3. Send({}, interfaces', advertisements, {})
      BY <1>1, <2>3 DEF on_new_link_event, Quietly
    <3> QED BY <1>0, <2>1, <3>2, <3>3, Introduced
  <2> QED BY <2>2, <2>3
<1>2. ASSUME NEW l \in Links, on_del_link_event(l) PROVE Acquainted'
  <2>1. UpIps(interfaces') \subseteq UpIps(interfaces)
    <3>1. /\ DOMAIN interfaces' \subseteq DOMAIN interfaces
          /\ \A k \in DOMAIN interfaces' : interfaces'[k] = interfaces[k]
      BY <1>2 DEF on_del_link_event
    <3>2. ASSUME NEW ip \in UpIps(interfaces') PROVE ip \in UpIps(interfaces)
      <4>1. PICK k \in DOMAIN interfaces' : interfaces'[k].up /\ ip \in interfaces'[k].ips
        BY UpIpsMember
      <4> QED BY <3>1, <4>1, UpIpsMember
    <3> QED BY <3>2
  <2>2. Send({}, interfaces', advertisements, {})
    BY <1>2 DEF on_del_link_event, Quietly
  <2> QED BY <1>0, <1>2, <2>1, <2>2, Introduced DEF on_del_link_event
<1>3. ASSUME NEW l \in Links, NEW ip \in Ips, on_new_addr_event(l, ip) PROVE Acquainted'
  <2>1. interfaces[l] \in [ips : SUBSET Ips, up : BOOLEAN]
    BY <1>3 DEF TypeOK, on_new_addr_event
  <2>2. CASE interfaces[l].up
    <3>1. UpIps(interfaces') \subseteq UpIps(interfaces) \cup {ip}
      BY <1>3 DEF TypeOK, UpIps, on_new_addr_event
    <3>2. Send(send_all({ip}), interfaces', advertisements, {})
      BY <1>3, <2>2 DEF on_new_addr_event
    <3>3. {ip} \in SUBSET Ips
      OBVIOUS
    <3> QED BY <1>3, <3>1, <3>2, <3>3, SendAllSays, Introduced DEF Covers, on_new_addr_event
  <2>3. CASE ~interfaces[l].up
    <3>1. UpIps(interfaces') \subseteq UpIps(interfaces)
      BY <1>3, <2>3 DEF TypeOK, UpIps, on_new_addr_event
    <3>2. Send({}, interfaces', advertisements, {})
      BY <1>3, <2>3 DEF on_new_addr_event
    <3> QED BY <1>0, <1>3, <3>1, <3>2, Introduced DEF on_new_addr_event
  <2> QED BY <2>1, <2>2, <2>3
<1>4. ASSUME NEW l \in Links, NEW ip \in Ips, on_del_addr_event(l, ip) PROVE Acquainted'
  <2>1. UpIps(interfaces') \subseteq UpIps(interfaces)
    BY <1>4 DEF TypeOK, UpIps, on_del_addr_event
  <2>2. Send({}, interfaces', advertisements, {})
    BY <1>4 DEF on_del_addr_event, Quietly
  <2> QED BY <1>0, <1>4, <2>1, <2>2, Introduced DEF on_del_addr_event
<1> QED BY <1>1, <1>2, <1>3, <1>4 DEF Event

(***************************************************************************)
(* The packets of a handle_timeout: the refresh, and the answers that are  *)
(* due.                                                                    *)
(***************************************************************************)
LEMMA TimeoutSays ==
  ASSUME PacketsFit, TypeOK
  PROVE  Truthful(Refreshed \cup UNION {Answer(u) : u \in Due}, advertisements)
<1>1. Truthful(Refreshed, advertisements)
  <2>1. Refresh = send_all(UpIps(interfaces))
    BY DEF Refresh, send_all
  <2>2. Truthful(Refresh, advertisements) /\ Truthful({}, advertisements)
    BY <2>1, UpIpsType, SendAllSays DEF Truthful
  <2> QED BY <2>2 DEF Refreshed
<1>2. ASSUME NEW u \in Due PROVE Truthful(Answer(u), advertisements)
  <2>1. u \in Usns /\ u \in DOMAIN advertisements
    BY DEF Due, Pending, TypeOK
  <2>2. /\ advertisements[u].type \in Types /\ advertisements[u].location \in Locations
        /\ advertisements[u].response \in Responses
        /\ advertisements[u].response.kind # "none"
    BY <2>1 DEF Due, Pending, TypeOK
  <2>3. CASE advertisements[u].response.kind = "multicast"
    BY <2>1, <2>2, <2>3, UpIpsType, NotifyOnSays DEF Answer
  <2>4. CASE advertisements[u].response.kind # "multicast"
    <3> DEFINE r == advertisements[u].response
               url == rewrite_host(advertisements[u].location, r.to)
    <3>1. r.type \in Types /\ r.to \in Ips
      BY <2>2, <2>4 DEF Responses
    <3>2. url \in Urls
      BY <2>2, <3>1 DEF Urls
    <3>3. Parsed.response[r.type][u][url].kind = "response"
      <4> HIDE DEF r, url
      <4> DEFINE type == r.type
      <4>1. type \in Types
        BY <3>1
      <4> HIDE DEF type
      <4>2. Parsed.response[type][u][url]
               = [kind |-> "response", type |-> type, usn |-> u, location |-> url]
        BY <2>1, <3>2, <4>1, ResponseSays
      <4> QED BY <4>2 DEF type
    <3>4. Answer(u) = {Response(u, advertisements[u], r)}
      BY <2>4 DEF Answer
    <3>5. Response(u, advertisements[u], r).packet.kind = "response"
      BY <3>3 DEF Response
    <3> QED BY <3>4, <3>5 DEF Truthful
  <2> QED BY <2>3, <2>4
<1> QED BY <1>1, <1>2 DEF Truthful

(***************************************************************************)
(* Each step of the engine keeps the peers informed and asked.             *)
(***************************************************************************)
LEMMA AcquaintedStep ==
  ASSUME PacketsFit, TypeOK, TypeOK', Acquainted, Step
  PROVE  Acquainted'
<1>1. CASE Event
  BY <1>1, EventInforms
<1>2. ASSUME NEW t \in SearchTypes, subscribe(t) PROVE Acquainted'
  <2>1. /\ interfaces' = interfaces /\ advertisements' = advertisements
        /\ active_searches' = active_searches \cup {t}
        /\ Send(SearchOn(t, UpIps(interfaces)), interfaces', advertisements, {})
    BY <1>2 DEF subscribe
  <2>2. t \in Types \cup {All}
    BY EngineAssumption
  <2>3. \A ip \in UpIps(interfaces') : \A u : Settled(ip, u)
    BY <2>1 DEF Settled
  <2>4. PeersKnow'
    BY <2>1, <2>2, <2>3, SearchOnSays, Informed DEF Acquainted
  <2>5. SearchedEverywhere'
    <3>1. \A ip \in UpIps(interfaces') :
             t \in {m.packet.type : m \in OfKind("search", SearchOn(t, UpIps(interfaces)), ip)}
      BY <2>1, <2>2, SearchOnSays
    <3>2. \A ip \in UpIps(interfaces') :
             /\ ip \in UpIps(interfaces)
             /\ active_searches' \subseteq active_searches \cup
                   {m.packet.type : m \in OfKind("search", SearchOn(t, UpIps(interfaces)), ip)}
      BY <2>1, <3>1
    <3> QED BY <2>1, <3>2, Asked DEF Acquainted
  <2> QED BY <2>4, <2>5 DEF Acquainted
<1>3. ASSUME NEW u \in Usns, NEW t \in Types, NEW url \in Locations, advertise(u, t, url)
      PROVE  Acquainted'
  <2> DEFINE mail == NotifyOn(u, advertisements'[u], UpIps(interfaces))
  <2>1. /\ interfaces' = interfaces /\ active_searches' = active_searches
        /\ Send(mail, interfaces', advertisements', {})
        /\ u \in DOMAIN advertisements'
        /\ advertisements'[u].type \in Types /\ advertisements'[u].location \in Locations
        /\ \A v : v # u => /\ v \in DOMAIN advertisements' <=> v \in DOMAIN advertisements
                           /\ v \in DOMAIN advertisements => advertisements'[v] = advertisements[v]
    BY <1>3 DEF advertise
  <2>2. Truthful(mail, advertisements') /\ Covers(mail, u, UpIps(interfaces))
    BY <2>1, UpIpsType, NotifyOnSays
  <2>3. \A ip \in UpIps(interfaces') : \A v : v # u => Settled(ip, v)
    BY <2>1 DEF Settled
  <2> HIDE DEF mail
  <2>4. PeersKnow'
    BY <2>1, <2>2, <2>3, Informed DEF Acquainted, Covers
  <2>5. SearchedEverywhere'
    BY <2>1, Asked DEF Acquainted
  <2> QED BY <2>4, <2>5 DEF Acquainted
<1>4. ASSUME NEW u \in Usns, deadvertise(u) PROVE Acquainted'
  <2> DEFINE mail == ByeByeOn(u, advertisements[u].type, UpIps(interfaces))
  <2>1. /\ interfaces' = interfaces /\ active_searches' = active_searches
        /\ Send(mail, interfaces', advertisements', {})
        /\ u \in DOMAIN advertisements /\ u \notin DOMAIN advertisements'
        /\ \A v : v # u => /\ v \in DOMAIN advertisements' <=> v \in DOMAIN advertisements
                           /\ v \in DOMAIN advertisements => advertisements'[v] = advertisements[v]
    BY <1>4 DEF deadvertise
  <2>2. advertisements[u].type \in Types
    BY <2>1 DEF TypeOK
  <2>3. \A m \in mail : m.packet.kind = "byebye" /\ m.packet.usn = u
    BY <2>2, ByeByeOnSays
  <2>4. \A ip \in UpIps(interfaces) : About("byebye", mail, ip, u) # {}
    BY <2>2, ByeByeOnSays
  <2>5. \A ip \in UpIps(interfaces') : \A v : v # u => Settled(ip, v)
    BY <2>1 DEF Settled
  <2> HIDE DEF mail
  <2>6. Truthful(mail, advertisements')
    BY <2>1, <2>3 DEF Truthful
  <2>7. PeersKnow'
    BY <2>1, <2>4, <2>5, <2>6, Informed DEF Acquainted
  <2>8. SearchedEverywhere'
    BY <2>1, Asked DEF Acquainted
  <2> QED BY <2>7, <2>8 DEF Acquainted
<1>5. ASSUME UNCHANGED <<interfaces, active_searches>>,
             DOMAIN advertisements' = DOMAIN advertisements,
             \A u \in DOMAIN advertisements :
                /\ advertisements'[u].type = advertisements[u].type
                /\ advertisements'[u].location = advertisements[u].location,
             \/ UNCHANGED <<heard, asked, losses>>
             \/ \E mail, newly : /\ Send(mail, interfaces, advertisements, newly)
                                 /\ Truthful(mail, advertisements)
      PROVE  Acquainted'
  <2>1. \A ip \in UpIps(interfaces') : \A u : Settled(ip, u)
    BY <1>5 DEF Settled
  <2>2. CASE UNCHANGED <<heard, asked, losses>>
    <3>1. \A ip, u : Understood(ip, u) => Understood(ip, u)'
      BY <1>5, <2>2 DEF Understood, Meant
    <3> QED BY <1>5, <2>2, <3>1 DEF Acquainted, PeersKnow, SearchedEverywhere
  <2>3. CASE \E mail, newly : /\ Send(mail, interfaces, advertisements, newly)
                              /\ Truthful(mail, advertisements)
    <3>1. PICK mail, newly : /\ Send(mail, interfaces', advertisements, newly)
                             /\ Truthful(mail, advertisements)
      BY <1>5, <2>3
    <3>2. Truthful(mail, advertisements')
      BY <1>5, <3>1 DEF Truthful
    <3>3. PeersKnow'
      BY <1>5, <2>1, <3>1, <3>2, Informed DEF Acquainted
    <3>4. SearchedEverywhere'
      BY <1>5, <3>1, Asked DEF Acquainted
    <3> QED BY <3>3, <3>4 DEF Acquainted
  <2> QED BY <1>5, <2>2, <2>3
<1>6. CASE Searching
  <2>1. PICK from, to, t, mx : on_search(from, to, t, mx)
    BY <1>6 DEF Searching
  <2>2. CASE mx * SECOND = 0
    BY <1>5, <2>1, <2>2 DEF on_search, network
  <2>3. CASE mx * SECOND # 0
    <3>1. \E newly : Send({}, interfaces, advertisements, newly)
      BY <2>1, <2>3 DEF on_search
    <3>2. Truthful({}, advertisements)
      BY DEF Truthful
    <3>3. /\ UNCHANGED <<interfaces, active_searches>>
          /\ DOMAIN advertisements' = DOMAIN advertisements
          /\ \A u \in DOMAIN advertisements :
                /\ advertisements'[u].type = advertisements[u].type
                /\ advertisements'[u].location = advertisements[u].location
      BY <2>1, <2>3 DEF on_search, TypeOK
    <3> QED BY <1>5, <3>1, <3>2, <3>3
  <2> QED BY <2>2, <2>3
<1>7. CASE handle_timeout
  <2>1. /\ UNCHANGED <<interfaces, active_searches>>
        /\ DOMAIN advertisements' = DOMAIN advertisements
        /\ \A u \in DOMAIN advertisements :
              /\ advertisements'[u].type = advertisements[u].type
              /\ advertisements'[u].location = advertisements[u].location
    BY <1>7 DEF handle_timeout, TypeOK
  <2>2. Send(Refreshed \cup UNION {Answer(u) : u \in Due}, interfaces, advertisements, {})
    BY <1>7 DEF handle_timeout
  <2> QED BY <1>5, <2>1, <2>2, TimeoutSays
<1>8. CASE Elapse
  <2>1. /\ UNCHANGED <<interfaces, active_searches, heard, asked, losses>>
        /\ DOMAIN advertisements' = DOMAIN advertisements
        /\ \A u \in DOMAIN advertisements :
              /\ advertisements'[u].type = advertisements[u].type
              /\ advertisements'[u].location = advertisements[u].location
    BY <1>8 DEF Elapse, TypeOK
  <2> QED BY <1>5, <2>1
<1>9. CASE reset_refresh_timer
  BY <1>5, <1>9 DEF reset_refresh_timer, engine, network
<1> QED BY <1>1, <1>2, <1>3, <1>4, <1>6, <1>7, <1>8, <1>9 DEF Step, Call, Application

(***************************************************************************)
(* The type invariant of the engine.                                       *)
(***************************************************************************)
THEOREM Typing == Spec => []TypeOK
<1>1. Init => TypeOK
  BY DEF Init, InitWith, Empty, new, TypeOK
<1>2. TypeOK /\ [Next]_vars => TypeOK'
  <2> SUFFICES ASSUME TypeOK, [Next]_vars PROVE TypeOK'
    OBVIOUS
  <2>1. CASE Step
    BY <2>1, TypingStep
  <2>2. CASE UNCHANGED vars
    BY <2>2 DEF vars, engine, timer, network, TypeOK
  <2> QED BY <2>1, <2>2, NextIsStep
<1> QED BY <1>1, <1>2, PTL DEF Spec

(***************************************************************************)
(* The peers are informed and asked, always.                               *)
(***************************************************************************)
LEMMA AcquaintedAlways ==
  ASSUME PacketsFit
  PROVE  Spec => []Acquainted
<1>1. Init => Acquainted
  <2> SUFFICES ASSUME Init PROVE Acquainted
    OBVIOUS
  <2>1. UpIps(interfaces) = {}
    BY DEF Init, InitWith, Empty, UpIps
  <2> QED BY <2>1 DEF Init, InitWith, Acquainted, PeersKnow, Understood, SearchedEverywhere
<1>2. TypeOK /\ TypeOK' /\ Acquainted /\ [Next]_vars => Acquainted'
  <2> SUFFICES ASSUME TypeOK, TypeOK', Acquainted, [Next]_vars PROVE Acquainted'
    OBVIOUS
  <2>1. CASE Step
    BY <2>1, AcquaintedStep
  <2>2. CASE UNCHANGED vars
    BY <2>2 DEF vars, engine, network, Acquainted, PeersKnow, Understood, Meant, SearchedEverywhere
  <2> QED BY <2>1, <2>2, NextIsStep
<1> QED BY <1>1, <1>2, Typing, PTL DEF Spec

(***************************************************************************)
(* Every peer that the engine can reach knows what is advertised, and      *)
(* believes in nothing else but, perhaps, what was withdrawn while our     *)
(* address was not in use, for any interfaces, addresses and resources:    *)
(* on_new_link_event, on_new_addr_event, advertise, deadvertise and        *)
(* handle_timeout send what it takes, in whatever order they come, if the  *)
(* messages fit their buffer and none is lost.                             *)
(***************************************************************************)
THEOREM Announced == PacketsFit => (Spec => []AnnouncedEverywhere)
<1> SUFFICES ASSUME PacketsFit PROVE Spec => []AnnouncedEverywhere
  OBVIOUS
<1>1. TypeOK /\ Acquainted => AnnouncedEverywhere
  BY UpIpsType DEF Acquainted, PeersKnow, Understood, AnnouncedEverywhere
<1> QED BY <1>1, AcquaintedAlways, Typing, PTL

(***************************************************************************)
(* Everything that is subscribed to has been searched for on every address *)
(* in use (subscribe, on_new_link_event, on_new_addr_event), under the     *)
(* same conditions.                                                        *)
(***************************************************************************)
THEOREM Searched == PacketsFit => (Spec => []SearchedEverywhere)
<1> SUFFICES ASSUME PacketsFit PROVE Spec => []SearchedEverywhere
  OBVIOUS
<1>1. Acquainted => SearchedEverywhere
  BY DEF Acquainted
<1> QED BY <1>1, AcquaintedAlways, PTL

(***************************************************************************)
(* An interface is listed only while the socket is in its multicast group, *)
(* for any interfaces: on_new_link_event joins before it inserts, and      *)
(* on_del_link_event removes the interface even if it cannot leave.        *)
(***************************************************************************)
THEOREM Membership == Spec => []ListedAreJoined
<1>1. Init => ListedAreJoined
  BY DEF Init, InitWith, Empty, ListedAreJoined
<1>2. ListedAreJoined /\ [Next]_vars => ListedAreJoined'
  <2> SUFFICES ASSUME ListedAreJoined, [Next]_vars PROVE ListedAreJoined'
    OBVIOUS
  <2>1. CASE UNCHANGED <<interfaces, groups>>
    BY <2>1 DEF ListedAreJoined
  <2>2. CASE Event
    <3>1. PICK l \in Links :
             \/ (\E flags : on_new_link_event(l, flags)) \/ on_del_link_event(l)
             \/ \E ip \in Ips : on_new_addr_event(l, ip) \/ on_del_addr_event(l, ip)
      BY <2>2 DEF Event
    <3>2. CASE \E flags : on_new_link_event(l, flags)
      BY <3>2 DEF on_new_link_event, join_multicast_group, ListedAreJoined
    <3>3. CASE on_del_link_event(l)
      BY <3>3 DEF on_del_link_event, leave_multicast_group, ListedAreJoined
    <3>4. CASE \E ip \in Ips : on_new_addr_event(l, ip) \/ on_del_addr_event(l, ip)
      BY <3>4 DEF on_new_addr_event, on_del_addr_event, ListedAreJoined
    <3> QED BY <3>1, <3>2, <3>3, <3>4
  <2>3. CASE Application
    BY <2>1, <2>3 DEF Application, subscribe, advertise, deadvertise
  <2>4. CASE Searching
    BY <2>1, <2>4 DEF Searching, on_search, engine
  <2>5. CASE reset_refresh_timer \/ handle_timeout \/ Elapse
    BY <2>1, <2>5 DEF reset_refresh_timer, handle_timeout, Elapse, engine
  <2>6. CASE UNCHANGED vars
    BY <2>1, <2>6 DEF vars, engine
  <2> QED BY <2>2, <2>3, <2>4, <2>5, <2>6, NextIsStep DEF Step, Call
<1> QED BY <1>1, <1>2, PTL DEF Spec
-----------------------------------------------------------------------------
(* Searches and their answers.                                             *)

\* No searcher is on two of our links.
OneWay == \A s \in Searchers : \A a, b \in Via[s] : a = b

Answering(u) == advertisements[u].response

\* An answer leaves by an address that the searcher can be reached from, and
\* is not further off than the longest delay.
AnswersOK ==
    \A u \in Pending :
       /\ Answering(u).at <= MAX_DELAY + MIN_DELAY
       /\ Answering(u).kind = "unicast" => Answering(u).to \in Via[Answering(u).from]

\* NoSearchForgotten, and the answer comes in time.
Scheduled(o) ==
    /\ o.usn \in DOMAIN advertisements /\ o.to \in UpIps(interfaces) /\ o.to \in Via[o.from]
    /\ \/ Answering(o.usn).kind = "multicast"
       \/ Answering(o.usn).kind = "unicast" /\ Answering(o.usn).from = o.from
    /\ Answering(o.usn).at <= o.by
AllScheduled == losses = 0 => \A o \in owed : Scheduled(o)

(***************************************************************************)
(* The answers that are pending stay in order.                             *)
(***************************************************************************)
LEMMA AnswersStep ==
  ASSUME TypeOK, TypeOK', AnswersOK, Step
  PROVE  AnswersOK'
<1>1. CASE UNCHANGED advertisements
  BY <1>1 DEF AnswersOK, Answering, Pending
<1>2. ASSUME NEW u, NEW t, NEW url, advertise(u, t, url) PROVE AnswersOK'
  BY <1>2 DEF advertise, None, AnswersOK, Answering, Pending
<1>3. ASSUME NEW u, deadvertise(u) PROVE AnswersOK'
  BY <1>3 DEF deadvertise, AnswersOK, Answering, Pending
<1>4. CASE Searching
  <2>1. PICK from \in Searchers, t \in Types \cup {All}, mx \in MaxWaits :
           \E to \in Via[from] : on_search(from, to, t, mx)
    BY <1>4 DEF Searching
  <2>2. PICK to \in Via[from] : on_search(from, to, t, mx)
    BY <2>1
  <2>3. CASE mx * SECOND = 0
    BY <1>1, <2>2, <2>3 DEF on_search
  <2>4. CASE mx * SECOND # 0
    <3>1. Delay(mx) \in Int /\ Delay(mx) <= MAX_DELAY + MIN_DELAY
      BY <2>4, DelayType, EngineAssumption
    <3>2. DOMAIN advertisements' = DOMAIN advertisements
      BY <2>2, <2>4 DEF on_search
    <3>3. ASSUME NEW u \in DOMAIN advertisements
          PROVE  \/ Answering(u)' = Answering(u)
                 \/ \E type : Answering(u)' =
                                Rescheduled(Answering(u), Delay(mx), from, to, type)
      BY <2>2, <2>4 DEF on_search, Answering, TypeOK
    <3>4. ASSUME NEW u \in Pending'
          PROVE  /\ Answering(u)'.at <= MAX_DELAY + MIN_DELAY
                 /\ Answering(u)'.kind = "unicast" =>
                       Answering(u)'.to \in Via[Answering(u)'.from]
      <4>1. u \in DOMAIN advertisements /\ Answering(u)'.kind # "none"
        BY <3>2 DEF Pending, Answering
      <4>2. CASE Answering(u)' = Answering(u)
        BY <4>1, <4>2 DEF AnswersOK, Pending, Answering
      <4>3. ASSUME NEW type,
                   Answering(u)' = Rescheduled(Answering(u), Delay(mx), from, to, type)
            PROVE  /\ Answering(u)'.at <= MAX_DELAY + MIN_DELAY
                   /\ Answering(u)'.kind = "unicast" =>
                         Answering(u)'.to \in Via[Answering(u)'.from]
        <5>1. CASE Answering(u).kind = "none"
          BY <3>1, <4>3, <5>1 DEF Rescheduled, Unicast
        <5>2. CASE Answering(u).kind # "none"
          <6>1. u \in Pending
            BY <4>1, <5>2 DEF Pending, Answering
          <6>2. CASE Answering(u).kind = "unicast" /\ Answering(u).from # from
            BY <4>3, <6>1, <6>2 DEF AnswersOK, Rescheduled, Multicast
          <6>3. CASE ~(Answering(u).kind = "unicast" /\ Answering(u).from # from)
            BY <4>3, <5>2, <6>1, <6>3 DEF AnswersOK, Rescheduled
          <6> QED BY <6>2, <6>3
        <5> QED BY <5>1, <5>2
      <4> QED BY <3>3, <4>1, <4>2, <4>3
    <3> QED BY <3>4 DEF AnswersOK
  <2> QED BY <2>3, <2>4
<1>5. CASE handle_timeout
  BY <1>5 DEF handle_timeout, None, AnswersOK, Answering, Pending, TypeOK
<1>6. CASE Elapse
  <2>1. DOMAIN advertisements' = DOMAIN advertisements
    BY <1>6 DEF Elapse
  <2>2. ASSUME NEW u \in Pending
        PROVE  Answering(u)' = [Answering(u) EXCEPT !.at = @ - 1]
    BY <1>6 DEF Elapse, Pending, Answering, TypeOK
  <2>3. ASSUME NEW u \in Pending
        PROVE  /\ Answering(u)'.at = Answering(u).at - 1 /\ Answering(u).at \in Int
               /\ Answering(u)'.kind = Answering(u).kind
               /\ Answering(u).kind = "unicast" => /\ Answering(u)'.to = Answering(u).to
                                                   /\ Answering(u)'.from = Answering(u).from
    <3>1. Answering(u) \in Responses /\ Answering(u).kind # "none"
      BY DEF Pending, Answering, TypeOK
    <3> QED BY <2>2, <3>1 DEF Responses
  <2>4. Pending' = Pending
    <3>1. ASSUME NEW u \in DOMAIN advertisements, u \notin Pending
          PROVE  u \notin Pending'
      BY <1>6, <3>1 DEF Elapse, Pending
    <3> QED BY <2>1, <2>3, <3>1 DEF Pending, Answering
  <2> QED BY <2>3, <2>4, EngineAssumption DEF AnswersOK
<1> QED BY <1>1, <1>2, <1>3, <1>4, <1>5, <1>6
        DEF Step, Call, Event, Application, on_new_link_event, on_del_link_event,
            on_new_addr_event, on_del_addr_event, subscribe, reset_refresh_timer, engine

(***************************************************************************)
(* A search that is still owed an answer after a step was owed one before, *)
(* or has just come in, and nothing was sent that reaches the searcher.    *)
(***************************************************************************)
LEMMA StillOwed ==
  ASSUME TypeOK, AllScheduled, losses' = 0, NEW mail, NEW ifs, NEW advs, NEW newly,
         Send(mail, ifs, advs, newly), NEW o \in owed'
  PROVE  /\ losses = 0
         /\ o \in owed \cup newly /\ o.to \in UpIps(ifs) /\ o.usn \in DOMAIN advs
         /\ \A ip \in Via[o.from] : ip \in UpIps(ifs) =>
               /\ About("alive", mail, ip, o.usn) = {}
               /\ \A m \in About("response", mail, ip, o.usn) : m.to # o.from
         /\ o \in owed => Scheduled(o)
<1>1. losses \in Nat
  BY DEF TypeOK
<1>2. /\ losses = 0
      /\ \A p : p \in owed' <=>
            /\ p \in owed \cup newly
            /\ p.to \in UpIps(ifs) /\ p.usn \in DOMAIN advs
            /\ \A ip \in Via[p.from] : ip \in UpIps(ifs) =>
                  /\ About("alive", mail, ip, p.usn) = {}
                  /\ \A m \in About("response", mail, ip, p.usn) : m.to # p.from
  BY <1>1, Delivered
<1>3. o \in owed => Scheduled(o)
  BY <1>2 DEF AllScheduled
<1> QED BY <1>2, <1>3

(***************************************************************************)
(* A search arrives: its answer is scheduled, and those of the others stay *)
(* scheduled.                                                              *)
(***************************************************************************)
LEMMA SearchScheduled ==
  ASSUME TypeOK, AnswersOK, AllScheduled, Searching
  PROVE  AllScheduled'
<1> SUFFICES ASSUME losses' = 0, NEW o \in owed' PROVE Scheduled(o)'
  BY DEF AllScheduled
<1>1. PICK from \in Searchers, t \in Types \cup {All}, mx \in MaxWaits :
         \E to \in Via[from] : on_search(from, to, t, mx)
  BY DEF Searching
<1>2. PICK to \in Via[from] : on_search(from, to, t, mx)
  BY <1>1
<1>3. CASE mx * SECOND = 0
  BY <1>2, <1>3 DEF on_search, network, AllScheduled, Scheduled, Answering
<1>4. CASE mx * SECOND # 0
  <2> DEFINE M == {u \in DOMAIN advertisements : target_match(t, advertisements[u].type)}
             when == Delay(mx)
             owing(u) == [from |-> from, to |-> to, usn |-> u, type |-> t,
                          by |-> MIN_DELAY
                                 + (IF u \in Pending THEN MAX_DELAY ELSE MaxDelay(mx))]
             N == {v \in M : \A p \in owed :
                      <<p.from, p.to, p.usn, p.type>> # <<from, to, v, t>>}
  <2>1. Send({}, interfaces, advertisements, {owing(u) : u \in N})
    BY <1>2, <1>4 DEF on_search
  <2>2. /\ interfaces' = interfaces /\ DOMAIN advertisements' = DOMAIN advertisements
        /\ \A u \in DOMAIN advertisements :
              IF u \in M
              THEN \E type : Answering(u)' = Rescheduled(Answering(u), when, from, to, type)
              ELSE Answering(u)' = Answering(u)
    BY <1>2, <1>4 DEF on_search, Answering, TypeOK
  <2>3. when \in Int /\ when <= MaxDelay(mx) + MIN_DELAY /\ MaxDelay(mx) \in Nat
    BY <1>4, DelayType
  <2>4. ASSUME NEW u \in M
        PROVE  \/ Answering(u)'.kind = "multicast"
               \/ Answering(u)'.kind = "unicast" /\ Answering(u)'.from = from
    <3>1. Answering(u) \in Responses
      BY DEF Answering, TypeOK
    <3>2. PICK type : Answering(u)' = Rescheduled(Answering(u), when, from, to, type)
      BY <2>2
    <3> QED BY <3>1, <3>2 DEF Rescheduled, Responses, Unicast, Multicast
  <2>5. ASSUME NEW u \in Pending
        PROVE  /\ Answering(u)'.at = Answering(u).at
               /\ \/ Answering(u)'.kind = "multicast"
                  \/ Answering(u)' = Answering(u)
    <3>1. u \in DOMAIN advertisements /\ Answering(u).kind # "none"
      BY DEF Pending, Answering
    <3> QED BY <2>2, <3>1 DEF Rescheduled, Multicast
  <2>6. ASSUME NEW u \in DOMAIN advertisements \ Pending, u \in M
        PROVE  Answering(u)'.at = when
    <3>1. Answering(u).kind = "none"
      BY <2>6 DEF Pending, Answering
    <3> QED BY <2>2, <2>6, <3>1 DEF Rescheduled, Unicast
  <2>7. /\ losses = 0 /\ o \in owed \cup {owing(u) : u \in N}
        /\ o.to \in UpIps(interfaces) /\ o.usn \in DOMAIN advertisements
        /\ o \in owed => Scheduled(o)
    BY <2>1, StillOwed
  <2>8. CASE o \in owed
    <3>1. Scheduled(o) /\ o.usn \in Pending
      BY <2>7, <2>8 DEF Scheduled, Pending, Answering
    <3> QED BY <2>2, <2>5, <3>1 DEF Scheduled
  <2>9. CASE o \in {owing(u) : u \in N}
    <3>1. PICK u \in M : o = owing(u)
      BY <2>9
    <3>2. /\ o.usn = u /\ o.from = from /\ o.to = to
          /\ o.by = MIN_DELAY + (IF u \in Pending THEN MAX_DELAY ELSE MaxDelay(mx))
      BY <3>1
    <3>3. Answering(u)'.at <= o.by
      <4>1. CASE u \in Pending
        BY <2>5, <3>2, <4>1, EngineAssumption DEF AnswersOK
      <4>2. CASE u \notin Pending
        BY <2>3, <2>6, <3>2, <4>2, EngineAssumption
      <4> QED BY <4>1, <4>2
    <3> QED BY <2>2, <2>4, <2>7, <3>2, <3>3 DEF Scheduled
  <2> QED BY <2>7, <2>8, <2>9
<1> QED BY <1>3, <1>4

(***************************************************************************)
(* handle_timeout answers every search that it takes off the schedule: by  *)
(* the refresh, by multicast, or by a response that leaves by the address  *)
(* that the search came in on.                                             *)
(***************************************************************************)
LEMMA TimeoutScheduled ==
  ASSUME PacketsFit, OneWay, TypeOK, AnswersOK, AllScheduled, handle_timeout
  PROVE  AllScheduled'
<1> SUFFICES ASSUME losses' = 0, NEW o \in owed' PROVE Scheduled(o)'
  BY DEF AllScheduled
<1> DEFINE mail == Refreshed \cup UNION {Answer(u) : u \in Due}
           u == o.usn
           r == Answering(u)
<1>1. Send(mail, interfaces, advertisements, {})
  BY DEF handle_timeout
<1> HIDE DEF mail
<1>2. /\ o \in owed /\ o.to \in UpIps(interfaces) /\ u \in DOMAIN advertisements
      /\ \A ip \in Via[o.from] : ip \in UpIps(interfaces) =>
            /\ About("alive", mail, ip, u) = {}
            /\ \A m \in About("response", mail, ip, u) : m.to # o.from
      /\ Scheduled(o)
  BY <1>1, StillOwed
<1>3. u \in Usns /\ o.from \in Searchers /\ o.to \in Via[o.from]
  BY <1>2 DEF TypeOK, Scheduled
<1>4. u \notin Due
  <2> SUFFICES ASSUME u \in Due PROVE FALSE
    OBVIOUS
  <2>1. u \in Pending /\ Answer(u) \subseteq mail
    BY DEF Due, mail
  <2>2. /\ advertisements[u].type \in Types /\ advertisements[u].location \in Locations
        /\ r \in Responses
    BY <1>2 DEF TypeOK, Answering
  <2>3. CASE r.kind = "multicast"
    <3>1. Answer(u) = NotifyOn(u, advertisements[u], UpIps(interfaces))
      BY <2>3 DEF Answer, Answering
    <3>2. Covers(Answer(u), u, UpIps(interfaces))
      BY <1>2, <1>3, <2>2, <3>1, UpIpsType, NotifyOnSays
    <3>3. About("alive", mail, o.to, u) # {}
      BY <1>2, <2>1, <3>2 DEF Covers, About, OfKind
    <3> QED BY <1>2, <1>3, <3>3
  <2>4. CASE r.kind # "multicast"
    <3>1. r.kind = "unicast" /\ r.from = o.from /\ r.to \in Via[r.from]
      BY <1>2, <2>1, <2>4 DEF Scheduled, AnswersOK
    <3>2. r.to = o.to /\ r.to \in Ips /\ r.type \in Types
      BY <1>3, <2>2, <3>1 DEF OneWay, Responses
    <3>3. Answer(u) = {Response(u, advertisements[u], r)}
      BY <2>4 DEF Answer, Answering
    <3> DEFINE type == r.type
               url == rewrite_host(advertisements[u].location, r.to)
               m == Response(u, advertisements[u], r)
    <3>4. m.ip = r.to /\ m.to = r.from /\ m.packet = Parsed.response[type][u][url]
      BY DEF Response
    <3>5. url \in Urls /\ type \in Types
      BY <2>2, <3>2 DEF Urls
    <3> HIDE DEF type, url, m
    <3>6. Parsed.response[type][u][url]
             = [kind |-> "response", type |-> type, usn |-> u, location |-> url]
      BY <1>3, <3>5, ResponseSays
    <3>7. m \in About("response", mail, o.to, u)
      <4>1. m \in mail
        BY <2>1, <3>3 DEF m
      <4>2. m.packet.kind = "response" /\ m.packet.usn = u
        BY <3>4, <3>6
      <4> QED BY <3>2, <3>4, <4>1, <4>2 DEF About, OfKind
    <3> QED BY <1>2, <1>3, <3>1, <3>4, <3>7
  <2> QED BY <2>3, <2>4
<1>5. UNCHANGED interfaces /\ DOMAIN advertisements' = DOMAIN advertisements
      /\ Answering(u)' = Answering(u)
  BY <1>2, <1>4 DEF handle_timeout, Answering
<1> QED BY <1>2, <1>5 DEF Scheduled

(***************************************************************************)
(* Each step of the engine leaves every search that it does not answer     *)
(* with an answer scheduled in time.                                       *)
(***************************************************************************)
LEMMA ScheduledStep ==
  ASSUME PacketsFit, OneWay, TypeOK, AnswersOK, AllScheduled, Step
  PROVE  AllScheduled'
<1>1. ASSUME UNCHANGED advertisements,
             \E mail : Send(mail, interfaces', advertisements, {})
      PROVE  AllScheduled'
  <2> SUFFICES ASSUME losses' = 0, NEW o \in owed' PROVE Scheduled(o)'
    BY DEF AllScheduled
  <2>1. PICK mail : Send(mail, interfaces', advertisements, {})
    BY <1>1
  <2>2. Scheduled(o) /\ o.to \in UpIps(interfaces')
    BY <2>1, StillOwed
  <2> QED BY <1>1, <2>2 DEF Scheduled, Answering
<1>2. CASE Event
  <2>1. UNCHANGED advertisements
    BY <1>2 DEF Event, on_new_link_event, on_del_link_event, on_new_addr_event,
                on_del_addr_event
  <2>2. \E mail : Send(mail, interfaces', advertisements, {})
    BY <1>2 DEF Event, on_new_link_event, on_del_link_event, on_new_addr_event,
                on_del_addr_event, Quietly
  <2> QED BY <1>1, <2>1, <2>2
<1>3. ASSUME NEW t \in SearchTypes, subscribe(t) PROVE AllScheduled'
  BY <1>1, <1>3 DEF subscribe
<1>4. ASSUME NEW u \in Usns, NEW t \in Types, NEW url \in Locations, advertise(u, t, url)
      PROVE  AllScheduled'
  <2> SUFFICES ASSUME losses' = 0, NEW o \in owed' PROVE Scheduled(o)'
    BY DEF AllScheduled
  <2> DEFINE mail == NotifyOn(u, advertisements'[u], UpIps(interfaces))
  <2>1. /\ interfaces' = interfaces /\ Send(mail, interfaces, advertisements', {})
        /\ u \in DOMAIN advertisements'
        /\ advertisements'[u].type \in Types /\ advertisements'[u].location \in Locations
        /\ \A v \in DOMAIN advertisements :
              v # u => v \in DOMAIN advertisements' /\ advertisements'[v] = advertisements[v]
    BY <1>4 DEF advertise
  <2>2. Covers(mail, u, UpIps(interfaces))
    BY <2>1, UpIpsType, NotifyOnSays
  <2> HIDE DEF mail
  <2>3. /\ Scheduled(o) /\ o.to \in UpIps(interfaces)
        /\ \A ip \in Via[o.from] : ip \in UpIps(interfaces) => About("alive", mail, ip, o.usn) = {}
    BY <2>1, StillOwed
  <2>4. o.usn # u
    BY <2>2, <2>3 DEF Covers, Scheduled
  <2> QED BY <2>1, <2>3, <2>4 DEF Scheduled, Answering
<1>5. ASSUME NEW u \in Usns, deadvertise(u) PROVE AllScheduled'
  <2> SUFFICES ASSUME losses' = 0, NEW o \in owed' PROVE Scheduled(o)'
    BY DEF AllScheduled
  <2>1. PICK mail : Send(mail, interfaces, advertisements', {})
    BY <1>5 DEF deadvertise
  <2>2. Scheduled(o) /\ o.usn \in DOMAIN advertisements'
    BY <2>1, StillOwed
  <2>3. /\ interfaces' = interfaces
        /\ \A v \in DOMAIN advertisements' :
              v \in DOMAIN advertisements /\ advertisements'[v] = advertisements[v]
    BY <1>5 DEF deadvertise
  <2> QED BY <2>2, <2>3 DEF Scheduled, Answering
<1>6. CASE Elapse
  <2> SUFFICES ASSUME losses' = 0, NEW o \in owed' PROVE Scheduled(o)'
    BY DEF AllScheduled
  <2>1. PICK p \in owed : o = [p EXCEPT !.by = @ - 1]
    BY <1>6 DEF Elapse
  <2>2. /\ o.usn = p.usn /\ o.to = p.to /\ o.from = p.from /\ o.by = p.by - 1
        /\ p.by \in Int
    BY <2>1 DEF TypeOK
  <2>3. Scheduled(p) /\ p.usn \in Pending
    BY <1>6 DEF Elapse, AllScheduled, Scheduled, Pending, Answering
  <2>4. Answering(p.usn) \in Responses /\ Answering(p.usn).kind # "none"
    BY <2>3 DEF Pending, Answering, TypeOK
  <2>5. Answering(p.usn)' = [Answering(p.usn) EXCEPT !.at = @ - 1]
    BY <1>6, <2>3 DEF Elapse, Pending, Answering, TypeOK
  <2>6. /\ Answering(p.usn)'.at = Answering(p.usn).at - 1 /\ Answering(p.usn).at \in Int
        /\ Answering(p.usn)'.kind = Answering(p.usn).kind
        /\ Answering(p.usn).kind = "unicast" =>
              Answering(p.usn)'.from = Answering(p.usn).from
    BY <2>4, <2>5 DEF Responses
  <2>7. interfaces' = interfaces /\ DOMAIN advertisements' = DOMAIN advertisements
    BY <1>6 DEF Elapse
  <2> QED BY <2>2, <2>3, <2>6, <2>7 DEF Scheduled
<1>7. CASE reset_refresh_timer
  BY <1>7 DEF reset_refresh_timer, engine, network, AllScheduled, Scheduled, Answering
<1> QED BY <1>2, <1>3, <1>4, <1>5, <1>6, <1>7, SearchScheduled, TimeoutScheduled
        DEF Step, Call, Application

\* Time that passes when no deadline is as late as it may be.
InTime == Elapse /\ \A t \in Deadlines : t > -MaxLate

\* Nothing that is due is later than the owner of the engine may be.
NothingOverdue == \A t \in Deadlines : t >= -MaxLate

(***************************************************************************)
(* The deadlines are integers.                                             *)
(***************************************************************************)
LEMMA DeadlinesType ==
  ASSUME TypeOK
  PROVE  Deadlines \subseteq Int /\ next_salvo \in Deadlines
<1>1. ASSUME NEW u \in Pending PROVE advertisements[u].response.at \in Int
  BY DEF Pending, TypeOK, Responses
<1> QED BY <1>1 DEF Deadlines, TypeOK

(***************************************************************************)
(* poll_timeout is the earliest deadline.                                  *)
(***************************************************************************)
LEMMA PollTimeoutLeast ==
  ASSUME TypeOK, NothingOverdue
  PROVE  poll_timeout \in Deadlines /\ \A t \in Deadlines : poll_timeout <= t
<1> DEFINE R == OpToRel(<, Nat)
           S == {t + MaxLate : t \in Deadlines}
<1>1. IsWellFoundedOn(R, Nat)
  BY NatLessThanWellFounded
<1>2. \A x, y \in Nat : <<x, y>> \in R <=> x < y
  BY DEF OpToRel
<1>3. S \subseteq Nat /\ S # {}
  BY DeadlinesType, EngineAssumption DEF NothingOverdue
<1> HIDE DEF R
<1>4. PICK n \in S : \A m \in S : ~(<<m, n>> \in R)
  BY <1>1, <1>3, WFMin
<1>5. PICK t \in Deadlines : n = t + MaxLate
  OBVIOUS
<1>6. ASSUME NEW s \in Deadlines PROVE t <= s
  <2>1. s + MaxLate \in S
    OBVIOUS
  <2>2. ~(s + MaxLate < n)
    BY <1>2, <1>3, <1>4, <2>1
  <2> QED BY <1>5, <2>2, DeadlinesType, EngineAssumption
<1>7. \E d \in Deadlines : \A s \in Deadlines : d <= s
  BY <1>6
<1> QED BY <1>7 DEF poll_timeout

(***************************************************************************)
(* No step of the engine puts a deadline in the past, and time does not    *)
(* run past one by more than MaxLate.                                      *)
(***************************************************************************)
LEMMA OverdueStep ==
  ASSUME TypeOK, TypeOK', NothingOverdue,
         Call \/ InTime
  PROVE  NothingOverdue'
<1>0. ASSUME next_salvo' >= -MaxLate,
             \A u \in Pending' : Answering(u)'.at >= -MaxLate
      PROVE  NothingOverdue'
  BY <1>0 DEF NothingOverdue, Deadlines, Answering
<1>8. /\ next_salvo >= -MaxLate /\ next_salvo \in Int
       /\ \A u \in Pending : Answering(u).at >= -MaxLate /\ Answering(u).at \in Int
  BY DeadlinesType DEF NothingOverdue, Deadlines, Answering
<1>1. CASE UNCHANGED <<advertisements, next_salvo>>
  BY <1>1 DEF NothingOverdue, Deadlines, Pending
<1>2. ASSUME NEW u, NEW t, NEW url, advertise(u, t, url) PROVE NothingOverdue'
  BY <1>0, <1>8, <1>2 DEF advertise, None, Answering, Pending, timer
<1>3. ASSUME NEW u, deadvertise(u) PROVE NothingOverdue'
  BY <1>0, <1>8, <1>3 DEF deadvertise, Answering, Pending, timer
<1>4. CASE Searching
  <2>1. PICK from \in Searchers, t \in Types \cup {All}, mx \in MaxWaits :
           \E to \in Via[from] : on_search(from, to, t, mx)
    BY <1>4 DEF Searching
  <2>2. PICK to \in Via[from] : on_search(from, to, t, mx)
    BY <2>1
  <2>3. CASE mx * SECOND = 0
    BY <1>1, <2>2, <2>3 DEF on_search, timer
  <2>4. CASE mx * SECOND # 0
    <3>1. Delay(mx) \in Int /\ Delay(mx) >= -MaxLate
      BY <2>4, DelayType, EngineAssumption
    <3>2. DOMAIN advertisements' = DOMAIN advertisements /\ next_salvo' = next_salvo
      BY <2>2, <2>4 DEF on_search, timer
    <3>3. ASSUME NEW u \in DOMAIN advertisements
          PROVE  \/ Answering(u)' = Answering(u)
                 \/ \E type : Answering(u)' =
                                Rescheduled(Answering(u), Delay(mx), from, to, type)
      BY <2>2, <2>4 DEF on_search, Answering, TypeOK
    <3>4. ASSUME NEW u \in Pending' PROVE Answering(u)'.at >= -MaxLate
      <4>1. u \in DOMAIN advertisements /\ Answering(u)'.kind # "none"
        BY <3>2 DEF Pending, Answering
      <4>2. CASE Answering(u).kind = "none"
        BY <3>1, <3>3, <4>1, <4>2 DEF Rescheduled, Unicast
      <4>3. CASE Answering(u).kind # "none"
        <5>1. Answering(u)'.at = Answering(u).at
          BY <3>3, <4>1, <4>3 DEF Rescheduled, Multicast
        <5> QED BY <1>8, <4>1, <4>3, <5>1 DEF Pending, Answering
      <4> QED BY <4>2, <4>3
    <3> QED BY <1>0, <1>8, <3>2, <3>4
  <2> QED BY <2>3, <2>4
<1>5. CASE handle_timeout
  <2>1. next_salvo' >= -MaxLate
    BY <1>8, <1>5, PeriodType, EngineAssumption
       DEF handle_timeout, update_refresh, timer, TypeOK
  <2>2. ASSUME NEW u \in Pending' PROVE u \in Pending /\ Answering(u)' = Answering(u)
    BY <1>5 DEF handle_timeout, None, Answering, Pending, TypeOK
  <2> QED BY <1>0, <1>8, <2>1, <2>2
<1>6. CASE InTime
  <2>1. next_salvo > -MaxLate /\ next_salvo' = next_salvo - 1
    BY <1>6, DeadlinesType DEF InTime, Elapse
  <2>2. ASSUME NEW u \in Pending' PROVE Answering(u)'.at >= -MaxLate
    <3>1. u \in Pending
      BY <1>6 DEF InTime, Elapse, Pending
    <3>2. Answering(u) \in Responses /\ Answering(u).kind # "none"
      BY <3>1 DEF Pending, Answering, TypeOK
    <3>3. Answering(u)' = [Answering(u) EXCEPT !.at = @ - 1]
      BY <1>6, <3>1 DEF InTime, Elapse, Pending, Answering, TypeOK
    <3>4. Answering(u)'.at = Answering(u).at - 1
      BY <3>2, <3>3 DEF Responses
    <3>5. Answering(u).at > -MaxLate
      BY <1>6, <3>1 DEF InTime, Deadlines, Answering
    <3> QED BY <1>8, <3>1, <3>4, <3>5, EngineAssumption
  <2> QED BY <1>0, <1>8, <2>1, <2>2, EngineAssumption
<1>7. CASE reset_refresh_timer
  BY <1>0, <1>8, <1>7, EngineAssumption DEF reset_refresh_timer, reset, engine, Answering, Pending
<1> QED BY <1>1, <1>2, <1>3, <1>4, <1>5, <1>6, <1>7
        DEF Call, Event, Application, on_new_link_event, on_del_link_event,
            on_new_addr_event, on_del_addr_event, subscribe, timer

\* What the owner of an engine keeps, whoever it is.
Kept == TypeOK /\ AnswersOK /\ AllScheduled /\ NothingOverdue

(***************************************************************************)
(* A step of the engine keeps it.                                          *)
(***************************************************************************)
LEMMA KeptStep ==
  ASSUME PacketsFit, OneWay, Kept, Call \/ InTime
  PROVE  Kept'
BY TypingStep, AnswersStep, ScheduledStep, OverdueStep DEF Kept, Step, InTime

(***************************************************************************)
(* A new engine has it.                                                    *)
(***************************************************************************)
LEMMA KeptInit ==
  ASSUME NEW ifs, InitWith(ifs), DOMAIN ifs \subseteq Links,
         ifs \in [DOMAIN ifs -> [ips : SUBSET Ips, up : BOOLEAN]]
  PROVE  Kept
<1>1. TypeOK
  BY DEF InitWith, Empty, new, TypeOK
<1>2. Pending = {} /\ next_salvo = 0
  BY DEF InitWith, Empty, new, Pending
<1> QED BY <1>1, <1>2, EngineAssumption
        DEF Kept, InitWith, AnswersOK, AllScheduled, NothingOverdue, Deadlines

(***************************************************************************)
(* What is kept is what the searchers were promised.                       *)
(***************************************************************************)
LEMMA KeptPromises ==
  ASSUME Kept
  PROVE  NoSearchForgotten /\ AnsweredInTime
<1>1. NoSearchForgotten
  BY DEF Kept, AllScheduled, Scheduled, Answering, NoSearchForgotten
<1>2. ASSUME losses = 0, NEW o \in owed PROVE o.by >= -MaxLate
  <2>1. Scheduled(o)
    BY <1>2 DEF Kept, AllScheduled
  <2>2. o.usn \in Pending
    BY <2>1 DEF Scheduled, Pending, Answering
  <2>3. Answering(o.usn).at \in Deadlines /\ Answering(o.usn).at \in Int
    BY <2>2, DeadlinesType DEF Kept, Deadlines, Answering
  <2>4. o.by \in Int /\ Answering(o.usn).at <= o.by /\ Answering(o.usn).at >= -MaxLate
    BY <2>1, <2>3 DEF Kept, TypeOK, Scheduled, NothingOverdue
  <2> QED BY <2>3, <2>4, EngineAssumption
<1> QED BY <1>1, <1>2 DEF AnsweredInTime

(***************************************************************************)
(* However advertisements, interfaces and other searchers come and go, a   *)
(* search (on_data) has an answer scheduled until it has been answered, in *)
(* time: of an engine whose owner calls handle_timeout by MaxLate, if the  *)
(* messages fit, none is lost, and no searcher is on two of our links.     *)
(***************************************************************************)
THEOREM Answered == PacketsFit /\ OneWay => (Spec => [](NoSearchForgotten /\ AnsweredInTime))
<1> SUFFICES ASSUME PacketsFit, OneWay PROVE Spec => [](NoSearchForgotten /\ AnsweredInTime)
  OBVIOUS
<1>1. Init => Kept
  BY KeptInit DEF Init, Empty
<1>2. Kept /\ [Next]_vars => Kept'
  <2> SUFFICES ASSUME Kept, [Next]_vars PROVE Kept'
    OBVIOUS
  <2>1. CASE Tick
    BY <2>1, PollTimeoutLeast, DeadlinesType, EngineAssumption, KeptStep DEF Tick, InTime, Kept
  <2>2. CASE Call
    BY <2>2, KeptStep
  <2>3. CASE UNCHANGED vars
    BY <2>3 DEF vars, engine, timer, network, Kept, TypeOK, AnswersOK, AllScheduled, Scheduled,
                Answering, NothingOverdue, Deadlines, Pending
  <2>4. Next => Tick \/ Call \/ UNCHANGED vars
    BY NetworkEventIsEvent DEF Next, Call, Datagram, receive_to, Searching
  <2> QED BY <2>1, <2>2, <2>3, <2>4
<1>3. Kept => NoSearchForgotten /\ AnsweredInTime
  BY KeptPromises
<1> QED BY <1>1, <1>2, <1>3, PTL DEF Spec
-----------------------------------------------------------------------------
(* The owners of an engine (module Services).                              *)

ServicesNext == OwnedByTask \/ OwnedByLoop
-----------------------------------------------------------------------------
(* The polling loop.                                                       *)

\* Each socket holds packets of its kind.
InboxOK ==
    /\ inbox \in [SERVICE_SOCKETS -> Seq(Packets("multicast") \cup Packets("search"))]
    /\ \A s \in SERVICE_SOCKETS : inbox[s] \in Seq(Packets(s))

\* The loop polls when it has handled all events.
EventsOK ==
    /\ edges \subseteq SERVICE_SOCKETS /\ events \in Seq(SERVICE_SOCKETS)
    /\ at \in {"top", "poll"} => events = <<>>

Polled == InboxOK /\ EventsOK /\ NotStranded

(***************************************************************************)
(* Every order in which poll reports sockets has all of them.              *)
(***************************************************************************)
LEMMA AllReported ==
  ASSUME NEW S, IsFiniteSet(S), NEW order \in SetToSeqs(S)
  PROVE  order \in Seq(S) /\ \A s \in S : Contains(order, s)
<1> DEFINE n == Cardinality(S)
<1>1. n \in Nat
  BY FS_CardinalityType
<1>2. order \in [1 .. n -> S] /\ \A i, j \in 1 .. n : i # j => order[i] # order[j]
  BY DEF SetToSeqs
<1> HIDE DEF n
<1>3. order \in Injection(1 .. n, S)
  BY <1>2 DEF Injection, IsInjective
<1>4. Cardinality(1 .. n) = n
  BY <1>1, FS_Interval
<1>5. order \in Surjection(1 .. n, S)
  BY <1>3, <1>4, FS_Injection DEF n
<1>6. order \in Seq(S) /\ Len(order) = n
  BY <1>1, <1>2
<1>7. \A s \in S : \E i \in 1 .. n : order[i] = s
  BY <1>5 DEF Surjection
<1> QED BY <1>6, <1>7 DEF Contains

(***************************************************************************)
(* What arrives has an event in store, and keeps it until the socket that  *)
(* it arrived at has been emptied.                                         *)
(***************************************************************************)
LEMMA PolledStep ==
  ASSUME Polled, ServicesNext
  PROVE  Polled'
<1> USE DEF Polled
<1>1. CASE UNCHANGED <<inbox, edges, events, at, cut>>
  BY <1>1 DEF InboxOK, EventsOK, NotStranded
<1>2. CASE OwnedByTask
  BY <1>1, <1>2 DEF OwnedByTask, loopVars
<1>3. ASSUME NEW s \in SERVICE_SOCKETS, NEW p \in Packets(s), Arrive(s, p) PROVE Polled'
  <2>1. /\ inbox' = [inbox EXCEPT ![s] = Append(@, p)] /\ edges' = edges \cup {s}
        /\ cut' = cut \ {s} /\ UNCHANGED <<at, events>>
    BY <1>3 DEF Arrive
  <2>2. InboxOK'
    <3> DEFINE Mail == Packets("multicast") \cup Packets("search")
    <3>1. p \in Mail
      BY DEF SERVICE_SOCKETS
    <3> HIDE DEF Mail
    <3>2. inbox \in [SERVICE_SOCKETS -> Seq(Mail)] /\ inbox[s] \in Seq(Packets(s))
      BY DEF InboxOK, Mail
    <3>3. Append(inbox[s], p) \in Seq(Mail) /\ Append(inbox[s], p) \in Seq(Packets(s))
      BY <3>1, <3>2
    <3>4. inbox' \in [SERVICE_SOCKETS -> Seq(Mail)]
      BY <2>1, <3>2, <3>3
    <3>5. \A t \in SERVICE_SOCKETS : inbox'[t] \in Seq(Packets(t))
      BY <2>1, <3>2, <3>3 DEF InboxOK
    <3> QED BY <3>4, <3>5 DEF InboxOK, Mail
  <2>3. EventsOK'
    BY <2>1 DEF EventsOK
  <2>4. NotStranded'
    BY <2>1 DEF NotStranded, InboxOK
  <2> QED BY <2>2, <2>3, <2>4
<1>4. CASE PollReturns
  <2>1. /\ at = "poll" /\ at' = "woken" /\ edges' = {} /\ inbox' = inbox
        /\ cut' = cut /\ events' \in SetToSeqs(edges)
    BY <1>4 DEF PollReturns
  <2>2. IsFiniteSet(edges)
    <3>1. IsFiniteSet({"multicast", "search"})
      <4>1. {"multicast", "search"} = {"multicast"} \cup {"search"}
        OBVIOUS
      <4>2. IsFiniteSet({"multicast"})
        BY FS_Singleton
      <4>3. IsFiniteSet({"multicast"} \cup {"search"})
        BY <4>2, FS_AddElement
      <4> QED BY <4>1, <4>3
    <3> QED BY <3>1, FS_Subset DEF EventsOK, SERVICE_SOCKETS
  <2>3. events' \in Seq(edges) /\ \A s \in edges : Contains(events', s)
    BY <2>1, <2>2, AllReported
  <2>4. EventsOK'
    BY <2>1, <2>3 DEF EventsOK
  <2>5. \A s \in SERVICE_SOCKETS : inbox[s] # <<>> => s \in edges \/ s \in cut
    BY <2>1 DEF NotStranded, EventsOK, Contains
  <2>6. NotStranded'
    BY <2>1, <2>3, <2>5 DEF NotStranded
  <2>7. InboxOK'
    BY <2>1 DEF InboxOK
  <2> QED BY <2>4, <2>6, <2>7
<1>5. ASSUME NEW s \in SERVICE_SOCKETS, Ready(s) PROVE Polled'
  <2>1. /\ inbox[s] # <<>> /\ inbox' = [inbox EXCEPT ![s] = Tail(@)]
        /\ UNCHANGED <<at, edges, events, cut>>
    BY <1>5 DEF Ready
  <2>2. InboxOK'
    BY <2>1 DEF InboxOK
  <2>3. EventsOK'
    BY <2>1 DEF EventsOK
  <2>4. NotStranded'
    BY <2>1 DEF NotStranded, InboxOK
  <2> QED BY <2>2, <2>3, <2>4
<1>6. ASSUME NEW s \in SERVICE_SOCKETS, ReadyEnds(s) \/ ReadyFails(s) PROVE Polled'
  <2>1. /\ at = "events" /\ events # <<>> /\ Head(events) = s
        /\ events' = Tail(events) /\ UNCHANGED <<at, edges>>
    BY <1>6 DEF ReadyEnds, ReadyFails, Draining
  <2>2. EventsOK'
    BY <2>1 DEF EventsOK
  <2>3. ASSUME NEW t \in SERVICE_SOCKETS, t # s, Contains(events, t)
        PROVE  Contains(events', t)
    <3>1. events \in Seq(SERVICE_SOCKETS)
      BY DEF EventsOK
    <3>2. PICK i \in 1 .. Len(events) : events[i] = t
      BY <2>3 DEF Contains
    <3>3. i # 1
      BY <2>1, <2>3, <3>1, <3>2
    <3>4. i - 1 \in 1 .. Len(events') /\ events'[i - 1] = t
      BY <2>1, <3>1, <3>2, <3>3
    <3> QED BY <3>4 DEF Contains
  <2>4. CASE ReadyEnds(s)
    <3>1. inbox[s] = <<>> /\ UNCHANGED <<inbox, cut>>
      BY <2>4 DEF ReadyEnds
    <3>2. NotStranded'
      BY <2>1, <2>3, <3>1 DEF NotStranded
    <3>3. InboxOK'
      BY <3>1 DEF InboxOK
    <3> QED BY <2>2, <3>2, <3>3
  <2>5. CASE ReadyFails(s)
    <3>1. /\ inbox[s] # <<>> /\ inbox' = [inbox EXCEPT ![s] = Tail(@)]
          /\ cut \subseteq cut' /\ (inbox'[s] = <<>> \/ s \in cut')
      BY <2>5 DEF ReadyFails
    <3>2. \A t \in SERVICE_SOCKETS : t # s => inbox'[t] = inbox[t]
      BY <3>1 DEF InboxOK
    <3>3. NotStranded'
      BY <2>1, <2>3, <3>1, <3>2 DEF NotStranded
    <3>4. InboxOK'
      BY <3>1 DEF InboxOK
    <3> QED BY <2>2, <3>3, <3>4
  <2> QED BY <1>6, <2>4, <2>5
<1>7. CASE Poll \/ LoopAgain
  <2>1. UNCHANGED <<inbox, edges, events, cut>> /\ events = <<>>
    BY <1>7 DEF Poll, LoopAgain, EventsOK
  <2> QED BY <2>1 DEF InboxOK, EventsOK, NotStranded
<1>8. CASE wakeup
  <2>1. UNCHANGED <<inbox, edges, events, cut>> /\ at' = "events"
    BY <1>8 DEF wakeup
  <2> QED BY <2>1 DEF InboxOK, EventsOK, NotStranded
<1>9. CASE LoopApplication \/ LoopTick
  BY <1>1, <1>9 DEF LoopApplication, LoopTick, loopVars
<1> QED BY <1>2, <1>3, <1>4, <1>5, <1>6, <1>7, <1>8, <1>9
        DEF ServicesNext, OwnedByLoop, LoopNext, LoopStep, RunsDry

(***************************************************************************)
(* No packet is left behind in a socket by multicast_ready and             *)
(* search_ready, whenever it arrives and in whatever order poll reports    *)
(* the sockets, unless receive_to failed on the packet before it; then it  *)
(* is left there until another arrives.                                    *)
(***************************************************************************)
THEOREM NoneStranded == ServicesSpec => []NotStranded
<1>1. ServicesInit => Polled
  BY DEF ServicesInit, LoopInit, Polled, InboxOK, EventsOK, NotStranded
<1>2. Polled /\ [ServicesNext]_servicesVars => Polled'
  <2> SUFFICES ASSUME Polled, UNCHANGED servicesVars PROVE Polled'
    BY PolledStep
  <2> QED BY DEF servicesVars, loopVars, Polled, InboxOK, EventsOK, NotStranded
<1>3. Polled => NotStranded
  BY DEF Polled
<1> QED BY <1>1, <1>2, <1>3, PTL DEF ServicesSpec, ServicesNext
-----------------------------------------------------------------------------
(* Sleeping.                                                               *)

\* Only one of the owners is there.
OneOwner == at = "none" \/ pc = "none"

\* While poll is waiting it is not for longer than until the next deadline.
NeverOverpolls == at = "poll" => timeout = 0 \/ \A t \in Deadlines : timeout <= t

Awake ==
    /\ TypeOK /\ NothingOverdue /\ OneOwner
    /\ sleep \in Nat /\ timeout \in Nat
    /\ NeverOversleeps /\ NeverOverpolls

(***************************************************************************)
(* The application can only take deadlines away.                           *)
(***************************************************************************)
LEMMA CallerDeadlines ==
  ASSUME NetworkEvent \/ Application
  PROVE  Deadlines' \subseteq Deadlines
<1>1. CASE UNCHANGED <<advertisements, next_salvo>>
  BY <1>1 DEF Deadlines, Pending
<1>2. ASSUME NEW u, NEW t, NEW url, advertise(u, t, url) PROVE Deadlines' \subseteq Deadlines
  <2>1. next_salvo' = next_salvo
    BY <1>2 DEF advertise, timer
  <2>2. ASSUME NEW v \in Pending' PROVE v \in Pending /\ advertisements'[v] = advertisements[v]
    BY <1>2 DEF advertise, None, Pending
  <2> QED BY <2>1, <2>2 DEF Deadlines
<1>3. ASSUME NEW u, deadvertise(u) PROVE Deadlines' \subseteq Deadlines
  <2>1. next_salvo' = next_salvo
    BY <1>3 DEF deadvertise, timer
  <2>2. ASSUME NEW v \in Pending' PROVE v \in Pending /\ advertisements'[v] = advertisements[v]
    BY <1>3 DEF deadvertise, Pending
  <2> QED BY <2>1, <2>2 DEF Deadlines
<1>4. CASE Event \/ UNCHANGED vars
  <2>1. UNCHANGED <<advertisements, next_salvo>>
    BY <1>4 DEF Event, on_new_link_event, on_del_link_event, on_new_addr_event,
                on_del_addr_event, timer, vars, engine
  <2> QED BY <1>1, <2>1
<1> QED BY <1>1, <1>2, <1>3, <1>4, NetworkEventIsEvent DEF Application, subscribe, timer

(***************************************************************************)
(* All deadlines come nearer together.                                     *)
(***************************************************************************)
LEMMA ElapseDeadlines ==
  ASSUME TypeOK, Elapse
  PROVE  \A t \in Deadlines' : t + 1 \in Deadlines
<1>1. next_salvo' + 1 \in Deadlines
  BY DEF Elapse, Deadlines, TypeOK
<1>2. ASSUME NEW u \in Pending' PROVE advertisements'[u].response.at + 1 \in Deadlines
  <2>1. u \in Pending
    BY DEF Elapse, Pending
  <2>2. Answering(u) \in Responses /\ Answering(u).kind # "none"
    BY <2>1 DEF Pending, Answering, TypeOK
  <2>3. advertisements'[u].response = [Answering(u) EXCEPT !.at = @ - 1]
    BY <2>1 DEF Elapse, Pending, Answering, TypeOK
  <2>4. advertisements'[u].response.at + 1 = Answering(u).at
    BY <2>2, <2>3 DEF Responses
  <2> QED BY <2>1, <2>4 DEF Deadlines, Answering
<1> QED BY <1>1, <1>2 DEF Deadlines

(***************************************************************************)
(* What the engine does in a step of its owner: a call, or time that       *)
(* passes while the owner is not late.                                     *)
(***************************************************************************)
LEMMA OwnerSteps ==
  ASSUME Awake, InboxOK, ServicesNext
  PROVE  Call \/ InTime \/ UNCHANGED vars
<1>1. ASSUME Elapse, NEW left \in Nat, left = 0 \/ \A t \in Deadlines : left <= t,
             left > 0 \/ poll_timeout > -MaxLate
      PROVE  InTime
  <2>1. Deadlines \subseteq Int
    BY DeadlinesType DEF Awake
  <2>2. CASE left > 0
    BY <1>1, <2>1, <2>2, EngineAssumption DEF InTime
  <2>3. CASE poll_timeout > -MaxLate
    <3>1. poll_timeout \in Int /\ \A t \in Deadlines : poll_timeout <= t
      BY <2>1, PollTimeoutLeast DEF Awake
    <3> QED BY <1>1, <2>1, <2>3, <3>1, EngineAssumption DEF InTime
  <2> QED BY <1>1, <2>2, <2>3
<1>2. CASE OwnedByTask
  <2>1. CASE ServiceTick
    BY <1>1, <2>1 DEF ServiceTick, Awake, NeverOversleeps
  <2>2. CASE Receive
    BY <2>2 DEF Receive, Datagram, receive_to, Call, Searching
  <2>3. CASE Caller
    BY <2>3, NetworkEventIsEvent DEF Caller, Call
  <2>4. CASE Task \/ Readable
    BY <2>4 DEF Task, Select, WouldBlock, Elapsed, Readable, Call
  <2> QED BY <1>2, <2>1, <2>2, <2>3, <2>4 DEF OwnedByTask, ServiceNext
<1>3. CASE OwnedByLoop
  <2>1. CASE LoopTick
    BY <1>1, <2>1 DEF LoopTick, Awake, NeverOverpolls
  <2>2. ASSUME NEW s \in SERVICE_SOCKETS, Ready(s) PROVE Call \/ UNCHANGED vars
    <3>1. /\ Head(inbox[s]) \in Packets(s) /\ Head(inbox[s]) # Odd
          /\ OnData(Head(inbox[s]))
      BY <2>2 DEF InboxOK, Ready
    <3>2. CASE s = "search"
      BY <3>1, <3>2 DEF Packets, OnData
    <3>3. CASE s # "search"
      <4>1. PICK p \in Searchers, t \in Types, mx \in MaxWaits :
               Head(inbox[s]) = [kind |-> "search", from |-> p, type |-> t, mx |-> mx]
        BY <3>1, <3>3 DEF Packets
      <4> QED BY <3>1, <4>1 DEF OnData, receive_to, Call, Searching
    <3> QED BY <3>2, <3>3
  <2>3. CASE LoopApplication
    BY <2>3 DEF LoopApplication, Call
  <2>4. CASE Poll \/ PollReturns \/ wakeup \/ LoopAgain \/ RunsDry
    BY <2>4 DEF Poll, PollReturns, wakeup, LoopAgain, RunsDry, ReadyEnds, Call
  <2>5. ASSUME NEW s, NEW p, Arrive(s, p) PROVE UNCHANGED vars
    BY <2>5 DEF Arrive
  <2>6. ASSUME NEW s, ReadyFails(s) PROVE UNCHANGED vars
    BY <2>6 DEF ReadyFails
  <2> QED BY <1>3, <2>1, <2>2, <2>3, <2>4, <2>5, <2>6 DEF OwnedByLoop, LoopNext, LoopStep
<1> QED BY <1>2, <1>3 DEF ServicesNext

(***************************************************************************)
(* The sleep that is chosen is not longer than until the next deadline.    *)
(***************************************************************************)
LEMMA SleepsUntil ==
  ASSUME Awake, NEW left, left = IF poll_timeout < 0 THEN 0 ELSE poll_timeout
  PROVE  left \in Nat /\ (left = 0 \/ \A t \in Deadlines : left <= t)
<1>1. poll_timeout \in Int /\ \A t \in Deadlines : poll_timeout <= t
  BY DeadlinesType, PollTimeoutLeast DEF Awake
<1> QED BY <1>1

(***************************************************************************)
(* As time passes, a sleep gets shorter as the deadlines come nearer.      *)
(***************************************************************************)
LEMMA SleepsOn ==
  ASSUME TypeOK, TypeOK', Elapse, NEW left \in Nat, left = 0 \/ \A t \in Deadlines : left <= t,
         NEW rest, rest = IF left > 0 THEN left - 1 ELSE 0
  PROVE  rest \in Nat /\ (rest = 0 \/ \A t \in Deadlines' : rest <= t)
<1>1. CASE left = 0
  BY <1>1
<1>2. CASE left # 0
  <2>1. ASSUME NEW t \in Deadlines' PROVE left - 1 <= t
    <3>1. t + 1 \in Deadlines /\ t \in Int
      BY ElapseDeadlines, TypeOK', DeadlinesType DEF TypeOK, Deadlines, Pending, Responses
    <3> QED BY <1>2, <3>1
  <2> QED BY <1>2, <2>1
<1> QED BY <1>1, <1>2

(***************************************************************************)
(* Each step of an owner leaves it awake in time.                          *)
(***************************************************************************)
LEMMA AwakeStep ==
  ASSUME Awake, InboxOK, ServicesNext
  PROVE  Awake'
<1>1. TypeOK'
  <2>1. CASE UNCHANGED vars
    BY <2>1 DEF Awake, vars, engine, timer, network, TypeOK
  <2> QED BY <2>1, OwnerSteps, TypingStep DEF Step, InTime, Awake
<1>2. NothingOverdue'
  <2>1. CASE UNCHANGED vars
    BY <2>1 DEF Awake, vars, engine, timer, network, NothingOverdue, Deadlines, Pending
  <2> QED BY <1>1, <2>1, OwnerSteps, OverdueStep DEF Awake
<1>3. CASE OwnedByTask
  <2>1. at = "none" /\ UNCHANGED <<at, timeout>> /\ pc # "none"
    BY <1>3 DEF OwnedByTask, ServiceNext, loopVars, Awake, OneOwner
  <2>2. OneOwner' /\ timeout' \in Nat /\ NeverOverpolls'
    BY <2>1 DEF OneOwner, NeverOverpolls, Awake
  <2>3. sleep' \in Nat /\ NeverOversleeps'
    <3>1. CASE Select
      BY <3>1, SleepsUntil
         DEF Select, NeverOversleeps, vars, engine, timer, network, Deadlines, Pending
    <3>2. CASE pc' # "wait" /\ UNCHANGED sleep
      BY <3>2 DEF NeverOversleeps, Awake
    <3>3. CASE Caller
      BY <3>3, CallerDeadlines DEF Caller, NeverOversleeps, Awake
    <3>4. CASE ServiceTick
      <4>1. sleep = 0 \/ \A t \in Deadlines : sleep <= t
        BY <3>4 DEF ServiceTick, Awake, NeverOversleeps
      <4>2. sleep' \in Nat /\ (sleep' = 0 \/ \A t \in Deadlines' : sleep' <= t)
        BY <1>1, <3>4, <4>1, SleepsOn DEF ServiceTick, Awake
      <4> QED BY <4>2 DEF NeverOversleeps
    <3> QED BY <1>3, <3>1, <3>2, <3>3, <3>4
            DEF OwnedByTask, ServiceNext, Task, WouldBlock, Elapsed, Readable, Receive
  <2> QED BY <1>1, <1>2, <2>2, <2>3 DEF Awake
<1>4. CASE OwnedByLoop
  <2>1. UNCHANGED <<pc, sleep>> /\ at # "none" /\ pc = "none"
    BY <1>4 DEF OwnedByLoop, LoopNext, LoopStep, RunsDry, Poll, PollReturns, wakeup, LoopAgain,
                Ready, ReadyEnds, ReadyFails, Draining, LoopApplication, LoopTick, Arrive,
                Awake, OneOwner
  <2>2. OneOwner' /\ sleep' \in Nat /\ NeverOversleeps'
    BY <2>1 DEF OneOwner, NeverOversleeps, Awake
  <2>3. timeout' \in Nat /\ NeverOverpolls'
    <3>1. CASE Poll
      BY <3>1, SleepsUntil
         DEF Poll, next_wakeup, NeverOverpolls, vars, engine, timer, network, Deadlines, Pending
    <3>2. CASE at' # "poll" /\ UNCHANGED timeout
      BY <3>2 DEF NeverOverpolls, Awake
    <3>3. ASSUME NEW s, NEW p, Arrive(s, p) PROVE timeout' \in Nat /\ NeverOverpolls'
      BY <3>3 DEF Arrive, NeverOverpolls, Awake, vars, engine, timer, network, Deadlines, Pending
    <3>4. CASE LoopTick
      <4>1. timeout = 0 \/ \A t \in Deadlines : timeout <= t
        BY <3>4 DEF LoopTick, Awake, NeverOverpolls
      <4>2. timeout' \in Nat /\ (timeout' = 0 \/ \A t \in Deadlines' : timeout' <= t)
        BY <1>1, <3>4, <4>1, SleepsOn DEF LoopTick, Awake
      <4> QED BY <4>2 DEF NeverOverpolls
    <3> QED BY <1>4, <3>1, <3>2, <3>3, <3>4
            DEF OwnedByLoop, LoopNext, LoopStep, RunsDry, PollReturns, wakeup, LoopAgain, Ready,
                ReadyEnds, ReadyFails, Draining, LoopApplication, loopVars
  <2> QED BY <1>1, <1>2, <2>2, <2>3 DEF Awake
<1> QED BY <1>3, <1>4 DEF ServicesNext

(***************************************************************************)
(* Both kinds of new services have an engine that is new.                  *)
(***************************************************************************)
LEMMA ServicesInitOK ==
  ASSUME ServicesInit
  PROVE  Awake /\ Polled /\ Kept
<1>1. Polled
  BY DEF ServicesInit, LoopInit, Polled, InboxOK, EventsOK, NotStranded
<1>2. Kept
  <2>1. CASE ServiceInit
    BY <2>1, KeptInit DEF ServiceInit, Init, Empty
  <2>2. CASE ServiceNew
    BY <2>2, KeptInit DEF ServiceNew
  <2> QED BY <2>1, <2>2 DEF ServicesInit
<1>3. Awake
  BY <1>2 DEF Kept, ServicesInit, ServiceInit, ServiceNew, LoopInit, Awake, OneOwner,
              NeverOversleeps, NeverOverpolls
<1> QED BY <1>1, <1>2, <1>3

(***************************************************************************)
(* The task of AsyncService never oversleeps: next_wakeup was computed     *)
(* under the mutex, and whatever callers do to the engine after it was     *)
(* unlocked, no deadline comes before the end of the sleep.                *)
(***************************************************************************)
THEOREM NeverLate == ServicesSpec => []NeverOversleeps
<1>1. ServicesInit => Awake /\ Polled
  BY ServicesInitOK
<1>2. Awake /\ Polled /\ [ServicesNext]_servicesVars => (Awake /\ Polled)'
  <2> SUFFICES ASSUME Awake, Polled, UNCHANGED servicesVars PROVE (Awake /\ Polled)'
    BY PolledStep, AwakeStep DEF Polled
  <2> QED BY DEF servicesVars, serviceVars, loopVars, vars, engine, timer, network, Polled, InboxOK,
                 EventsOK, NotStranded, Awake, TypeOK, NothingOverdue, OneOwner, NeverOversleeps,
                 NeverOverpolls, Deadlines, Pending
<1>3. Awake /\ Polled => NeverOversleeps
  BY DEF Awake
<1> QED BY <1>1, <1>2, <1>3, PTL DEF ServicesSpec, ServicesNext

(***************************************************************************)
(* Whoever owns the engine, a search has an answer scheduled until it has  *)
(* been answered, in time, under the conditions of the theorem Answered.   *)
(***************************************************************************)
THEOREM ServicesAnswer ==
  PacketsFit /\ OneWay => (ServicesSpec => [](NoSearchForgotten /\ AnsweredInTime))
<1> SUFFICES ASSUME PacketsFit, OneWay
             PROVE  ServicesSpec => [](NoSearchForgotten /\ AnsweredInTime)
  OBVIOUS
<1> DEFINE Inv == Awake /\ Polled /\ Kept
<1>1. ServicesInit => Inv
  BY ServicesInitOK
<1>2. Inv /\ [ServicesNext]_servicesVars => Inv'
  <2> SUFFICES ASSUME Inv, [ServicesNext]_servicesVars PROVE Inv'
    OBVIOUS
  <2>1. ASSUME UNCHANGED vars PROVE Kept'
    BY <2>1 DEF vars, engine, timer, network, Kept, TypeOK, AnswersOK, AllScheduled, Scheduled,
                Answering, NothingOverdue, Deadlines, Pending
  <2>2. CASE ServicesNext
    BY <2>1, <2>2, PolledStep, AwakeStep, OwnerSteps, KeptStep DEF Polled
  <2>3. CASE UNCHANGED servicesVars
    BY <2>1, <2>3
       DEF servicesVars, serviceVars, loopVars, vars, engine, timer, network, Polled, InboxOK,
           EventsOK, NotStranded, Awake, TypeOK, NothingOverdue, OneOwner, NeverOversleeps,
           NeverOverpolls, Deadlines, Pending
  <2> QED BY <2>2, <2>3
<1>3. Inv => NoSearchForgotten /\ AnsweredInTime
  BY KeptPromises
<1> HIDE DEF Inv
<1> QED BY <1>1, <1>2, <1>3, PTL DEF ServicesSpec, ServicesNext

-----------------------------------------------------------------------------
(* The inductive invariant: types.                                         *)

MessagesOf(s) ==
    {Done} \cup
    (IF s = "link" THEN {Newlink(l, f) : l \in Indexes, f \in FlagSets}
                        \cup {Dellink(l) : l \in Indexes}
     ELSE {Newaddr(a) : a \in Of(s)} \cup {Deladdr(a) : a \in Of(s)})

\* The sockets are made one after the other, each in two steps.
Place(s) == IF s = "link" THEN 0 ELSE IF s = "addr4" THEN 1 ELSE 2
Joined(s) == setup > 2 * Place(s)
Dumped(s) == setup > 2 * Place(s) + 1

Families == {"addr4", "addr6"}
Addresses == Inet \cup Inet6

KernelOK ==
    /\ links \in [DOMAIN links -> FlagSets]
    /\ DOMAIN links \subseteq Indexes \ retired
    /\ addrs \subseteq {a \in Addresses : IfaceOf[a] \in DOMAIN links}
    /\ changes \in Nat

StreamOK ==
    /\ setup \in 0 .. 6 /\ polling \in Seq(Sockets)
    /\ polling # <<>> => Created
    /\ inner_turn \in Families
    /\ overrun \subseteq Sockets
    /\ groups_joined = {s \in Sockets : Joined(s)}
    /\ DOMAIN buffer = Sockets
    /\ \A s \in Sockets : buffer[s] \in Seq(MessagesOf(s)) /\ (~Joined(s) => buffer[s] = <<>>)

ToldOK ==
    /\ told \in [links : {told.links}, addrs : SUBSET Addresses, early : SUBSET Addresses,
                 wavers : SUBSET Indexes, lossy : BOOLEAN]
    /\ told.links \in [DOMAIN told.links -> SUBSET Known]
    /\ DOMAIN told.links \subseteq Indexes

\* The application has its events from the stream or from the list.
SourceOK ==
    /\ source \in {"stream", "list"}
    /\ source = "list" => setup = 0
    /\ source = "stream" => listing = "before" /\ ifaddrs = <<>> /\ msgs = <<>> /\ indexes = {}
    /\ source = "stream" /\ ~Created => told.links = Empty /\ told.addrs = {}

FeedOK == KernelOK /\ StreamOK /\ ToldOK /\ SourceOK
-----------------------------------------------------------------------------
(* What is said of a link or an address x in a queue of messages q.        *)

Concerns(m, x) ==
    \/ m.type \in {"Newlink", "Dellink"} /\ m.index = x
    \/ m.type \in {"Newaddr", "Deladdr"} /\ m.addr = x

Silent(q, x) == \A i \in DOMAIN q : ~Concerns(q[i], x)
LastSays(q, x, m) ==
    \E i \in DOMAIN q : q[i] = m /\ \A j \in DOMAIN q : j > i => ~Concerns(q[j], x)

\* The last message about x is m, or there is none and x is known already.
Heeded(q, x, m, known) == LastSays(q, x, m) \/ (Silent(q, x) /\ known)

LinkNews(l) == IF l \in DOMAIN links THEN Newlink(l, links[l]) ELSE Dellink(l)
AddrNews(a) == IF a \in addrs THEN Newaddr(a) ELSE Deladdr(a)

LinkKnown(l) == IF l \in DOMAIN links
                THEN l \in DOMAIN told.links /\ told.links[l] = map_flags(links[l])
                ELSE l \notin DOMAIN told.links
AddrKnown(a) == a \in addrs <=> a \in told.addrs

(***************************************************************************)
(* What the consumer will have been told of a link or address when it has  *)
(* had the messages that are under way is the truth.  Until the table has  *)
(* been dumped that is promised of those only that are not in it.          *)
(***************************************************************************)
LinksHeeded ==
    \A l \in Indexes : Dumped("link") \/ l \notin DOMAIN links =>
       Heeded(buffer["link"], l, LinkNews(l), LinkKnown(l))
AddrsHeeded ==
    \A s \in Families : \A a \in Of(s) : Dumped(s) \/ a \notin addrs =>
       Heeded(buffer[s], a, AddrNews(a), AddrKnown(a))

TruthUnderWay == source = "stream" /\ ~Lossy => LinksHeeded /\ AddrsHeeded
-----------------------------------------------------------------------------
(* The engine and what the consumer was told.                              *)

\* Nothing more will be heard of a link that is gone.
Gone(l) ==
    /\ l \in retired
    /\ \A i \in DOMAIN buffer["link"] :
          ~(buffer["link"][i].type = "Newlink" /\ buffer["link"][i].index = l)

DellinkIsLast ==
    \A i \in DOMAIN buffer["link"] : buffer["link"][i].type = "Dellink" =>
       /\ buffer["link"][i].index \in retired
       /\ \A j \in DOMAIN buffer["link"] : j > i /\ buffer["link"][j].type = "Newlink" =>
             buffer["link"][j].index # buffer["link"][i].index

\* An interface is listed just if it can do multicast, and as up if it is.
LinkFollows(l) ==
    /\ l \in DOMAIN interfaces <=> "MULTICAST" \in told.links[l]
    /\ l \in DOMAIN interfaces => interfaces[l].up = ({"UP", "RUNNING"} \subseteq told.links[l])

\* An address is listed if its interface is, and has not changed its mind.
AddrFollows(a) ==
    \/ Gone(IfaceOf[a])
    \/ /\ IfaceOf[a] \in DOMAIN told.links
       /\ a \in Inet /\ IfaceOf[a] \in DOMAIN interfaces \ told.wavers =>
             a \in interfaces[IfaceOf[a]].ips

EngineFollows ==
    /\ DOMAIN interfaces \subseteq DOMAIN told.links
    /\ \A l \in groups : l \in DOMAIN interfaces \/ Gone(l)
    /\ \A l \in DOMAIN told.links \ told.wavers : LinkFollows(l)
    /\ \A l \in DOMAIN interfaces :
          \A a \in interfaces[l].ips : a \in told.addrs /\ IfaceOf[a] = l
    /\ told.early = {} => \A a \in told.addrs : AddrFollows(a)

Follows == source = "stream" => DellinkIsLast /\ EngineFollows
-----------------------------------------------------------------------------
(* The list.                                                               *)

ListedEntries ==
    {entry \in [name : [prefix : Indexes, alias : BOOLEAN], flags : FlagSets,
                ip : SUBSET Addresses] :
        entry.ip = {} \/ \E a \in Addresses : entry.ip = {a} /\ IfaceOf[a] = entry.name.prefix}
ListedEvents ==
    {NewLink(l, map_flags(f)) : l \in Indexes, f \in FlagSets}
    \cup {NewAddr(IfaceOf[a], a) : a \in Addresses}

Within(x, q) == \E i \in DOMAIN q : q[i] = x

ListOK ==
    /\ listing \in {"before", "during", "after"}
    /\ ifaddrs \in Seq(ListedEntries) /\ msgs \in Seq(ListedEvents) /\ indexes \subseteq Indexes
    /\ listing = "before" =>
          ifaddrs = <<>> /\ msgs = <<>> /\ indexes = {}
          /\ told.links = Empty /\ told.addrs = {}
    /\ listing = "after" => ifaddrs = <<>>

\* An address is listed after its interface.
LinksListedFirst ==
    /\ told.early = {}
    /\ \A l \in indexes : l \in DOMAIN told.links \/ \E i \in DOMAIN msgs :
          msgs[i].type = "NewLink" /\ msgs[i].ix = l
    /\ \A j \in DOMAIN msgs : msgs[j].type = "NewAddr" =>
          \/ msgs[j].ix \in DOMAIN told.links
          \/ \E i \in DOMAIN msgs : i < j /\ msgs[i].type = "NewLink" /\ msgs[i].ix = msgs[j].ix

LinkEntry(l) == [name |-> Name(l, FALSE), flags |-> links[l], ip |-> {}]
AddrEntry(a) == [name |-> Name(IfaceOf[a], a \in Aliases), flags |-> links[IfaceOf[a]], ip |-> {a}]

\* While nothing changes, every link and address is still among the entries,
\* among the events, or known; and nothing else is.
ListedAll ==
    /\ \A i \in DOMAIN ifaddrs : ifaddrs[i] \in Entries
    /\ \A l \in DOMAIN links :
          \/ Within(LinkEntry(l), ifaddrs)
          \/ Within(NewLink(l, map_flags(links[l])), msgs)
          \/ l \in DOMAIN told.links
    /\ \A l \in indexes :
          \/ Within(NewLink(l, map_flags(links[l])), msgs)
          \/ l \in DOMAIN told.links
    /\ \A a \in addrs :
          \/ Within(AddrEntry(a), ifaddrs) \/ Within(NewAddr(IfaceOf[a], a), msgs)
          \/ a \in told.addrs
    /\ \A i \in DOMAIN msgs :
          \/ \E l \in DOMAIN links : msgs[i] = NewLink(l, map_flags(links[l]))
          \/ \E a \in addrs : msgs[i] = NewAddr(IfaceOf[a], a)
    /\ \A l \in DOMAIN told.links :
          l \in DOMAIN links /\ told.links[l] = map_flags(links[l])
    /\ told.addrs \subseteq addrs

Lists ==
    source = "list" =>
       ListOK /\ LinksListedFirst /\ (listing # "before" /\ changes = 0 => ListedAll)
-----------------------------------------------------------------------------
(* Queues of messages.                                                     *)

(***************************************************************************)
(* SetToSeq is one of the orders of SetToSeqs.                             *)
(***************************************************************************)
LEMMA OneOrder ==
  ASSUME NEW S, IsFiniteSet(S)
  PROVE  SetToSeq(S) \in SetToSeqs(S)
<1>1. ExistsBijection(1 .. Cardinality(S), S)
  BY FS_CardinalityType
<1>2. PICK f : f \in [1 .. Cardinality(S) -> S] /\ IsInjective(f)
  BY <1>1 DEF ExistsBijection, Bijection, Injection
<1>3. SetToSeq(S) \in [1 .. Cardinality(S) -> S] /\ IsInjective(SetToSeq(S))
  BY <1>2 DEF SetToSeq
<1> QED BY <1>3 DEF SetToSeqs, IsInjective

(***************************************************************************)
(* An order of a set has its members and nothing else.                     *)
(***************************************************************************)
LEMMA OrderMembers ==
  ASSUME NEW S, IsFiniteSet(S), NEW order \in SetToSeqs(S)
  PROVE  /\ order \in Seq(S)
         /\ \A i \in DOMAIN order : order[i] \in S
         /\ \A x \in S : \E i \in DOMAIN order : order[i] = x
<1>1. order \in Seq(S) /\ \A x \in S : Contains(order, x)
  BY AllReported
<1> QED BY <1>1 DEF Contains

(***************************************************************************)
(* The order of a set of one.                                              *)
(***************************************************************************)
LEMMA OneMember ==
  ASSUME NEW x
  PROVE  SetToSeq({x}) = <<x>> /\ SetToSeq({}) = <<>>
<1>1. Cardinality({x}) = 1 /\ IsFiniteSet({x})
  BY FS_Singleton
<1>2. SetToSeq({x}) \in [1 .. 1 -> {x}]
  BY <1>1, OneOrder DEF SetToSeqs
<1>3. Cardinality({}) = 0 /\ IsFiniteSet({})
  BY FS_EmptySet
<1>4. SetToSeq({}) \in [1 .. 0 -> {}]
  BY <1>3, OneOrder DEF SetToSeqs
<1>5. SetToSeq({x}) = <<x>>
  BY <1>2
<1>6. SetToSeq({}) = <<>>
  BY <1>4
<1> QED BY <1>5, <1>6

(***************************************************************************)
(* What is said of x after more messages.                                  *)
(***************************************************************************)
LEMMA MoreSaid ==
  ASSUME NEW M, NEW q \in Seq(M), NEW r \in Seq(M), NEW x, NEW m
  PROVE  /\ Silent(q, x) /\ Silent(r, x) => Silent(q \o r, x)
         /\ LastSays(q, x, m) /\ Silent(r, x) => LastSays(q \o r, x, m)
         /\ LastSays(r, x, m) => LastSays(q \o r, x, m)
<1> DEFINE s == q \o r
<1>1. /\ s \in Seq(M) /\ Len(s) = Len(q) + Len(r)
      /\ Len(q) \in Nat /\ Len(r) \in Nat
      /\ DOMAIN q = 1 .. Len(q) /\ DOMAIN r = 1 .. Len(r) /\ DOMAIN s = 1 .. Len(s)
      /\ \A i \in 1 .. Len(q) + Len(r) : s[i] = IF i <= Len(q) THEN q[i] ELSE r[i - Len(q)]
  BY ConcatProperties
<1> HIDE DEF s
<1>2. \A i \in DOMAIN q : i \in DOMAIN s /\ s[i] = q[i]
  BY <1>1
<1>3. \A i \in DOMAIN r : i + Len(q) \in DOMAIN s /\ s[i + Len(q)] = r[i]
  BY <1>1
<1>4. \A i \in DOMAIN s : \/ i \in DOMAIN q /\ s[i] = q[i]
                          \/ i - Len(q) \in DOMAIN r /\ s[i] = r[i - Len(q)] /\ i > Len(q)
  BY <1>1
<1>5. Silent(q, x) /\ Silent(r, x) => Silent(s, x)
  BY <1>4 DEF Silent
<1>6. ASSUME LastSays(q, x, m), Silent(r, x) PROVE LastSays(s, x, m)
  <2>1. PICK i \in DOMAIN q : q[i] = m /\ \A j \in DOMAIN q : j > i => ~Concerns(q[j], x)
    BY <1>6 DEF LastSays
  <2>2. \A j \in DOMAIN s : j > i => ~Concerns(s[j], x)
    BY <1>4, <1>6, <2>1 DEF Silent
  <2> QED BY <1>2, <2>1, <2>2 DEF LastSays
<1>7. ASSUME LastSays(r, x, m) PROVE LastSays(s, x, m)
  <2>1. PICK i \in DOMAIN r : r[i] = m /\ \A j \in DOMAIN r : j > i => ~Concerns(r[j], x)
    BY <1>7 DEF LastSays
  <2>2. ASSUME NEW j \in DOMAIN s, j > i + Len(q) PROVE ~Concerns(s[j], x)
    <3>1. j - Len(q) \in DOMAIN r /\ s[j] = r[j - Len(q)] /\ j - Len(q) > i
      BY <1>1, <2>2
    <3> QED BY <2>1, <3>1
  <2> QED BY <1>3, <2>1, <2>2 DEF LastSays
<1> QED BY <1>5, <1>6, <1>7 DEF s

(***************************************************************************)
(* What is said of x after the first message has been received.            *)
(***************************************************************************)
LEMMA LessSaid ==
  ASSUME NEW M, NEW q \in Seq(M), q # <<>>, NEW x, NEW m
  PROVE  /\ Silent(q, x) => Silent(Tail(q), x) /\ ~Concerns(Head(q), x)
         /\ LastSays(q, x, m) => \/ LastSays(Tail(q), x, m)
                                 \/ Silent(Tail(q), x) /\ Head(q) = m
<1> DEFINE t == Tail(q)
<1>1. /\ t \in Seq(M) /\ Len(t) = Len(q) - 1 /\ Len(q) \in Nat \ {0}
      /\ DOMAIN q = 1 .. Len(q) /\ DOMAIN t = 1 .. Len(t) /\ Head(q) = q[1]
      /\ \A i \in 1 .. Len(t) : t[i] = q[i + 1]
  BY HeadTailProperties
<1> HIDE DEF t
<1>2. \A i \in DOMAIN t : i + 1 \in DOMAIN q /\ t[i] = q[i + 1]
  BY <1>1
<1>3. Silent(q, x) => Silent(t, x) /\ ~Concerns(Head(q), x)
  BY <1>1, <1>2 DEF Silent
<1>4. ASSUME LastSays(q, x, m)
      PROVE  LastSays(t, x, m) \/ (Silent(t, x) /\ Head(q) = m)
  <2>1. PICK i \in DOMAIN q : q[i] = m /\ \A j \in DOMAIN q : j > i => ~Concerns(q[j], x)
    BY <1>4 DEF LastSays
  <2>2. CASE i = 1
    <3>1. Silent(t, x)
      BY <1>1, <1>2, <2>1, <2>2 DEF Silent
    <3> QED BY <1>1, <2>1, <2>2, <3>1
  <2>3. CASE i # 1
    <3>1. i - 1 \in DOMAIN t /\ t[i - 1] = m
      BY <1>1, <2>1, <2>3
    <3>2. ASSUME NEW j \in DOMAIN t, j > i - 1 PROVE ~Concerns(t[j], x)
      <4>1. j + 1 \in DOMAIN q /\ j + 1 > i /\ t[j] = q[j + 1]
        BY <1>1, <3>2
      <4> QED BY <2>1, <4>1
    <3> QED BY <3>1, <3>2 DEF LastSays
  <2> QED BY <2>2, <2>3
<1> QED BY <1>3, <1>4 DEF t
-----------------------------------------------------------------------------
(* Changes of the kernel's table.                                          *)

(***************************************************************************)
(* The messages, and what they concern.                                    *)
(***************************************************************************)
LEMMA Meaning ==
  /\ \A l, f : /\ Newlink(l, f).type = "Newlink" /\ Newlink(l, f).index = l
               /\ Newlink(l, f).flags = f /\ GroupOf(Newlink(l, f)) = "link"
               /\ \A x : Concerns(Newlink(l, f), x) <=> x = l
  /\ \A l : /\ Dellink(l).type = "Dellink" /\ Dellink(l).index = l
            /\ GroupOf(Dellink(l)) = "link"
            /\ \A x : Concerns(Dellink(l), x) <=> x = l
  /\ \A a : /\ Newaddr(a).type = "Newaddr" /\ Newaddr(a).addr = a
            /\ Newaddr(a).index = IfaceOf[a]
            /\ \A x : Concerns(Newaddr(a), x) <=> x = a
  /\ \A a : /\ Deladdr(a).type = "Deladdr" /\ Deladdr(a).addr = a
            /\ Deladdr(a).index = IfaceOf[a]
            /\ \A x : Concerns(Deladdr(a), x) <=> x = a
  /\ Done.type = "Done" /\ \A x : ~Concerns(Done, x)
<1>1. \A l, f : /\ Newlink(l, f).type = "Newlink" /\ Newlink(l, f).index = l
                /\ Newlink(l, f).flags = f
  BY DEF Newlink
<1>2. \A l : Dellink(l).type = "Dellink" /\ Dellink(l).index = l
  BY DEF Dellink
<1>3. \A a : /\ Newaddr(a).type = "Newaddr" /\ Newaddr(a).addr = a
             /\ Newaddr(a).index = IfaceOf[a]
  BY DEF Newaddr
<1>4. \A a : /\ Deladdr(a).type = "Deladdr" /\ Deladdr(a).addr = a
             /\ Deladdr(a).index = IfaceOf[a]
  BY DEF Deladdr
<1>5. Done.type = "Done"
  BY DEF Done
<1> QED BY <1>1, <1>2, <1>3, <1>4, <1>5 DEF Concerns, GroupOf

(***************************************************************************)
(* An address is of one family, and its messages are for that socket.      *)
(***************************************************************************)
LEMMA FamilyOf ==
  ASSUME NEW a \in Addresses
  PROVE  \E s \in Families :
            /\ a \in Of(s) /\ \A t \in Families : a \in Of(t) => t = s
            /\ GroupOf(Newaddr(a)) = s /\ GroupOf(Deladdr(a)) = s
<1>1. CASE a \in Inet
  <2>1. "addr4" \in Families /\ a \in Of("addr4") /\ a \notin Of("addr6")
    BY <1>1, KernelAssumption DEF Families, Of
  <2>2. GroupOf(Newaddr(a)) = "addr4" /\ GroupOf(Deladdr(a)) = "addr4"
    BY <1>1, Meaning DEF GroupOf
  <2> QED BY <2>1, <2>2 DEF Families
<1>2. CASE a \notin Inet
  <2>1. "addr6" \in Families /\ a \in Of("addr6") /\ a \notin Of("addr4")
    BY <1>2 DEF Families, Of, Addresses
  <2>2. GroupOf(Newaddr(a)) = "addr6" /\ GroupOf(Deladdr(a)) = "addr6"
    BY <1>2, Meaning DEF GroupOf
  <2> QED BY <2>1, <2>2 DEF Families
<1> QED BY <1>1, <1>2

(***************************************************************************)
(* The news of a single message.                                           *)
(***************************************************************************)
LEMMA OnlySays ==
  ASSUME NEW m, NEW s \in Sockets
  PROVE  /\ s = GroupOf(m) => /\ Only(m)[s] = <<m>> /\ DOMAIN Only(m)[s] = {1}
                              /\ Only(m)[s][1] = m
                              /\ \A x : ~Concerns(m, x) => Silent(Only(m)[s], x)
                              /\ \A x : LastSays(Only(m)[s], x, m)
                              /\ \A M : m \in M => Only(m)[s] \in Seq(M)
         /\ s # GroupOf(m) => /\ Only(m)[s] = <<>> /\ DOMAIN Only(m)[s] = {}
                              /\ \A x : Silent(Only(m)[s], x)
                              /\ \A M : Only(m)[s] \in Seq(M)
<1>1. s = GroupOf(m) => /\ Only(m)[s] = <<m>> /\ DOMAIN Only(m)[s] = {1}
                        /\ Only(m)[s][1] = m
  BY DEF Only
<1>2. s # GroupOf(m) => Only(m)[s] = <<>> /\ DOMAIN Only(m)[s] = {}
  BY DEF Only
<1>3. s = GroupOf(m) => \A x : LastSays(Only(m)[s], x, m)
  BY <1>1 DEF LastSays
<1>4. \A M : <<>> \in Seq(M) /\ (m \in M => <<m>> \in Seq(M))
  OBVIOUS
<1>5. s = GroupOf(m) => \A x : ~Concerns(m, x) => Silent(Only(m)[s], x)
  BY <1>1 DEF Silent
<1>6. s # GroupOf(m) => \A x : Silent(Only(m)[s], x)
  BY <1>2 DEF Silent
<1> QED BY <1>1, <1>2, <1>3, <1>4, <1>5, <1>6

LinkSame(l) ==
    /\ l \in DOMAIN links' <=> l \in DOMAIN links
    /\ l \in DOMAIN links => links'[l] = links[l]

\* What every change of the table does, and says: of each link and address,
\* nothing, or how it is now.
Announcing(news) ==
    /\ \A s \in Sockets : news[s] \in Seq(MessagesOf(s))
    /\ \A l \in Indexes : \/ Silent(news["link"], l) /\ LinkSame(l)
                          \/ LastSays(news["link"], l, LinkNews(l)')
    /\ \A s \in Families : \A a \in Of(s) :
          \/ Silent(news[s], a) /\ (a \in addrs' <=> a \in addrs)
          \/ LastSays(news[s], a, AddrNews(a)')
    /\ DOMAIN news["link"] \subseteq {1}
    /\ \A j \in DOMAIN news["link"] :
          /\ news["link"][j].type = "Newlink" => news["link"][j].index \notin retired
          /\ news["link"][j].type = "Dellink" => news["link"][j].index \in retired'
    /\ retired \subseteq retired'

(***************************************************************************)
(* A link that is new or has new flags.                                    *)
(***************************************************************************)
LEMMA NewlinkAnnounces ==
  ASSUME KernelOK, NEW l \in Indexes, NEW flags \in FlagSets,
         AddLink(l, flags) \/ SetFlags(l, flags)
  PROVE  /\ Change(Only(Newlink(l, flags)))
         /\ Announcing(Only(Newlink(l, flags))) /\ KernelOK'
<1> DEFINE m == Newlink(l, flags)
           news == Only(m)
<1>0. /\ l \notin retired /\ DOMAIN links' = DOMAIN links \cup {l}
      /\ links' \in [DOMAIN links' -> FlagSets] /\ links'[l] = flags
      /\ \A k \in DOMAIN links : k # l => links'[k] = links[k]
  <2>1. CASE AddLink(l, flags)
    BY <2>1 DEF AddLink, KernelOK
  <2>2. CASE SetFlags(l, flags)
    BY <2>2 DEF SetFlags, KernelOK
  <2> QED BY <2>1, <2>2
<1>1. /\ Change(news) /\ addrs' = addrs /\ retired' = retired
      /\ l \notin retired /\ DOMAIN links' = DOMAIN links \cup {l}
      /\ links' \in [DOMAIN links' -> FlagSets] /\ links'[l] = flags
      /\ \A k \in DOMAIN links : k # l => links'[k] = links[k]
  BY <1>0 DEF AddLink, SetFlags
<1>2. changes' \in Nat
  BY <1>1 DEF Change, KernelOK
<1>3. KernelOK'
  BY <1>1, <1>2 DEF KernelOK
<1>4. GroupOf(m) = "link" /\ m.type = "Newlink" /\ m.index = l /\ \A x : Concerns(m, x) <=> x = l
  BY Meaning
<1>5. m \in MessagesOf("link")
  BY DEF MessagesOf
<1>20. "link" \in Sockets /\ \A s \in Families : s \in Sockets /\ s # "link"
  BY DEF Sockets, Families
<1> HIDE DEF m
<1>21. \A s \in Sockets :
         /\ s = "link" => /\ DOMAIN news[s] = {1} /\ news[s][1] = m
                          /\ \A x : x # l => Silent(news[s], x)
                          /\ \A x : LastSays(news[s], x, m)
                          /\ news[s] \in Seq(MessagesOf("link"))
         /\ s # "link" => /\ \A x : Silent(news[s], x)
                          /\ \A M : news[s] \in Seq(M)
  BY <1>4, <1>5, OnlySays
<1> HIDE DEF news
<1>6. ASSUME NEW s \in Sockets PROVE news[s] \in Seq(MessagesOf(s))
  <2>1. CASE s = "link"
    BY <1>21, <2>1
  <2>2. CASE s # "link"
    BY <1>21, <2>2
  <2> QED BY <2>1, <2>2
<1>8. \A k \in Indexes : k # l => Silent(news["link"], k) /\ LinkSame(k)
  BY <1>1, <1>20, <1>21 DEF LinkSame
<1>9. LastSays(news["link"], l, LinkNews(l)')
  <2>1. LinkNews(l)' = m
    BY <1>1 DEF LinkNews, m
  <2> QED BY <1>20, <1>21, <2>1
<1>10. \A s \in Families : \A a \in Of(s) : Silent(news[s], a) /\ (a \in addrs' <=> a \in addrs)
  BY <1>1, <1>20, <1>21
<1>11. DOMAIN news["link"] = {1} /\ news["link"][1] = m
  BY <1>20, <1>21
<1>12. Announcing(news)
  BY <1>1, <1>4, <1>6, <1>8, <1>9, <1>10, <1>11 DEF Announcing
<1> QED BY <1>1, <1>3, <1>12 DEF news, m

(***************************************************************************)
(* An address that comes or goes.                                          *)
(***************************************************************************)
LEMMA AddrAnnounces ==
  ASSUME KernelOK, NEW a \in Addresses, AddAddr(a) \/ RemoveAddr(a)
  PROVE  \E m : Change(Only(m)) /\ Announcing(Only(m)) /\ KernelOK'
<1>1. PICK m : /\ Change(Only(m)) /\ m = AddrNews(a)'
               /\ links' = links /\ retired' = retired
               /\ \A b : b # a => (b \in addrs' <=> b \in addrs)
               /\ a \in addrs' => IfaceOf[a] \in DOMAIN links
  BY DEF AddAddr, RemoveAddr, AddrNews
<1>2. changes' \in Nat
  BY <1>1 DEF Change, KernelOK
<1>3. KernelOK'
  BY <1>1, <1>2 DEF KernelOK
<1>4. PICK f \in Families : /\ a \in Of(f) /\ \A t \in Families : a \in Of(t) => t = f
                            /\ GroupOf(m) = f
  BY <1>1, FamilyOf DEF AddrNews
<1>5. m \in MessagesOf(f) /\ \A x : Concerns(m, x) <=> x = a
  BY <1>1, <1>4, Meaning DEF MessagesOf, AddrNews, Families
<1> DEFINE news == Only(m)
<1>6. "link" \in Sockets /\ \A s \in Families : s \in Sockets /\ s # "link"
  BY DEF Sockets, Families
<1>20. \A s \in Sockets :
         /\ s = f => /\ \A x : x # a => Silent(news[s], x)
                     /\ \A x : LastSays(news[s], x, m)
                     /\ news[s] \in Seq(MessagesOf(f))
         /\ s # f => /\ \A x : Silent(news[s], x)
                     /\ DOMAIN news[s] = {}
                     /\ \A M : news[s] \in Seq(M)
  BY <1>4, <1>5, OnlySays
<1> HIDE DEF news
<1>7. ASSUME NEW s \in Sockets PROVE news[s] \in Seq(MessagesOf(s))
  <2>1. CASE s = f
    BY <1>20, <2>1
  <2>2. CASE s # f
    BY <1>20, <2>2
  <2> QED BY <2>1, <2>2
<1>8. \A l \in Indexes : Silent(news["link"], l) /\ LinkSame(l)
  BY <1>1, <1>6, <1>20 DEF LinkSame
<1>9. DOMAIN news["link"] = {}
  BY <1>6, <1>20
<1>10. ASSUME NEW s \in Families, NEW b \in Of(s)
       PROVE  \/ Silent(news[s], b) /\ (b \in addrs' <=> b \in addrs)
              \/ LastSays(news[s], b, AddrNews(b)')
  <2>1. CASE b = a
    BY <1>1, <1>4, <1>6, <1>20, <2>1
  <2>2. CASE b # a
    BY <1>1, <1>6, <1>20, <2>2
  <2> QED BY <2>1, <2>2
<1>11. Announcing(news)
  BY <1>1, <1>7, <1>8, <1>9, <1>10 DEF Announcing
<1> QED BY <1>1, <1>3, <1>11 DEF news

(***************************************************************************)
(* A link that goes, with its addresses.                                   *)
(***************************************************************************)
LEMMA DellinkAnnounces ==
  ASSUME KernelOK, NEW l \in Indexes, RemoveLink(l)
  PROVE  \E news : Change(news) /\ Announcing(news) /\ KernelOK'
<1> DEFINE its == {a \in addrs : IfaceOf[a] = l}
           dels(s) == {Deladdr(a) : a \in its \cap Of(s)}
           news == [s \in Sockets |-> IF s = "link" THEN <<Dellink(l)>> ELSE SetToSeq(dels(s))]
<1>1. /\ Change(news) /\ l \in DOMAIN links /\ addrs' = addrs \ its
      /\ DOMAIN links' = DOMAIN links \ {l} /\ retired' = retired \cup {l}
      /\ links' \in [DOMAIN links' -> FlagSets]
      /\ \A k \in DOMAIN links' : links'[k] = links[k]
  BY DEF RemoveLink, KernelOK
<1>2. changes' \in Nat
  BY <1>1 DEF Change, KernelOK
<1>3. KernelOK'
  BY <1>1, <1>2 DEF KernelOK
<1>4. "link" \in Sockets /\ \A s \in Families : s \in Sockets /\ s # "link"
  BY DEF Sockets, Families
<1>5. /\ news["link"] = <<Dellink(l)>>
      /\ \A s \in Families : news[s] = SetToSeq(dels(s))
  BY <1>4
<1> HIDE DEF news
<1>6. /\ DOMAIN news["link"] = {1} /\ news["link"][1] = Dellink(l)
      /\ news["link"] \in Seq(MessagesOf("link"))
  <2>1. Dellink(l) \in MessagesOf("link")
    BY DEF MessagesOf
  <2>2. \A m, M : m \in M => <<m>> \in Seq(M) /\ DOMAIN <<m>> = {1} /\ <<m>>[1] = m
    OBVIOUS
  <2> QED BY <1>5, <2>1, <2>2
<1>7. LastSays(news["link"], l, LinkNews(l)')
  BY <1>1, <1>6 DEF LastSays, LinkNews
<1>8. \A k \in Indexes : k # l => Silent(news["link"], k) /\ LinkSame(k)
  BY <1>1, <1>6, Meaning DEF Silent, LinkSame
<1>9. ASSUME NEW s \in Families
      PROVE  /\ news[s] \in Seq(MessagesOf(s))
             /\ \A a \in Of(s) : \/ Silent(news[s], a) /\ (a \in addrs' <=> a \in addrs)
                                 \/ LastSays(news[s], a, AddrNews(a)')
  <2>1. news[s] = SetToSeq(dels(s))
    BY <1>5
  <2>2. IsFiniteSet(dels(s))
    <3>1. IsFiniteSet(Of(s)) /\ its \cap Of(s) \subseteq Of(s)
      BY KernelAssumption DEF Of
    <3>2. IsFiniteSet(its \cap Of(s))
      BY <3>1, FS_Subset
    <3> DEFINE f == [a \in its \cap Of(s) |-> Deladdr(a)]
    <3>3. f \in Surjection(its \cap Of(s), dels(s))
      BY DEF Surjection
    <3> QED BY <3>2, <3>3, FS_Surjection
  <2>3. news[s] \in SetToSeqs(dels(s))
    BY <2>1, <2>2, OneOrder
  <2> DEFINE q == news[s]
  <2> HIDE DEF dels
  <2>4. /\ q \in Seq(dels(s)) /\ \A i \in DOMAIN q : q[i] \in dels(s)
        /\ \A x \in dels(s) : \E i \in DOMAIN q : q[i] = x
    BY <2>2, <2>3, OrderMembers
  <2>50. DOMAIN q \subseteq Nat
    BY <2>4
  <2>5. \A i, j \in DOMAIN q : i # j => q[i] # q[j]
    BY <2>3 DEF SetToSeqs
  <2> HIDE DEF q
  <2>7. q \in Seq(MessagesOf(s))
    <3>1. dels(s) \subseteq MessagesOf(s)
      BY <1>4 DEF MessagesOf, dels
    <3> QED BY <2>4, <3>1
  <2>8. ASSUME NEW a \in Of(s)
        PROVE  \/ Silent(q, a) /\ (a \in addrs' <=> a \in addrs)
               \/ LastSays(q, a, AddrNews(a)')
    <3>1. CASE a \in its
      <4>1. a \notin addrs' /\ AddrNews(a)' = Deladdr(a)
        BY <1>1, <3>1 DEF AddrNews
      <4>2. PICK i \in DOMAIN q : q[i] = Deladdr(a)
        BY <2>4, <3>1 DEF dels
      <4>3. ASSUME NEW j \in DOMAIN q, j > i PROVE ~Concerns(q[j], a)
        <5>1. PICK b \in its : q[j] = Deladdr(b)
          BY <2>4 DEF dels
        <5>2. b # a
          BY <2>5, <2>50, <4>2, <4>3, <5>1
        <5> QED BY <5>1, <5>2, Meaning
      <4> QED BY <4>1, <4>2, <4>3 DEF LastSays
    <3>2. CASE a \notin its
      <4>1. ASSUME NEW i \in DOMAIN q PROVE ~Concerns(q[i], a)
        <5>1. PICK b \in its : q[i] = Deladdr(b)
          BY <2>4 DEF dels
        <5> QED BY <3>2, <5>1, Meaning
      <4> QED BY <1>1, <3>2, <4>1 DEF Silent
    <3> QED BY <3>1, <3>2
  <2> QED BY <2>7, <2>8 DEF q
<1>10. \A s \in Sockets : s = "link" \/ s \in Families
  BY DEF Sockets, Families
<1>11. Announcing(news)
  BY <1>1, <1>6, <1>7, <1>8, <1>9, <1>10, Meaning DEF Announcing
<1> QED BY <1>1, <1>3, <1>11

(***************************************************************************)
(* Every change of the kernel.                                             *)
(***************************************************************************)
LEMMA KernelAnnounces ==
  ASSUME KernelOK, KernelNext
  PROVE  \E news : Change(news) /\ Announcing(news) /\ KernelOK'
<1>1. CASE \E l \in Indexes, flags \in FlagSets : AddLink(l, flags) \/ SetFlags(l, flags)
  BY <1>1, NewlinkAnnounces
<1>2. CASE \E l \in Indexes : RemoveLink(l)
  BY <1>2, DellinkAnnounces
<1>3. CASE \E a \in Addresses : AddAddr(a) \/ RemoveAddr(a)
  BY <1>3, AddrAnnounces
<1> QED BY <1>1, <1>2, <1>3 DEF KernelNext, Addresses

\* The queue p is q with messages of r after it.
Grown(p, q, r) ==
    \A i \in DOMAIN p : \/ i \in DOMAIN q /\ p[i] = q[i]
                        \/ i \notin DOMAIN q /\ \E j \in DOMAIN r : p[i] = r[j]

(***************************************************************************)
(* What a change does to the sockets' buffers.                             *)
(***************************************************************************)
LEMMA Changed ==
  ASSUME StreamOK, NEW news, Change(news), Announcing(news)
  PROVE  /\ DOMAIN buffer' = Sockets /\ overrun' \subseteq Sockets
         /\ overrun \subseteq overrun' /\ groups_joined' = groups_joined
         /\ \A s \in Sockets :
               /\ buffer'[s] \in Seq(MessagesOf(s))
               /\ s \notin groups_joined => buffer'[s] = buffer[s]
               /\ overrun' = {} /\ s \in groups_joined => buffer'[s] = buffer[s] \o news[s]
               /\ Grown(buffer'[s], buffer[s], news[s])
<1> DEFINE news_for(s) == IF s \in groups_joined THEN news[s] ELSE <<>>
           fits(s) == Len(news_for(s)) <= Room(s)
           added(s) == IF fits(s) THEN news_for(s) ELSE SubSeq(news_for(s), 1, Room(s))
<1>1. /\ buffer' = [s \in Sockets |-> buffer[s] \o added(s)]
      /\ overrun' = overrun \cup {s \in Sockets : ~fits(s)}
      /\ groups_joined' = groups_joined
  BY DEF Change
<1>2. DOMAIN buffer' = Sockets /\ \A s \in Sockets : buffer'[s] = buffer[s] \o added(s)
  BY <1>1
<1>3. overrun' = {} => \A s \in Sockets : added(s) = news_for(s)
  BY <1>1
<1>4. overrun \subseteq overrun' /\ overrun' \subseteq Sockets
  BY <1>1 DEF StreamOK
<1> HIDE DEF fits, added, news_for
<1>5. ASSUME NEW s \in Sockets
      PROVE  /\ added(s) \in Seq(MessagesOf(s))
             /\ \A i \in DOMAIN added(s) : i \in DOMAIN news[s] /\ added(s)[i] = news[s][i]
             /\ s \notin groups_joined => added(s) = <<>>
             /\ s \in groups_joined => news_for(s) = news[s]
  <2>1. /\ news[s] \in Seq(MessagesOf(s)) /\ buffer[s] \in Seq(MessagesOf(s))
    BY DEF Announcing, StreamOK
  <2>2. Room(s) \in Nat
    BY <2>1, KernelAssumption DEF Room
  <2>3. CASE s \notin groups_joined
    <3>1. news_for(s) = <<>> /\ fits(s)
      BY <2>2, <2>3 DEF news_for, fits
    <3>2. added(s) = <<>>
      BY <3>1 DEF added
    <3> QED BY <2>3, <3>2
  <2>4. CASE s \in groups_joined
    <3>1. news_for(s) = news[s]
      BY <2>4 DEF news_for
    <3>2. CASE fits(s)
      BY <2>1, <2>4, <3>1, <3>2 DEF added
    <3>3. CASE ~fits(s)
      <4>1. added(s) = SubSeq(news[s], 1, Room(s)) /\ Room(s) < Len(news[s])
        BY <2>1, <2>2, <3>1, <3>3 DEF added, fits
      <4> QED BY <2>1, <2>2, <2>4, <3>1, <4>1
    <3> QED BY <3>2, <3>3
  <2> QED BY <2>3, <2>4
<1>6. ASSUME NEW s \in Sockets
      PROVE  /\ buffer'[s] \in Seq(MessagesOf(s))
             /\ s \notin groups_joined => buffer'[s] = buffer[s]
             /\ overrun' = {} /\ s \in groups_joined => buffer'[s] = buffer[s] \o news[s]
             /\ Grown(buffer'[s], buffer[s], news[s])
  <2> DEFINE q == buffer[s]
             x == added(s)
             p == q \o x
  <2>1. buffer'[s] = p /\ q \in Seq(MessagesOf(s)) /\ x \in Seq(MessagesOf(s))
    BY <1>2, <1>5 DEF StreamOK
  <2>2. /\ p \in Seq(MessagesOf(s)) /\ Len(p) = Len(q) + Len(x)
        /\ Len(q) \in Nat /\ Len(x) \in Nat
        /\ DOMAIN q = 1 .. Len(q) /\ DOMAIN x = 1 .. Len(x) /\ DOMAIN p = 1 .. Len(p)
        /\ \A i \in 1 .. Len(q) + Len(x) : p[i] = IF i <= Len(q) THEN q[i] ELSE x[i - Len(q)]
    BY <2>1, ConcatProperties
  <2>3. s \notin groups_joined => p = q
    BY <1>5, <2>1, ConcatEmptySeq
  <2>4. overrun' = {} /\ s \in groups_joined => p = q \o news[s]
    BY <1>3, <1>5
  <2> HIDE DEF p, q, x
  <2>5. ASSUME NEW i \in DOMAIN p
        PROVE  \/ i \in DOMAIN q /\ p[i] = q[i]
               \/ i \notin DOMAIN q /\ i - Len(q) \in DOMAIN x /\ p[i] = x[i - Len(q)]
    BY <2>2
  <2>6. Grown(p, q, news[s])
    BY <1>5, <2>5 DEF Grown, x
  <2> QED BY <2>1, <2>2, <2>3, <2>4, <2>6 DEF q
<1> QED BY <1>1, <1>2, <1>4, <1>6

(***************************************************************************)
(* The stream is made in six steps.                                        *)
(***************************************************************************)
LEMMA CreatedAtSix == Created <=> setup = 6
<1>1. Len(Creation) = 3
  BY DEF Creation
<1> QED BY <1>1 DEF Created

(***************************************************************************)
(* The truth is still under way after a change.                            *)
(***************************************************************************)
LEMMA TruthChanges ==
  ASSUME FeedOK, FeedOK', TruthUnderWay, NEW news, Change(news), Announcing(news),
         UNCHANGED <<stream, source, told>>
  PROVE  TruthUnderWay'
<1> SUFFICES ASSUME source = "stream", ~Lossy' PROVE LinksHeeded' /\ AddrsHeeded'
  BY DEF TruthUnderWay
<1>1. /\ overrun' = {} /\ overrun = {} /\ groups_joined' = groups_joined
      /\ \A s \in Sockets : /\ s \notin groups_joined => buffer'[s] = buffer[s]
                            /\ s \in groups_joined => buffer'[s] = buffer[s] \o news[s]
  BY Changed DEF Lossy, FeedOK
<1>2. LinksHeeded /\ AddrsHeeded
  BY <1>1 DEF TruthUnderWay, Lossy
<1>3. \A s \in Sockets : /\ s \in groups_joined <=> Joined(s)
                         /\ ~Joined(s) => buffer[s] = <<>> /\ ~Dumped(s) /\ ~Created
                         /\ buffer[s] \in Seq(MessagesOf(s)) /\ news[s] \in Seq(MessagesOf(s))
                         /\ Dumped(s)' = Dumped(s)
  <2>1. \A s \in Sockets : Place(s) \in 0 .. 2 /\ Dumped(s)' = Dumped(s)
    BY DEF Sockets, Place, Dumped, stream
  <2>2. setup \in Nat /\ (Created <=> setup = 6)
    BY CreatedAtSix DEF FeedOK, StreamOK
  <2>3. \A s \in Sockets : ~Joined(s) => ~Dumped(s) /\ ~Created
    BY <2>1, <2>2 DEF Joined, Dumped
  <2> QED BY <2>1, <2>3 DEF FeedOK, StreamOK, Announcing
<1>4. ~Created => told.links = Empty /\ told.addrs = {}
  BY DEF FeedOK, SourceOK
<1>5. told' = told
  OBVIOUS
<1>6. \A x : Silent(<<>>, x)
  BY DEF Silent
<1>7. ASSUME NEW l \in Indexes, Dumped("link")' \/ l \notin DOMAIN links'
      PROVE  Heeded(buffer'["link"], l, LinkNews(l)', LinkKnown(l)')
  <2>0. "link" \in Sockets
    BY DEF Sockets
  <2>1. CASE "link" \notin groups_joined
    <3>1. /\ buffer'["link"] = <<>> /\ l \notin DOMAIN links' /\ told'.links = Empty
      BY <1>1, <1>3, <1>4, <1>5, <1>7, <2>0, <2>1
    <3>2. LinkKnown(l)'
      BY <3>1 DEF LinkKnown, Empty
    <3> QED BY <1>6, <3>1, <3>2 DEF Heeded
  <2>2. CASE "link" \in groups_joined /\ LastSays(news["link"], l, LinkNews(l)')
    BY <1>1, <1>3, <2>0, <2>2, MoreSaid DEF Heeded
  <2>3. CASE "link" \in groups_joined /\ Silent(news["link"], l) /\ LinkSame(l)
    <3>1. LinkNews(l)' = LinkNews(l) /\ LinkKnown(l)' = LinkKnown(l)
      BY <1>5, <2>3 DEF LinkSame, LinkNews, LinkKnown
    <3>2. Dumped("link") \/ l \notin DOMAIN links
      BY <1>3, <1>7, <2>0, <2>3 DEF LinkSame
    <3>3. Heeded(buffer["link"], l, LinkNews(l), LinkKnown(l))
      BY <1>2, <3>2 DEF LinksHeeded
    <3> QED BY <1>1, <1>3, <2>0, <2>3, <3>1, <3>3, MoreSaid DEF Heeded
  <2> QED BY <2>1, <2>2, <2>3 DEF Announcing
<1>8. ASSUME NEW s \in Families, NEW a \in Of(s), Dumped(s)' \/ a \notin addrs'
      PROVE  Heeded(buffer'[s], a, AddrNews(a)', AddrKnown(a)')
  <2>0. s \in Sockets
    BY DEF Sockets, Families
  <2>1. CASE s \notin groups_joined
    <3>1. /\ buffer'[s] = <<>> /\ a \notin addrs' /\ told'.addrs = {}
      BY <1>1, <1>3, <1>4, <1>5, <1>8, <2>0, <2>1
    <3>2. AddrKnown(a)'
      BY <3>1 DEF AddrKnown
    <3> QED BY <1>6, <3>1, <3>2 DEF Heeded
  <2>2. CASE s \in groups_joined /\ LastSays(news[s], a, AddrNews(a)')
    BY <1>1, <1>3, <2>0, <2>2, MoreSaid DEF Heeded
  <2>3. CASE s \in groups_joined /\ Silent(news[s], a) /\ (a \in addrs' <=> a \in addrs)
    <3>1. AddrNews(a)' = AddrNews(a) /\ (AddrKnown(a)' <=> AddrKnown(a))
      BY <1>5, <2>3 DEF AddrNews, AddrKnown
    <3>2. Heeded(buffer[s], a, AddrNews(a), AddrKnown(a))
      BY <1>2, <1>3, <1>8, <2>0, <2>3 DEF AddrsHeeded
    <3> QED BY <1>1, <1>3, <2>0, <2>3, <3>1, <3>2, MoreSaid DEF Heeded
  <2> QED BY <2>1, <2>2, <2>3 DEF Announcing
<1> QED BY <1>7, <1>8 DEF LinksHeeded, AddrsHeeded

(***************************************************************************)
(* The engine still follows after a change: no link comes back.            *)
(***************************************************************************)
LEMMA FollowsChanges ==
  ASSUME FeedOK, Follows, NEW news, Change(news), Announcing(news),
         UNCHANGED <<vars, source, told>>
  PROVE  Follows'
<1> SUFFICES ASSUME source = "stream" PROVE DellinkIsLast' /\ EngineFollows'
  BY DEF Follows
<1> DEFINE q == buffer["link"]
           p == buffer'["link"]
           r == news["link"]
<1>1. "link" \in Sockets
  BY DEF Sockets
<1>2. Grown(p, q, r) /\ p \in Seq(MessagesOf("link")) /\ q \in Seq(MessagesOf("link"))
  BY <1>1, Changed DEF FeedOK, StreamOK
<1>3. /\ retired \subseteq retired' /\ DOMAIN r \subseteq {1}
      /\ \A j \in DOMAIN r : /\ r[j].type = "Newlink" => r[j].index \notin retired
                             /\ r[j].type = "Dellink" => r[j].index \in retired'
  BY DEF Announcing
<1>4. DellinkIsLast /\ EngineFollows
  BY DEF Follows
<1>5. ASSUME NEW l, Gone(l) PROVE Gone(l)'
  BY <1>2, <1>3, <1>5 DEF Gone, Grown
<1>6. DellinkIsLast'
  <2> SUFFICES ASSUME NEW i \in DOMAIN p, p[i].type = "Dellink"
               PROVE  /\ p[i].index \in retired'
                      /\ \A j \in DOMAIN p : j > i /\ p[j].type = "Newlink" =>
                            p[j].index # p[i].index
    BY DEF DellinkIsLast
  <2>1. CASE i \in DOMAIN q /\ p[i] = q[i]
    <3>1. /\ p[i].index \in retired
          /\ \A j \in DOMAIN q : j > i /\ q[j].type = "Newlink" => q[j].index # p[i].index
      BY <1>4, <2>1 DEF DellinkIsLast
    <3>2. ASSUME NEW j \in DOMAIN p, j > i, p[j].type = "Newlink"
          PROVE  p[j].index # p[i].index
      BY <1>2, <1>3, <3>1, <3>2 DEF Grown
    <3> QED BY <1>3, <3>1, <3>2
  <2>2. CASE i \notin DOMAIN q /\ \E k \in DOMAIN r : p[i] = r[k]
    <3>1. r[1].type = "Dellink" /\ p[i] = r[1] /\ p[i].index \in retired'
      BY <1>3, <2>2
    <3>2. ASSUME NEW j \in DOMAIN p, j > i, p[j].type = "Newlink" PROVE FALSE
      <4>1. j \notin DOMAIN q
        <5>1. /\ DOMAIN q = 1 .. Len(q) /\ DOMAIN p = 1 .. Len(p)
              /\ Len(q) \in Nat /\ Len(p) \in Nat
          BY <1>2
        <5> HIDE DEF p, q
        <5> QED BY <2>2, <3>2, <5>1
      <4>2. p[j] = r[1]
        BY <1>2, <1>3, <4>1 DEF Grown
      <4> QED BY <3>1, <3>2, <4>2
    <3> QED BY <3>1, <3>2
  <2> QED BY <1>2, <2>1, <2>2 DEF Grown
<1>7. EngineFollows'
  <2>1. /\ interfaces' = interfaces /\ groups' = groups /\ told' = told
    BY DEF vars, engine
  <2> QED BY <1>4, <1>5, <2>1 DEF EngineFollows, LinkFollows, AddrFollows
<1> QED BY <1>6, <1>7

(***************************************************************************)
(* A change of the kernel keeps the invariant.                             *)
(***************************************************************************)
LEMMA KernelStep ==
  ASSUME FeedOK, TruthUnderWay, Follows, Lists, KernelChanges
  PROVE  FeedOK' /\ TruthUnderWay' /\ Follows' /\ Lists'
<1>1. PICK news : Change(news) /\ Announcing(news) /\ KernelOK'
  BY KernelAnnounces DEF KernelChanges, FeedOK
<1>2. UNCHANGED <<stream, list, vars, source, told>>
  BY DEF KernelChanges
<1>3. StreamOK'
  <2>1. \A s \in Sockets : Joined(s)' = Joined(s)
    BY <1>2 DEF Joined, stream
  <2>2. /\ DOMAIN buffer' = Sockets /\ overrun' \subseteq Sockets /\ groups_joined' = groups_joined
        /\ \A s \in Sockets : /\ buffer'[s] \in Seq(MessagesOf(s))
                              /\ s \notin groups_joined => buffer'[s] = buffer[s]
    BY <1>1, Changed DEF FeedOK
  <2>3. Created' = Created /\ polling' = polling /\ setup' = setup /\ inner_turn' = inner_turn
    BY <1>2 DEF Created, stream
  <2> QED BY <2>1, <2>2, <2>3 DEF FeedOK, StreamOK
<1>4. FeedOK'
  <2>1. ToldOK'
    BY <1>2 DEF FeedOK, ToldOK
  <2>2. SourceOK'
    BY <1>2 DEF FeedOK, SourceOK, Created, stream, list
  <2> QED BY <1>1, <1>3, <2>1, <2>2 DEF FeedOK
<1>5. changes' # 0
  BY <1>1 DEF Change, FeedOK, KernelOK
<1>6. Lists'
  <2>1. source = "list" => ListOK /\ LinksListedFirst
    BY DEF Lists
  <2>2. source = "list" => ListOK' /\ LinksListedFirst'
    BY <1>2, <2>1 DEF ListOK, LinksListedFirst, list
  <2> QED BY <1>2, <1>5, <2>2 DEF Lists
<1>7. TruthUnderWay'
  BY <1>1, <1>2, <1>4, TruthChanges
<1>8. Follows'
  BY <1>1, <1>2, FollowsChanges
<1> QED BY <1>4, <1>6, <1>7, <1>8
-----------------------------------------------------------------------------
(* The stream is made.                                                     *)

(***************************************************************************)
(* Each socket joins its group, and then asks for the table.               *)
(***************************************************************************)
LEMMA CreateCases ==
  ASSUME StreamOK, Create
  PROVE  \E s \in Sockets :
            /\ \/ setup = 2 * Place(s) /\ Join(s)
               \/ setup = 2 * Place(s) + 1 /\ Dump(s)
            /\ setup' = setup + 1 /\ UNCHANGED <<polling, turn, inner_turn>>
<1>1. setup \in 0 .. 5
  BY CreatedAtSix DEF StreamOK, Create
<1> DEFINE s == Creation[setup \div 2 + 1]
<1>2. /\ s \in Sockets
      /\ setup % 2 = 0 => setup = 2 * Place(s)
      /\ setup % 2 # 0 => setup = 2 * Place(s) + 1
  <2>1. /\ Creation[1] = "link" /\ Creation[2] = "addr4" /\ Creation[3] = "addr6"
        /\ Place("link") = 0 /\ Place("addr4") = 1 /\ Place("addr6") = 2
        /\ "link" \in Sockets /\ "addr4" \in Sockets /\ "addr6" \in Sockets
    BY DEF Creation, Place, Sockets
  <2>2. setup = 0 \/ setup = 1 \/ setup = 2 \/ setup = 3 \/ setup = 4 \/ setup = 5
    BY <1>1
  <2>3. CASE setup = 0 \/ setup = 1
    BY <2>1, <2>3
  <2>4. CASE setup = 2 \/ setup = 3
    BY <2>1, <2>4
  <2>5. CASE setup = 4 \/ setup = 5
    BY <2>1, <2>5
  <2> QED BY <2>2, <2>3, <2>4, <2>5
<1>3. /\ IF setup % 2 = 0 THEN Join(s) ELSE Dump(s)
      /\ setup' = setup + 1 /\ UNCHANGED <<polling, turn, inner_turn>>
  BY DEF Create
<1> QED BY <1>2, <1>3

(***************************************************************************)
(* Which sockets have joined, and which have been sent the table.          *)
(***************************************************************************)
LEMMA Progress ==
  ASSUME NEW s \in Sockets, NEW t \in Sockets, setup' = setup + 1
  PROVE  /\ setup = 2 * Place(s) =>
               /\ Joined(t)' <=> Joined(t) \/ t = s
               /\ Dumped(t)' <=> Dumped(t)
               /\ ~Joined(s)
         /\ setup = 2 * Place(s) + 1 =>
               /\ Joined(t)' <=> Joined(t)
               /\ Dumped(t)' <=> Dumped(t) \/ t = s
               /\ Joined(s)
<1>1. /\ Place("link") = 0 /\ Place("addr4") = 1 /\ Place("addr6") = 2
      /\ s \in {"link", "addr4", "addr6"} /\ t \in {"link", "addr4", "addr6"}
  BY DEF Place, Sockets
<1>2. Place(s) \in 0 .. 2 /\ Place(t) \in 0 .. 2 /\ (Place(t) = Place(s) => t = s)
  BY <1>1
<1> QED BY <1>2 DEF Joined, Dumped

\* What a dump says: how every link or address in the table is now, and no more.
Dumping(s, r) ==
    /\ r \in Seq(MessagesOf(s))
    /\ s = "link" =>
          /\ \A l \in Indexes : IF l \in DOMAIN links THEN LastSays(r, l, LinkNews(l))
                                ELSE Silent(r, l)
          /\ \A j \in DOMAIN r : /\ r[j].type # "Dellink"
                                 /\ r[j].type = "Newlink" => r[j].index \notin retired
    /\ s \in Families =>
          \A a \in Of(s) : IF a \in addrs THEN LastSays(r, a, AddrNews(a)) ELSE Silent(r, a)

(***************************************************************************)
(* The end of a dump adds nothing.                                         *)
(***************************************************************************)
LEMMA DoneSaysNothing ==
  ASSUME NEW S, NEW q \in Seq(S), NEW x, NEW m
  PROVE  /\ LastSays(q, x, m) => LastSays(Append(q, Done), x, m)
         /\ Silent(q, x) => Silent(Append(q, Done), x)
         /\ \A i \in DOMAIN Append(q, Done) :
               (i \in DOMAIN q /\ Append(q, Done)[i] = q[i]) \/ Append(q, Done)[i] = Done
<1>1. /\ Len(q) \in Nat /\ DOMAIN q = 1 .. Len(q)
      /\ DOMAIN Append(q, Done) = 1 .. Len(q) + 1
      /\ \A i \in 1 .. Len(q) : Append(q, Done)[i] = q[i]
      /\ Append(q, Done)[Len(q) + 1] = Done
  BY DEF Done
<1> DEFINE p == Append(q, Done)
<1>2. ~Concerns(Done, x)
  BY Meaning
<1> HIDE DEF p
<1>3. \A i \in DOMAIN p : (i \in DOMAIN q /\ p[i] = q[i]) \/ p[i] = Done
  BY <1>1 DEF p
<1>4. ASSUME LastSays(q, x, m) PROVE LastSays(p, x, m)
  <2>1. PICK i \in DOMAIN q : q[i] = m /\ \A j \in DOMAIN q : j > i => ~Concerns(q[j], x)
    BY <1>4 DEF LastSays
  <2>2. i \in DOMAIN p /\ p[i] = m
    BY <1>1, <2>1 DEF p
  <2>3. \A j \in DOMAIN p : j > i => ~Concerns(p[j], x)
    BY <1>2, <1>3, <2>1
  <2> QED BY <2>2, <2>3 DEF LastSays
<1>5. Silent(q, x) => Silent(p, x)
  BY <1>2, <1>3 DEF Silent
<1> QED BY <1>3, <1>4, <1>5 DEF p

(***************************************************************************)
(* Messages in any order, one for each x in X.                             *)
(***************************************************************************)
LEMMA InAnyOrder ==
  ASSUME NEW S, IsFiniteSet(S), NEW order \in SetToSeqs(S), NEW x
  PROVE  /\ (\A m \in S : ~Concerns(m, x)) => Silent(order, x)
         /\ \A m \in S : (\A n \in S : Concerns(n, x) => n = m) => LastSays(order, x, m)
<1>1. /\ order \in Seq(S) /\ \A i \in DOMAIN order : order[i] \in S
      /\ \A y \in S : \E i \in DOMAIN order : order[i] = y
  BY OrderMembers
<1>2. \A i, j \in DOMAIN order : i # j => order[i] # order[j]
  BY DEF SetToSeqs
<1>3. DOMAIN order \subseteq Nat
  BY <1>1
<1>4. ASSUME NEW m \in S, \A n \in S : Concerns(n, x) => n = m PROVE LastSays(order, x, m)
  <2>1. PICK i \in DOMAIN order : order[i] = m
    BY <1>1
  <2>2. \A j \in DOMAIN order : j > i => ~Concerns(order[j], x)
    BY <1>1, <1>2, <1>3, <1>4, <2>1
  <2> QED BY <2>1, <2>2 DEF LastSays
<1> QED BY <1>1, <1>4 DEF Silent

(***************************************************************************)
(* The dump of the links, or of the addresses of a family.                 *)
(***************************************************************************)
LEMMA DumpSays ==
  ASSUME KernelOK, NEW s \in Sockets, Dump(s), DOMAIN buffer = Sockets
  PROVE  /\ \E r : Dumping(s, r) /\ buffer' = [buffer EXCEPT ![s] = buffer[s] \o r]
         /\ UNCHANGED <<kernel, groups_joined, overrun>>
<1> DEFINE entries == IF s = "link" THEN {Newlink(l, links[l]) : l \in DOMAIN links}
                      ELSE {Newaddr(a) : a \in addrs \cap Of(s)}
<1>1. PICK table \in SetToSeqs(entries) :
         buffer' = [buffer EXCEPT ![s] = buffer[s] \o Append(table, Done)]
  BY DEF Dump
<1>2. UNCHANGED <<kernel, groups_joined, overrun>>
  BY DEF Dump
<1>3. IsFiniteSet(entries)
  <2>1. CASE s = "link"
    <3>1. IsFiniteSet(DOMAIN links)
      BY KernelAssumption, FS_Subset DEF KernelOK
    <3> DEFINE f == [l \in DOMAIN links |-> Newlink(l, links[l])]
    <3>2. f \in Surjection(DOMAIN links, entries)
      BY <2>1 DEF Surjection
    <3> QED BY <3>1, <3>2, FS_Surjection
  <2>2. CASE s # "link"
    <3>1. IsFiniteSet(addrs \cap Of(s))
      BY KernelAssumption, FS_Subset DEF Of
    <3> DEFINE f == [a \in addrs \cap Of(s) |-> Newaddr(a)]
    <3>2. f \in Surjection(addrs \cap Of(s), entries)
      BY <2>2 DEF Surjection
    <3> QED BY <3>1, <3>2, FS_Surjection
  <2> QED BY <2>1, <2>2
<1> DEFINE r == Append(table, Done)
<1>4. /\ table \in Seq(entries) /\ \A i \in DOMAIN table : table[i] \in entries
      /\ \A x : /\ (\A m \in entries : ~Concerns(m, x)) => Silent(table, x)
                /\ \A m \in entries :
                      (\A n \in entries : Concerns(n, x) => n = m) => LastSays(table, x, m)
  BY <1>1, <1>3, OrderMembers, InAnyOrder
<1>5. entries \subseteq MessagesOf(s) /\ Done \in MessagesOf(s)
  <2>1. CASE s = "link"
    BY <2>1 DEF MessagesOf, KernelOK
  <2>2. CASE s # "link"
    BY <2>2 DEF MessagesOf
  <2> QED BY <2>1, <2>2
<1>6. r \in Seq(MessagesOf(s))
  <2> HIDE DEF entries
  <2>1. table \in Seq(MessagesOf(s))
    BY <1>4, <1>5
  <2> QED BY <1>5, <2>1, AppendProperties
<1>7. /\ \A x, m : LastSays(table, x, m) => LastSays(r, x, m)
      /\ \A x : Silent(table, x) => Silent(r, x)
      /\ \A j \in DOMAIN r : (j \in DOMAIN table /\ r[j] = table[j]) \/ r[j] = Done
  BY <1>4, DoneSaysNothing
<1> HIDE DEF r
<1>8. ASSUME s = "link"
      PROVE  /\ \A l \in Indexes : IF l \in DOMAIN links THEN LastSays(r, l, LinkNews(l))
                                   ELSE Silent(r, l)
             /\ \A j \in DOMAIN r : /\ r[j].type # "Dellink"
                                    /\ r[j].type = "Newlink" => r[j].index \notin retired
  <2>1. entries = {Newlink(l, links[l]) : l \in DOMAIN links}
    BY <1>8
  <2> HIDE DEF entries
  <2>2. ASSUME NEW l \in DOMAIN links PROVE LastSays(r, l, LinkNews(l))
    <3>1. LinkNews(l) \in entries /\ \A n \in entries : Concerns(n, l) => n = LinkNews(l)
      BY <2>1, Meaning DEF LinkNews
    <3> QED BY <1>4, <1>7, <3>1
  <2>3. ASSUME NEW l, l \notin DOMAIN links PROVE Silent(r, l)
    <3>1. \A n \in entries : ~Concerns(n, l)
      BY <2>1, <2>3, Meaning
    <3> QED BY <1>4, <1>7, <3>1
  <2>4. ASSUME NEW j \in DOMAIN r
        PROVE  r[j].type # "Dellink" /\ (r[j].type = "Newlink" => r[j].index \notin retired)
    <3>1. CASE r[j] = Done
      BY <3>1, Meaning
    <3>2. CASE r[j] \in entries
      <4>1. PICK l \in DOMAIN links : r[j] = Newlink(l, links[l])
        BY <2>1, <3>2
      <4> QED BY <4>1, Meaning DEF KernelOK
    <3> QED BY <1>4, <1>7, <3>1, <3>2
  <2> QED BY <2>2, <2>3, <2>4
<1>9. ASSUME s \in Families
      PROVE  \A a \in Of(s) : IF a \in addrs THEN LastSays(r, a, AddrNews(a)) ELSE Silent(r, a)
  <2>1. entries = {Newaddr(a) : a \in addrs \cap Of(s)}
    BY <1>9 DEF Families
  <2> HIDE DEF entries
  <2>2. ASSUME NEW a \in Of(s), a \in addrs PROVE LastSays(r, a, AddrNews(a))
    <3>1. AddrNews(a) \in entries /\ \A n \in entries : Concerns(n, a) => n = AddrNews(a)
      BY <2>1, <2>2, Meaning DEF AddrNews
    <3> QED BY <1>4, <1>7, <3>1
  <2>3. ASSUME NEW a \in Of(s), a \notin addrs PROVE Silent(r, a)
    <3>1. \A n \in entries : ~Concerns(n, a)
      BY <2>1, <2>3, Meaning
    <3> QED BY <1>4, <1>7, <3>1
  <2> QED BY <2>2, <2>3
<1>10. Dumping(s, r)
  <2> HIDE DEF entries
  <2> QED BY <1>6, <1>8, <1>9 DEF Dumping
<1> QED BY <1>1, <1>2, <1>10 DEF r

(***************************************************************************)
(* A socket joins its group.                                               *)
(***************************************************************************)
LEMMA JoinStep ==
  ASSUME FeedOK, TruthUnderWay, Follows, source = "stream", NEW s \in Sockets,
         setup = 2 * Place(s), setup' = setup + 1, Join(s),
         UNCHANGED <<polling, turn, inner_turn, list, vars, source, told>>
  PROVE  FeedOK' /\ TruthUnderWay' /\ Follows'
<1>1. /\ groups_joined' = groups_joined \cup {s} /\ buffer' = buffer /\ overrun' = overrun
      /\ links' = links /\ addrs' = addrs /\ retired' = retired /\ changes' = changes
  BY DEF Join, kernel
<1>2. \A t \in Sockets : /\ Joined(t)' <=> Joined(t) \/ t = s
                         /\ Dumped(t)' <=> Dumped(t)
  BY Progress
<1>3. setup' \in 0 .. 6 /\ ~Created
  <2>1. Place(s) \in 0 .. 2
    BY DEF Place
  <2> QED BY <2>1, CreatedAtSix DEF FeedOK, StreamOK
<1>4. FeedOK'
  <2>1. KernelOK' /\ ToldOK'
    BY <1>1 DEF FeedOK, KernelOK, ToldOK
  <2>2. StreamOK'
    BY <1>1, <1>2, <1>3 DEF FeedOK, StreamOK
  <2>3. SourceOK'
    BY <1>3 DEF FeedOK, SourceOK, list
  <2> QED BY <2>1, <2>2, <2>3 DEF FeedOK
<1>5. TruthUnderWay'
  <2>1. "link" \in Sockets /\ \A f \in Families : f \in Sockets
    BY DEF Sockets, Families
  <2>2. (Lossy' <=> Lossy) /\ \A l : LinkNews(l)' = LinkNews(l) /\ LinkKnown(l)' = LinkKnown(l)
    BY <1>1 DEF Lossy, LinkNews, LinkKnown
  <2>3. \A a : AddrNews(a)' = AddrNews(a) /\ (AddrKnown(a)' <=> AddrKnown(a))
    BY <1>1 DEF AddrNews, AddrKnown
  <2> QED BY <1>1, <1>2, <2>1, <2>2, <2>3
          DEF TruthUnderWay, LinksHeeded, AddrsHeeded, Heeded
<1>6. Follows'
  BY <1>1 DEF Follows, DellinkIsLast, EngineFollows, LinkFollows, AddrFollows, Gone,
                     vars, engine
<1> QED BY <1>4, <1>5, <1>6

(***************************************************************************)
(* A socket is sent the table: what it is told of is the truth from now on.*)
(***************************************************************************)
LEMMA DumpStep ==
  ASSUME FeedOK, TruthUnderWay, Follows, source = "stream", NEW s \in Sockets,
         setup = 2 * Place(s) + 1, setup' = setup + 1, Dump(s),
         UNCHANGED <<polling, turn, inner_turn, list, vars, source, told>>
  PROVE  FeedOK' /\ TruthUnderWay' /\ Follows'
<1>1. PICK r : Dumping(s, r) /\ buffer' = [buffer EXCEPT ![s] = buffer[s] \o r]
  BY DumpSays DEF FeedOK, StreamOK
<1>2. /\ groups_joined' = groups_joined /\ overrun' = overrun
      /\ links' = links /\ addrs' = addrs /\ retired' = retired /\ changes' = changes
  BY DumpSays DEF FeedOK, StreamOK, kernel
<1>3. \A t \in Sockets : /\ Joined(t)' <=> Joined(t)
                         /\ Dumped(t)' <=> Dumped(t) \/ t = s
                         /\ Joined(s)
  BY Progress
<1>4. setup' \in 0 .. 6 /\ ~Created /\ polling = <<>>
  <2>1. Place(s) \in 0 .. 2
    BY DEF Place
  <2> QED BY <2>1, CreatedAtSix DEF FeedOK, StreamOK
<1>5. /\ DOMAIN buffer' = Sockets /\ buffer'[s] = buffer[s] \o r
      /\ \A t \in Sockets : t # s => buffer'[t] = buffer[t]
  BY <1>1 DEF FeedOK, StreamOK
<1>6. buffer[s] \in Seq(MessagesOf(s)) /\ r \in Seq(MessagesOf(s))
  BY <1>1 DEF FeedOK, StreamOK, Dumping
<1>7. FeedOK'
  <2>1. KernelOK' /\ ToldOK'
    BY <1>2 DEF FeedOK, KernelOK, ToldOK
  <2>2. buffer'[s] \in Seq(MessagesOf(s))
    BY <1>5, <1>6, ConcatProperties
  <2>3. StreamOK'
    BY <1>2, <1>3, <1>4, <1>5, <2>2 DEF FeedOK, StreamOK
  <2>4. SourceOK'
    BY <1>4 DEF FeedOK, SourceOK, list
  <2> QED BY <2>1, <2>3, <2>4 DEF FeedOK
<1>8. TruthUnderWay'
  <2> SUFFICES ASSUME ~Lossy' PROVE LinksHeeded' /\ AddrsHeeded'
    BY DEF TruthUnderWay
  <2>1. "link" \in Sockets /\ \A f \in Families : f \in Sockets /\ f # "link"
    BY DEF Sockets, Families
  <2>2. LinksHeeded /\ AddrsHeeded
    BY <1>2 DEF TruthUnderWay, Lossy
  <2>3. \A l : LinkNews(l)' = LinkNews(l) /\ LinkKnown(l)' = LinkKnown(l)
    BY <1>2 DEF LinkNews, LinkKnown
  <2>4. \A a : AddrNews(a)' = AddrNews(a) /\ (AddrKnown(a)' <=> AddrKnown(a))
    BY <1>2 DEF AddrNews, AddrKnown
  <2>5. ASSUME NEW l \in Indexes, Dumped("link")' \/ l \notin DOMAIN links'
        PROVE  Heeded(buffer'["link"], l, LinkNews(l), LinkKnown(l))
    <3>1. CASE s # "link"
      BY <1>2, <1>3, <1>5, <2>1, <2>2, <2>5, <3>1 DEF LinksHeeded
    <3>2. CASE s = "link" /\ l \in DOMAIN links
      <4>1. LastSays(r, l, LinkNews(l))
        BY <1>1, <3>2 DEF Dumping
      <4> QED BY <1>5, <1>6, <3>2, <4>1, MoreSaid DEF Heeded
    <3>3. CASE s = "link" /\ l \notin DOMAIN links
      <4>1. Silent(r, l)
        BY <1>1, <3>3 DEF Dumping
      <4>2. Heeded(buffer[s], l, LinkNews(l), LinkKnown(l))
        BY <2>2, <3>3 DEF LinksHeeded
      <4> QED BY <1>5, <1>6, <3>3, <4>1, <4>2, MoreSaid DEF Heeded
    <3> QED BY <3>1, <3>2, <3>3
  <2>6. ASSUME NEW f \in Families, NEW a \in Of(f), Dumped(f)' \/ a \notin addrs'
        PROVE  Heeded(buffer'[f], a, AddrNews(a), AddrKnown(a))
    <3>1. CASE s # f
      BY <1>2, <1>3, <1>5, <2>1, <2>2, <2>6, <3>1 DEF AddrsHeeded
    <3>2. CASE s = f /\ a \in addrs
      <4>1. LastSays(r, a, AddrNews(a))
        BY <1>1, <3>2 DEF Dumping
      <4> QED BY <1>5, <1>6, <3>2, <4>1, MoreSaid DEF Heeded
    <3>3. CASE s = f /\ a \notin addrs
      <4>1. Silent(r, a)
        BY <1>1, <3>3 DEF Dumping
      <4>2. Heeded(buffer[s], a, AddrNews(a), AddrKnown(a))
        BY <2>2, <3>3 DEF AddrsHeeded
      <4> QED BY <1>5, <1>6, <3>3, <4>1, <4>2, MoreSaid DEF Heeded
    <3> QED BY <3>1, <3>2, <3>3
  <2>7. LinksHeeded'
    BY <2>3, <2>5 DEF LinksHeeded
  <2>8. AddrsHeeded'
    BY <2>4, <2>6 DEF AddrsHeeded
  <2> QED BY <2>7, <2>8
<1>9. Follows'
  <2>1. DellinkIsLast /\ EngineFollows
    BY <1>2 DEF Follows
  <2>2. /\ interfaces' = interfaces /\ groups' = groups /\ told' = told
    BY DEF vars, engine
  <2>3. CASE s # "link"
    <3>1. buffer'["link"] = buffer["link"]
      BY <1>5, <2>3 DEF Sockets
    <3> QED BY <1>2, <2>1, <2>2, <3>1 DEF Follows, DellinkIsLast, EngineFollows, LinkFollows, AddrFollows, Gone
  <2>4. CASE s = "link"
    <3> DEFINE q == buffer["link"]
               p == buffer'["link"]
    <3>1. /\ p = q \o r /\ q \in Seq(MessagesOf("link")) /\ r \in Seq(MessagesOf("link"))
      BY <1>5, <1>6, <2>4
    <3>2. /\ Len(p) = Len(q) + Len(r) /\ Len(q) \in Nat /\ Len(r) \in Nat
          /\ DOMAIN q = 1 .. Len(q) /\ DOMAIN r = 1 .. Len(r) /\ DOMAIN p = 1 .. Len(p)
          /\ \A i \in 1 .. Len(q) + Len(r) : p[i] = IF i <= Len(q) THEN q[i] ELSE r[i - Len(q)]
      BY <3>1, ConcatProperties
    <3> HIDE DEF p, q
    <3>3. \A i \in DOMAIN p : \/ i \in DOMAIN q /\ p[i] = q[i]
                              \/ \E j \in DOMAIN r : p[i] = r[j]
      <4>1. ASSUME NEW i \in DOMAIN p, i \notin DOMAIN q
            PROVE  i - Len(q) \in DOMAIN r /\ p[i] = r[i - Len(q)]
        BY <3>2, <4>1
      <4> QED BY <3>2, <4>1
    <3>4. \A j \in DOMAIN r : /\ r[j].type # "Dellink"
                              /\ r[j].type = "Newlink" => r[j].index \notin retired
      BY <1>1, <2>4 DEF Dumping
    <3>5. \A l : Gone(l) => Gone(l)'
      BY <1>2, <3>3, <3>4 DEF Gone, p, q
    <3>6. DellinkIsLast'
      <4> SUFFICES ASSUME NEW i \in DOMAIN p, p[i].type = "Dellink"
                   PROVE  /\ p[i].index \in retired
                          /\ \A j \in DOMAIN p : j > i /\ p[j].type = "Newlink" =>
                                p[j].index # p[i].index
        BY <1>2 DEF DellinkIsLast, p
      <4>1. i \in DOMAIN q /\ p[i] = q[i]
        BY <3>3, <3>4
      <4>2. /\ p[i].index \in retired
            /\ \A j \in DOMAIN q : j > i /\ q[j].type = "Newlink" => q[j].index # p[i].index
        BY <2>1, <4>1 DEF DellinkIsLast, q
      <4> QED BY <3>3, <3>4, <4>2
    <3>7. EngineFollows'
      BY <2>1, <2>2, <3>5 DEF EngineFollows, LinkFollows, AddrFollows
    <3> QED BY <3>6, <3>7 DEF Follows
  <2> QED BY <2>3, <2>4
<1> QED BY <1>7, <1>8, <1>9

(***************************************************************************)
(* Making the stream keeps the invariant.                                  *)
(***************************************************************************)
LEMMA CreateStep ==
  ASSUME FeedOK, TruthUnderWay, Follows, Lists, CreateStream
  PROVE  FeedOK' /\ TruthUnderWay' /\ Follows' /\ Lists'
<1>1. source = "stream" /\ Create /\ UNCHANGED <<list, vars, source, told>>
  BY DEF CreateStream
<1>2. PICK s \in Sockets : /\ \/ setup = 2 * Place(s) /\ Join(s)
                              \/ setup = 2 * Place(s) + 1 /\ Dump(s)
                           /\ setup' = setup + 1 /\ UNCHANGED <<polling, turn, inner_turn>>
  BY <1>1, CreateCases DEF FeedOK
<1>3. FeedOK' /\ TruthUnderWay' /\ Follows'
  BY <1>1, <1>2, JoinStep, DumpStep
<1> QED BY <1>1, <1>3 DEF Lists
-----------------------------------------------------------------------------
(* The stream is polled.                                                   *)

(***************************************************************************)
(* The event that a message stands for; only the end of a dump means none. *)
(***************************************************************************)
LEMMA MeansEvent ==
  ASSUME NEW s \in Sockets, NEW m \in MessagesOf(s)
  PROVE  /\ Translated(s, m) = {} => m = Done
         /\ \A e \in Translated(s, m) :
               \/ /\ s = "link"
                  /\ \/ \E l \in Indexes : \E f \in FlagSets :
                           m = Newlink(l, f) /\ e = NewLink(l, map_flags(f))
                     \/ \E l \in Indexes : m = Dellink(l) /\ e = DelLink(l)
               \/ /\ s \in Families
                  /\ \E a \in Of(s) : \/ m = Newaddr(a) /\ e = NewAddr(IfaceOf[a], a)
                                      \/ m = Deladdr(a) /\ e = DelAddr(IfaceOf[a], a)
<1>1. CASE s = "link"
  <2>1. \/ m = Done
        \/ \E l \in Indexes : \E f \in FlagSets : m = Newlink(l, f)
        \/ \E l \in Indexes : m = Dellink(l)
    BY <1>1 DEF MessagesOf
  <2>2. CASE m = Done
    BY <1>1, <2>2, Meaning DEF Translated, translate_link_message
  <2>3. ASSUME NEW l \in Indexes, NEW f \in FlagSets, m = Newlink(l, f)
        PROVE  Translated(s, m) = {NewLink(l, map_flags(f))}
    BY <1>1, <2>3, Meaning DEF Translated, translate_link_message
  <2>4. ASSUME NEW l \in Indexes, m = Dellink(l)
        PROVE  Translated(s, m) = {DelLink(l)}
    BY <1>1, <2>4, Meaning DEF Translated, translate_link_message
  <2> QED BY <1>1, <2>1, <2>2, <2>3, <2>4
<1>2. CASE s # "link"
  <2>0. s \in Families
    BY <1>2 DEF Sockets, Families
  <2>1. \/ m = Done
        \/ \E a \in Of(s) : m = Newaddr(a)
        \/ \E a \in Of(s) : m = Deladdr(a)
    BY <1>2 DEF MessagesOf
  <2>2. CASE m = Done
    BY <1>2, <2>2, Meaning DEF Translated, translate_addr_message
  <2>3. ASSUME NEW a \in Of(s), m = Newaddr(a)
        PROVE  Translated(s, m) = {NewAddr(IfaceOf[a], a)}
    BY <1>2, <2>3, Meaning DEF Translated, translate_addr_message
  <2>4. ASSUME NEW a \in Of(s), m = Deladdr(a)
        PROVE  Translated(s, m) = {DelAddr(IfaceOf[a], a)}
    BY <1>2, <2>4, Meaning DEF Translated, translate_addr_message
  <2> QED BY <2>0, <2>1, <2>2, <2>3, <2>4
<1> QED BY <1>1, <1>2

(***************************************************************************)
(* What a consumer makes of a NewLink event.                               *)
(***************************************************************************)
LEMMA AccountsNewLink ==
  ASSUME ToldOK, NEW l, NEW x, told' = Recorded(NewLink(l, x))
  PROVE  /\ DOMAIN told'.links = DOMAIN told.links \cup {l}
         /\ \A k \in DOMAIN told'.links :
               told'.links[k] = IF k = l THEN x ELSE told.links[k]
         /\ told'.addrs = told.addrs /\ told'.early = told.early
         /\ told'.lossy = told.lossy
         /\ told.wavers \subseteq told'.wavers
         /\ l \in DOMAIN told.links \ told'.wavers =>
               ("MULTICAST" \in x <=> "MULTICAST" \in told.links[l])
         /\ l \in Indexes /\ x \subseteq Known => ToldOK'
<1>0. told \in [links : {told.links}, addrs : SUBSET Addresses,
                early : SUBSET Addresses, wavers : SUBSET Indexes, lossy : BOOLEAN]
  BY DEF ToldOK
<1> DEFINE F == [k \in DOMAIN told.links \cup {l} |-> IF k = l THEN x ELSE told.links[k]]
           W == IF l \in DOMAIN told.links
                   /\ ~("MULTICAST" \in x <=> "MULTICAST" \in told.links[l])
                THEN told.wavers \cup {l} ELSE told.wavers
<1>1. told' = [told EXCEPT !.links = F, !.wavers = W]
  BY DEF Recorded, NewLink, Wavers
<1>2. l \in Indexes => W \in SUBSET Indexes
  BY <1>0
<1>3. /\ told'.links = F /\ told'.addrs = told.addrs /\ told'.early = told.early
      /\ told'.lossy = told.lossy /\ told'.wavers = W
      /\ l \in Indexes => told' \in [links : {F}, addrs : SUBSET Addresses,
            early : SUBSET Addresses, wavers : SUBSET Indexes, lossy : BOOLEAN]
  <2> HIDE DEF F, W
  <2> QED BY <1>0, <1>1, <1>2
<1> QED BY <1>3 DEF ToldOK

(***************************************************************************)
(* What a consumer makes of a DelLink event.                               *)
(***************************************************************************)
LEMMA AccountsDelLink ==
  ASSUME ToldOK, NEW l, told' = Recorded(DelLink(l))
  PROVE  /\ DOMAIN told'.links = DOMAIN told.links \ {l}
         /\ \A k \in DOMAIN told'.links : told'.links[k] = told.links[k]
         /\ told'.addrs = told.addrs /\ told'.early = told.early
         /\ told'.wavers = told.wavers /\ told'.lossy = told.lossy /\ ToldOK'
<1>0. told \in [links : {told.links}, addrs : SUBSET Addresses,
                early : SUBSET Addresses, wavers : SUBSET Indexes, lossy : BOOLEAN]
  BY DEF ToldOK
<1> DEFINE F == [k \in DOMAIN told.links \ {l} |-> told.links[k]]
<1>1. told' = [told EXCEPT !.links = F]
  BY DEF Recorded, DelLink
<1>2. /\ told'.links = F /\ told'.addrs = told.addrs /\ told'.early = told.early
      /\ told'.wavers = told.wavers /\ told'.lossy = told.lossy
      /\ told' \in [links : {F}, addrs : SUBSET Addresses, early : SUBSET Addresses,
                    wavers : SUBSET Indexes, lossy : BOOLEAN]
  <2> HIDE DEF F
  <2> QED BY <1>0, <1>1
<1> QED BY <1>2 DEF ToldOK

(***************************************************************************)
(* What a consumer makes of a NewAddr event.                               *)
(***************************************************************************)
LEMMA AccountsNewAddr ==
  ASSUME ToldOK, NEW l, NEW x, told' = Recorded(NewAddr(l, x))
  PROVE  /\ told'.links = told.links /\ told'.addrs = told.addrs \cup {x}
         /\ told'.early = IF l \in DOMAIN told.links THEN told.early
                          ELSE told.early \cup {x}
         /\ told'.wavers = told.wavers /\ told'.lossy = told.lossy
         /\ x \in Addresses => ToldOK'
<1>0. told \in [links : {told.links}, addrs : SUBSET Addresses,
                early : SUBSET Addresses, wavers : SUBSET Indexes, lossy : BOOLEAN]
  BY DEF ToldOK
<1>1. told' = [told EXCEPT !.addrs = @ \cup {x},
                           !.early = IF l \in DOMAIN told.links THEN @ ELSE @ \cup {x}]
  BY DEF Recorded, NewAddr
<1>2. /\ told'.links = told.links /\ told'.addrs = told.addrs \cup {x}
      /\ told'.early = IF l \in DOMAIN told.links THEN told.early ELSE told.early \cup {x}
      /\ told'.wavers = told.wavers /\ told'.lossy = told.lossy
  BY <1>0, <1>1
<1>3. x \in Addresses =>
         told' \in [links : {told.links}, addrs : SUBSET Addresses,
                    early : SUBSET Addresses, wavers : SUBSET Indexes, lossy : BOOLEAN]
  <2> DEFINE E == IF l \in DOMAIN told.links THEN told.early ELSE told.early \cup {x}
  <2>1. told' = [told EXCEPT !.addrs = told.addrs \cup {x}, !.early = E]
    BY <1>1
  <2>2. x \in Addresses => E \in SUBSET Addresses
    BY <1>0
  <2> HIDE DEF E
  <2> QED BY ONLY <1>0, <2>1, <2>2
<1> QED BY <1>2, <1>3 DEF ToldOK

(***************************************************************************)
(* What a consumer makes of a DelAddr event.                               *)
(***************************************************************************)
LEMMA AccountsDelAddr ==
  ASSUME ToldOK, NEW l, NEW x, told' = Recorded(DelAddr(l, x))
  PROVE  /\ told'.links = told.links /\ told'.addrs = told.addrs \ {x}
         /\ told'.early = told.early /\ told'.wavers = told.wavers
         /\ told'.lossy = told.lossy /\ ToldOK'
<1>0. told \in [links : {told.links}, addrs : SUBSET Addresses,
                early : SUBSET Addresses, wavers : SUBSET Indexes, lossy : BOOLEAN]
  BY DEF ToldOK
<1>1. told' = [told EXCEPT !.addrs = @ \ {x}]
  BY DEF Recorded, DelAddr
<1>2. /\ told'.links = told.links /\ told'.addrs = told.addrs \ {x}
      /\ told'.early = told.early /\ told'.wavers = told.wavers /\ told'.lossy = told.lossy
      /\ told' \in [links : {told.links}, addrs : SUBSET Addresses,
                    early : SUBSET Addresses, wavers : SUBSET Indexes, lossy : BOOLEAN]
  BY <1>0, <1>1
<1> QED BY <1>2 DEF ToldOK

(***************************************************************************)
(* A message is taken from a socket's buffer.                              *)
(***************************************************************************)
LEMMA Taken ==
  ASSUME FeedOK, NEW s \in Sockets, RecvMessage(s)
  PROVE  /\ buffer[s] \in Seq(MessagesOf(s)) /\ buffer[s] # <<>>
         /\ Head(buffer[s]) \in MessagesOf(s) /\ Tail(buffer[s]) \in Seq(MessagesOf(s))
         /\ buffer'[s] = Tail(buffer[s]) /\ DOMAIN buffer' = Sockets
         /\ \A t \in Sockets : t # s => buffer'[t] = buffer[t]
         /\ Joined(s)
         /\ links' = links /\ addrs' = addrs /\ retired' = retired /\ changes' = changes
         /\ groups_joined' = groups_joined /\ overrun' = overrun
<1>1. /\ buffer[s] # <<>> /\ buffer' = [buffer EXCEPT ![s] = Tail(@)]
      /\ links' = links /\ addrs' = addrs /\ retired' = retired /\ changes' = changes
      /\ groups_joined' = groups_joined /\ overrun' = overrun
  BY DEF RecvMessage, kernel
<1>2. DOMAIN buffer = Sockets /\ buffer[s] \in Seq(MessagesOf(s)) /\ Joined(s)
  BY <1>1 DEF FeedOK, StreamOK
<1>3. Head(buffer[s]) \in MessagesOf(s) /\ Tail(buffer[s]) \in Seq(MessagesOf(s))
  BY <1>1, <1>2, HeadTailProperties
<1> QED BY <1>1, <1>2, <1>3

(***************************************************************************)
(* The truth is still under way when a message has been received, and the  *)
(* consumer's account has changed as the message says, if at all.          *)
(***************************************************************************)
LEMMA TruthReceived ==
  ASSUME FeedOK, TruthUnderWay, NEW s \in Sockets, RecvMessage(s),
         setup' = setup, source' = source, told'.lossy = told.lossy,
         \A l \in Indexes : ~Concerns(Head(buffer[s]), l) \/ s # "link" =>
            (LinkKnown(l)' <=> LinkKnown(l)),
         \A l \in Indexes : s = "link" /\ Head(buffer[s]) = LinkNews(l) => LinkKnown(l)',
         \A a \in Addresses : ~Concerns(Head(buffer[s]), a) \/ s = "link" =>
            (AddrKnown(a)' <=> AddrKnown(a)),
         \A a \in Addresses : s # "link" /\ Head(buffer[s]) = AddrNews(a) => AddrKnown(a)',
         \A f \in Families : \A a \in Of(f) : s # f =>
            (AddrKnown(a)' <=> AddrKnown(a))
  PROVE  TruthUnderWay'
<1> SUFFICES ASSUME source = "stream", ~Lossy' PROVE LinksHeeded' /\ AddrsHeeded'
  BY DEF TruthUnderWay
<1>1. /\ buffer[s] \in Seq(MessagesOf(s)) /\ buffer[s] # <<>>
      /\ buffer'[s] = Tail(buffer[s])
      /\ \A t \in Sockets : t # s => buffer'[t] = buffer[t]
      /\ links' = links /\ addrs' = addrs /\ overrun' = overrun
  BY Taken
<1>2. LinksHeeded /\ AddrsHeeded
  BY <1>1 DEF TruthUnderWay, Lossy
<1>3. /\ \A l : LinkNews(l)' = LinkNews(l)
      /\ \A a : AddrNews(a)' = AddrNews(a)
      /\ \A t \in Sockets : Dumped(t)' <=> Dumped(t)
  BY <1>1 DEF LinkNews, AddrNews, Dumped
<1>4. "link" \in Sockets /\ \A f \in Families : f \in Sockets /\ f # "link"
  BY DEF Sockets, Families
<1>5. ASSUME NEW l \in Indexes, Dumped("link")' \/ l \notin DOMAIN links'
      PROVE  Heeded(buffer'["link"], l, LinkNews(l), LinkKnown(l)')
  <2>1. Heeded(buffer["link"], l, LinkNews(l), LinkKnown(l))
    BY <1>1, <1>2, <1>3, <1>4, <1>5 DEF LinksHeeded
  <2>2. CASE s # "link"
    BY <1>1, <1>4, <2>1, <2>2 DEF Heeded
  <2>3. CASE s = "link" /\ LastSays(buffer[s], l, LinkNews(l))
    BY <1>1, <2>3, LessSaid DEF Heeded
  <2>4. CASE s = "link" /\ Silent(buffer[s], l) /\ LinkKnown(l)
    BY <1>1, <2>4, LessSaid DEF Heeded
  <2> QED BY <2>1, <2>2, <2>3, <2>4 DEF Heeded
<1>6. ASSUME NEW f \in Families, NEW a \in Of(f), Dumped(f)' \/ a \notin addrs'
      PROVE  Heeded(buffer'[f], a, AddrNews(a), AddrKnown(a)')
  <2>0. a \in Addresses
    BY DEF Of, Addresses
  <2>1. Heeded(buffer[f], a, AddrNews(a), AddrKnown(a))
    BY <1>1, <1>2, <1>3, <1>4, <1>6 DEF AddrsHeeded
  <2>2. CASE s # f
    BY <1>1, <1>4, <2>1, <2>2 DEF Heeded
  <2>3. CASE s = f /\ LastSays(buffer[s], a, AddrNews(a))
    BY <1>1, <1>4, <2>0, <2>3, LessSaid DEF Heeded
  <2>4. CASE s = f /\ Silent(buffer[s], a) /\ AddrKnown(a)
    BY <1>1, <2>0, <2>4, LessSaid DEF Heeded
  <2> QED BY <2>1, <2>2, <2>3, <2>4 DEF Heeded
<1>7. LinksHeeded'
  BY <1>3, <1>5 DEF LinksHeeded
<1>8. AddrsHeeded'
  BY <1>3, <1>6 DEF AddrsHeeded
<1> QED BY <1>7, <1>8

(***************************************************************************)
(* The truth is under way after an event has been delivered.               *)
(***************************************************************************)
LEMMA TruthDelivered ==
  ASSUME FeedOK, TruthUnderWay, NEW s \in Sockets, RecvMessage(s),
         setup' = setup, source' = source,
         NEW e \in Translated(s, Head(buffer[s])), told' = Recorded(e)
  PROVE  TruthUnderWay' /\ ToldOK'
<1> DEFINE m == Head(buffer[s])
<1>1. m \in MessagesOf(s) /\ links' = links /\ addrs' = addrs /\ ToldOK
  BY Taken DEF FeedOK
<1>2. "link" \notin Families
  BY DEF Families
<1>3. ASSUME s = "link", NEW l \in Indexes, NEW f \in FlagSets,
             m = Newlink(l, f), e = NewLink(l, map_flags(f))
      PROVE  TruthUnderWay' /\ ToldOK'
  <2>1. /\ DOMAIN told'.links = DOMAIN told.links \cup {l}
        /\ \A k \in DOMAIN told'.links :
              told'.links[k] = IF k = l THEN map_flags(f) ELSE told.links[k]
        /\ told'.addrs = told.addrs /\ told'.lossy = told.lossy
        /\ map_flags(f) \subseteq Known => ToldOK'
    <3> DEFINE F == map_flags(f)
    <3>1. told' = Recorded(NewLink(l, F)) /\ ToldOK
      BY <1>1, <1>3
    <3> HIDE DEF F, m
    <3>2. /\ DOMAIN told'.links = DOMAIN told.links \cup {l}
          /\ \A k \in DOMAIN told'.links : told'.links[k] = IF k = l THEN F ELSE told.links[k]
          /\ told'.addrs = told.addrs /\ told'.lossy = told.lossy
          /\ F \subseteq Known => ToldOK'
      BY <3>1, AccountsNewLink
    <3> QED BY <3>2 DEF F
  <2>2. ToldOK'
    BY <2>1 DEF map_flags
  <2>3. \A k \in Indexes : k # l => (LinkKnown(k)' <=> LinkKnown(k))
    BY <1>1, <2>1 DEF LinkKnown
  <2>4. m = LinkNews(l) => LinkKnown(l)'
    BY <1>1, <1>3, <2>1, Meaning DEF LinkKnown, LinkNews
  <2>5. \A a : AddrKnown(a)' <=> AddrKnown(a)
    BY <1>1, <2>1 DEF AddrKnown
  <2>6. \A k : (Concerns(m, k) <=> k = l) /\ (m = LinkNews(k) => k = l)
    BY <1>3, Meaning DEF LinkNews
  <2> HIDE DEF m
  <2>7. TruthUnderWay'
    BY <1>2, <1>3, <2>1, <2>3, <2>4, <2>5, <2>6, TruthReceived DEF m
  <2> QED BY <2>2, <2>7
<1>4. ASSUME s = "link", NEW l \in Indexes, m = Dellink(l), e = DelLink(l)
      PROVE  TruthUnderWay' /\ ToldOK'
  <2>1. /\ DOMAIN told'.links = DOMAIN told.links \ {l}
        /\ \A k \in DOMAIN told'.links : told'.links[k] = told.links[k]
        /\ told'.addrs = told.addrs /\ told'.lossy = told.lossy /\ ToldOK'
    BY <1>1, <1>4, AccountsDelLink
  <2>3. \A k \in Indexes : k # l => (LinkKnown(k)' <=> LinkKnown(k))
    BY <1>1, <2>1 DEF LinkKnown
  <2>4. m = LinkNews(l) => LinkKnown(l)'
    BY <1>1, <1>4, <2>1, Meaning DEF LinkKnown, LinkNews
  <2>5. \A a : AddrKnown(a)' <=> AddrKnown(a)
    BY <1>1, <2>1 DEF AddrKnown
  <2>6. \A k : (Concerns(m, k) <=> k = l) /\ (m = LinkNews(k) => k = l)
    BY <1>4, Meaning DEF LinkNews
  <2> HIDE DEF m
  <2>7. TruthUnderWay'
    BY <1>2, <1>4, <2>1, <2>3, <2>4, <2>5, <2>6, TruthReceived DEF m
  <2> QED BY <2>1, <2>7
<1>5. ASSUME s \in Families, NEW a \in Of(s),
             \/ m = Newaddr(a) /\ e = NewAddr(IfaceOf[a], a)
             \/ m = Deladdr(a) /\ e = DelAddr(IfaceOf[a], a)
      PROVE  TruthUnderWay' /\ ToldOK'
  <2>0. a \in Addresses /\ \A f \in Families : a \in Of(f) => f = s
    <3>1. a \in Addresses
      BY DEF Of, Addresses
    <3> QED BY <1>5, <3>1, FamilyOf
  <2>1. /\ told'.links = told.links /\ told'.lossy = told.lossy /\ ToldOK'
        /\ told'.addrs = IF m = Newaddr(a) THEN told.addrs \cup {a} ELSE told.addrs \ {a}
    <3> DEFINE i == IfaceOf[a]
    <3>1. CASE m = Newaddr(a) /\ e = NewAddr(i, a)
      <4>1. told' = Recorded(NewAddr(i, a)) /\ ToldOK
        BY <1>1, <3>1
      <4> HIDE DEF m, i
      <4>2. /\ told'.links = told.links /\ told'.lossy = told.lossy /\ ToldOK'
            /\ told'.addrs = told.addrs \cup {a}
        BY <2>0, <4>1, AccountsNewAddr
      <4> QED BY <3>1, <4>2
    <3>2. CASE m = Deladdr(a) /\ e = DelAddr(i, a)
      <4>1. m # Newaddr(a)
        BY <3>2, Meaning
      <4>2. told' = Recorded(DelAddr(i, a)) /\ ToldOK
        BY <1>1, <3>2
      <4> HIDE DEF m, i
      <4>3. /\ told'.links = told.links /\ told'.lossy = told.lossy /\ ToldOK'
            /\ told'.addrs = told.addrs \ {a}
        BY ONLY <4>2, AccountsDelAddr
      <4> QED BY <4>1, <4>3
    <3> QED BY <1>5, <3>1, <3>2
  <2>2. \A k : LinkKnown(k)' <=> LinkKnown(k)
    BY <1>1, <2>1 DEF LinkKnown
  <2>3. \A b : b # a => (AddrKnown(b)' <=> AddrKnown(b))
    BY <1>1, <2>1 DEF AddrKnown
  <2>4. m = AddrNews(a) => AddrKnown(a)'
    <3>1. Newaddr(a) # Deladdr(a)
      BY Meaning
    <3> QED BY <1>1, <2>1, <3>1 DEF AddrKnown, AddrNews
  <2>5. \A b : (Concerns(m, b) <=> b = a) /\ (m = AddrNews(b) => b = a)
    BY <1>5, Meaning DEF AddrNews
  <2>6. s # "link"
    BY <1>2, <1>5
  <2>7. \A f \in Families : \A b \in Of(f) : s # f => b # a
    BY <2>0
  <2> HIDE DEF m
  <2>8. TruthUnderWay'
    BY <2>1, <2>2, <2>3, <2>4, <2>5, <2>6, <2>7, TruthReceived DEF m
  <2> QED BY <2>1, <2>8
<1> QED BY <1>1, <1>3, <1>4, <1>5, MeansEvent

(***************************************************************************)
(* Links that are gone, when a message has been received.                  *)
(***************************************************************************)
LEMMA GoneReceived ==
  ASSUME FeedOK, DellinkIsLast, NEW s \in Sockets, RecvMessage(s)
  PROVE  /\ DellinkIsLast' /\ \A l : Gone(l) => Gone(l)'
         /\ s = "link" => \A l : /\ Head(buffer[s]) = Dellink(l) => Gone(l)'
                                 /\ \A f : Head(buffer[s]) = Newlink(l, f) => ~Gone(l)
<1>1. /\ buffer[s] \in Seq(MessagesOf(s)) /\ buffer[s] # <<>>
      /\ buffer'[s] = Tail(buffer[s]) /\ retired' = retired
      /\ \A t \in Sockets : t # s => buffer'[t] = buffer[t]
  BY Taken
<1>2. CASE s # "link"
  <2>1. buffer'["link"] = buffer["link"]
    BY <1>1, <1>2 DEF Sockets
  <2> QED BY <1>1, <1>2, <2>1 DEF DellinkIsLast, Gone
<1>3. CASE s = "link"
  <2> DEFINE q == buffer["link"]
             t == buffer'["link"]
  <2>1. /\ Len(t) = Len(q) - 1 /\ Len(q) \in Nat \ {0} /\ Head(q) = q[1]
        /\ DOMAIN q = 1 .. Len(q) /\ DOMAIN t = 1 .. Len(t)
        /\ \A i \in 1 .. Len(t) : t[i] = q[i + 1]
    <3>1. q \in Seq(MessagesOf(s)) /\ q # <<>> /\ t = Tail(q)
      BY <1>1, <1>3
    <3> HIDE DEF q, t
    <3> QED BY <3>1, HeadTailProperties
  <2> HIDE DEF q, t
  <2>2. 1 \in DOMAIN q /\ \A i \in DOMAIN t : i + 1 \in DOMAIN q /\ t[i] = q[i + 1]
    BY <2>1
  <2>3. ASSUME NEW l, Gone(l) PROVE Gone(l)'
    BY <1>1, <2>2, <2>3 DEF Gone, q, t
  <2>4. \A i \in DOMAIN q : q[i].type = "Dellink" =>
           /\ q[i].index \in retired
           /\ \A j \in DOMAIN q : j > i /\ q[j].type = "Newlink" => q[j].index # q[i].index
    BY DEF DellinkIsLast, q
  <2>5. \A i \in DOMAIN t : t[i].type = "Dellink" =>
           /\ t[i].index \in retired
           /\ \A j \in DOMAIN t : j > i /\ t[j].type = "Newlink" => t[j].index # t[i].index
    <3> SUFFICES ASSUME NEW i \in DOMAIN t, t[i].type = "Dellink"
                 PROVE  /\ t[i].index \in retired
                        /\ \A j \in DOMAIN t : j > i /\ t[j].type = "Newlink" =>
                              t[j].index # t[i].index
      OBVIOUS
    <3>1. i + 1 \in DOMAIN q /\ t[i] = q[i + 1]
      BY <2>2
    <3>2. ASSUME NEW j \in DOMAIN t, j > i, t[j].type = "Newlink" PROVE t[j].index # t[i].index
      <4>1. j + 1 \in DOMAIN q /\ t[j] = q[j + 1] /\ j + 1 > i + 1
        BY <2>1, <2>2, <3>2
      <4> QED BY <2>4, <3>1, <3>2, <4>1
    <3> QED BY <2>4, <3>1, <3>2
  <2>6. DellinkIsLast'
    BY <1>1, <2>5 DEF DellinkIsLast, t
  <2>7. ASSUME NEW l, Head(q) = Dellink(l) PROVE Gone(l)'
    <3>1. q[1].type = "Dellink" /\ q[1].index = l
      BY <2>1, <2>7, Meaning
    <3>2. l \in retired /\ \A j \in DOMAIN q : j > 1 /\ q[j].type = "Newlink" => q[j].index # l
      BY <2>2, <2>4, <3>1
    <3>3. \A j \in DOMAIN t : ~(t[j].type = "Newlink" /\ t[j].index = l)
      <4> SUFFICES ASSUME NEW j \in DOMAIN t PROVE ~(t[j].type = "Newlink" /\ t[j].index = l)
        OBVIOUS
      <4>1. j + 1 \in DOMAIN q /\ t[j] = q[j + 1] /\ j + 1 > 1
        BY <2>1, <2>2
      <4> QED BY <3>2, <4>1
    <3> QED BY <1>1, <3>2, <3>3 DEF Gone, t
  <2>8. ASSUME NEW l, NEW f, Head(q) = Newlink(l, f) PROVE ~Gone(l)
    <3>1. q[1].type = "Newlink" /\ q[1].index = l
      BY <2>1, <2>8, Meaning
    <3> QED BY <2>2, <3>1 DEF Gone, q
  <2> QED BY <1>3, <2>3, <2>6, <2>7, <2>8 DEF q
<1> QED BY <1>2, <1>3

(***************************************************************************)
(* What the engine makes of an event: its interfaces.                      *)
(***************************************************************************)
LEMMA Obeys ==
  ASSUME TypeOK, NEW l
  PROVE  /\ \A f : on_network_event(NewLink(l, f)) /\ "MULTICAST" \in f
                   /\ l \notin groups \ DOMAIN interfaces =>
               /\ DOMAIN interfaces' = DOMAIN interfaces \cup {l}
               /\ groups' \subseteq groups \cup {l}
               /\ interfaces'[l].up = ({"UP", "RUNNING"} \subseteq f)
               /\ interfaces'[l].ips = IF l \in DOMAIN interfaces THEN interfaces[l].ips ELSE {}
               /\ \A k \in DOMAIN interfaces : k # l => interfaces'[k] = interfaces[k]
         /\ \A f : on_network_event(NewLink(l, f)) /\ "MULTICAST" \notin f =>
               interfaces' = interfaces /\ groups' = groups
         /\ on_network_event(DelLink(l)) =>
               /\ DOMAIN interfaces' = DOMAIN interfaces \ {l}
               /\ groups' \subseteq groups
               /\ \A k \in DOMAIN interfaces' : interfaces'[k] = interfaces[k]
         /\ \A a : on_network_event(NewAddr(l, a)) =>
               /\ DOMAIN interfaces' = DOMAIN interfaces /\ groups' = groups
               /\ \A k \in DOMAIN interfaces :
                     /\ k # l => interfaces'[k] = interfaces[k]
                     /\ interfaces'[k].up = interfaces[k].up
               /\ l \in DOMAIN interfaces =>
                     interfaces'[l].ips = interfaces[l].ips \cup ({a} \cap Ips)
         /\ \A a : on_network_event(DelAddr(l, a)) =>
               /\ DOMAIN interfaces' = DOMAIN interfaces /\ groups' = groups
               /\ \A k \in DOMAIN interfaces :
                     /\ k # l => interfaces'[k] = interfaces[k]
                     /\ interfaces'[k].up = interfaces[k].up
               /\ l \in DOMAIN interfaces => interfaces'[l].ips = interfaces[l].ips \ {a}
<1>0. interfaces \in [DOMAIN interfaces -> [ips : SUBSET Ips, up : BOOLEAN]]
  BY DEF TypeOK
<1>1. ASSUME NEW f, on_network_event(NewLink(l, f)), "MULTICAST" \in f,
             l \notin groups \ DOMAIN interfaces
      PROVE  /\ DOMAIN interfaces' = DOMAIN interfaces \cup {l}
             /\ groups' \subseteq groups \cup {l}
             /\ interfaces'[l].up = ({"UP", "RUNNING"} \subseteq f)
             /\ interfaces'[l].ips = IF l \in DOMAIN interfaces THEN interfaces[l].ips ELSE {}
             /\ \A k \in DOMAIN interfaces : k # l => interfaces'[k] = interfaces[k]
  <2>1. /\ NewLink(l, f).type = "NewLink" /\ NewLink(l, f).ix = l /\ NewLink(l, f).flags = f
    BY DEF NewLink
  <2>2. ~Ignored(NewLink(l, f))
    BY <1>1, <2>1 DEF Ignored
  <2>3. on_new_link_event(l, f)
    BY <1>1, <2>1, <2>2 DEF on_network_event
  <2> DEFINE up == {"UP", "RUNNING"} \subseteq f
  <2>4. \/ /\ l \in DOMAIN interfaces /\ interfaces' = [interfaces EXCEPT ![l].up = up]
           /\ groups' = groups
        \/ /\ l \notin DOMAIN interfaces /\ groups' = groups \cup {l}
           /\ interfaces' = [k \in DOMAIN interfaces \cup {l} |->
                               IF k = l THEN [ips |-> {}, up |-> up] ELSE interfaces[k]]
    BY <2>3 DEF on_new_link_event, join_multicast_group
  <2>5. up \in BOOLEAN
    OBVIOUS
  <2> HIDE DEF up
  <2> QED BY <1>0, <2>4, <2>5 DEF up
<1>2. ASSUME on_network_event(DelLink(l))
      PROVE  /\ DOMAIN interfaces' = DOMAIN interfaces \ {l}
             /\ groups' \subseteq groups
             /\ \A k \in DOMAIN interfaces' : interfaces'[k] = interfaces[k]
  <2>1. DelLink(l).type = "DelLink" /\ DelLink(l).ix = l
    BY DEF DelLink
  <2>2. CASE Ignored(DelLink(l))
    BY <1>2, <2>1, <2>2 DEF Ignored, on_network_event, vars, engine
  <2>3. CASE on_del_link_event(l)
    BY <2>3 DEF on_del_link_event, leave_multicast_group
  <2> QED BY <1>2, <2>1, <2>2, <2>3 DEF on_network_event
<1>3. ASSUME NEW a, on_network_event(NewAddr(l, a))
      PROVE  /\ DOMAIN interfaces' = DOMAIN interfaces /\ groups' = groups
             /\ \A k \in DOMAIN interfaces :
                   /\ k # l => interfaces'[k] = interfaces[k]
                   /\ interfaces'[k].up = interfaces[k].up
             /\ l \in DOMAIN interfaces =>
                   interfaces'[l].ips = interfaces[l].ips \cup ({a} \cap Ips)
  <2>1. NewAddr(l, a).type = "NewAddr" /\ NewAddr(l, a).ix = l /\ NewAddr(l, a).addr = a
    BY DEF NewAddr
  <2>2. CASE Ignored(NewAddr(l, a))
    <3>1. l \notin DOMAIN interfaces \/ a \notin Ips \/ a \in interfaces[l].ips
      BY <2>1, <2>2 DEF Ignored
    <3>2. interfaces' = interfaces /\ groups' = groups
      BY <1>3, <2>2 DEF on_network_event, vars, engine
    <3> QED BY <3>1, <3>2
  <2>3. CASE ~Ignored(NewAddr(l, a))
    <3>1. on_new_addr_event(l, a) /\ a \in Ips
      BY <1>3, <2>1, <2>3 DEF on_network_event, Ignored
    <3> QED BY <1>0, <3>1 DEF on_new_addr_event
  <2> QED BY <2>2, <2>3
<1>4. ASSUME NEW a, on_network_event(DelAddr(l, a))
      PROVE  /\ DOMAIN interfaces' = DOMAIN interfaces /\ groups' = groups
             /\ \A k \in DOMAIN interfaces :
                   /\ k # l => interfaces'[k] = interfaces[k]
                   /\ interfaces'[k].up = interfaces[k].up
             /\ l \in DOMAIN interfaces => interfaces'[l].ips = interfaces[l].ips \ {a}
  <2>1. DelAddr(l, a).type = "DelAddr" /\ DelAddr(l, a).ix = l /\ DelAddr(l, a).addr = a
    BY DEF DelAddr
  <2>2. CASE Ignored(DelAddr(l, a))
    <3>1. l \notin DOMAIN interfaces \/ a \notin interfaces[l].ips
      BY <2>1, <2>2 DEF Ignored
    <3>2. interfaces' = interfaces /\ groups' = groups
      BY <1>4, <2>2 DEF on_network_event, vars, engine
    <3> QED BY <3>1, <3>2
  <2>3. CASE ~Ignored(DelAddr(l, a))
    <3>1. on_del_addr_event(l, a)
      BY <1>4, <2>1, <2>3 DEF on_network_event
    <3> QED BY <1>0, <3>1 DEF on_del_addr_event
  <2> QED BY <2>2, <2>3
<1>5. ASSUME NEW f, on_network_event(NewLink(l, f)), "MULTICAST" \notin f
      PROVE  interfaces' = interfaces /\ groups' = groups
  <2>1. Ignored(NewLink(l, f))
    BY <1>5 DEF Ignored, NewLink
  <2> QED BY <1>5, <2>1 DEF on_network_event, vars, engine
<1> QED BY <1>1, <1>2, <1>3, <1>4, <1>5

(***************************************************************************)
(* The engine still follows after an event has been delivered.  It joins   *)
(* every group that it is told to: an interface whose group could not be   *)
(* left is gone, and is not heard of again.                                *)
(***************************************************************************)
LEMMA FollowsDelivered ==
  ASSUME FeedOK, TypeOK, Follows, NEW s \in Sockets, RecvMessage(s),
         source' = source, NEW e \in Translated(s, Head(buffer[s])), Deliver(e)
  PROVE  Follows'
<1> SUFFICES ASSUME source = "stream" PROVE DellinkIsLast' /\ EngineFollows'
  BY DEF Follows
<1>1. DellinkIsLast /\ EngineFollows /\ ToldOK /\ told' = Recorded(e) /\ on_network_event(e)
  BY DEF Follows, FeedOK, Deliver
<1>2. /\ DellinkIsLast' /\ \A l : Gone(l) => Gone(l)'
      /\ s = "link" => \A l : /\ Head(buffer[s]) = Dellink(l) => Gone(l)'
                              /\ \A f : Head(buffer[s]) = Newlink(l, f) => ~Gone(l)
  BY <1>1, GoneReceived
<1> DEFINE m == Head(buffer[s])
<1>3. m \in MessagesOf(s)
  BY Taken
<1>4. /\ DOMAIN interfaces \subseteq DOMAIN told.links
      /\ \A l \in groups : l \in DOMAIN interfaces \/ Gone(l)
      /\ \A l \in DOMAIN told.links \ told.wavers : LinkFollows(l)
      /\ \A l \in DOMAIN interfaces :
            \A a \in interfaces[l].ips : a \in told.addrs /\ IfaceOf[a] = l
      /\ told.early = {} => \A a \in told.addrs : AddrFollows(a)
  BY <1>1 DEF EngineFollows
<1>5. ASSUME s = "link", NEW l \in Indexes, NEW f \in FlagSets,
             m = Newlink(l, f), e = NewLink(l, map_flags(f))
      PROVE  EngineFollows'
  <2> DEFINE F == map_flags(f)
  <2>1. ~Gone(l)
    BY <1>2, <1>5
  <2>2. l \notin groups \ DOMAIN interfaces
    BY <1>4, <2>1
  <2>3. told' = Recorded(NewLink(l, F)) /\ on_network_event(NewLink(l, F))
    BY <1>1, <1>5
  <2> HIDE DEF F, m
  <2>4. /\ DOMAIN told'.links = DOMAIN told.links \cup {l}
        /\ \A k \in DOMAIN told'.links : told'.links[k] = IF k = l THEN F ELSE told.links[k]
        /\ told'.addrs = told.addrs /\ told'.early = told.early
        /\ told.wavers \subseteq told'.wavers
        /\ l \in DOMAIN told.links \ told'.wavers =>
              ("MULTICAST" \in F <=> "MULTICAST" \in told.links[l])
    BY <1>1, <2>3, AccountsNewLink
  <2>5. told.early = {} => \A a \in told.addrs : IfaceOf[a] = l => l \in DOMAIN told.links
    BY <1>4, <2>1 DEF AddrFollows
  <2>6. CASE "MULTICAST" \in F
    <3>1. /\ DOMAIN interfaces' = DOMAIN interfaces \cup {l}
          /\ groups' \subseteq groups \cup {l}
          /\ interfaces'[l].up = ({"UP", "RUNNING"} \subseteq F)
          /\ interfaces'[l].ips = IF l \in DOMAIN interfaces THEN interfaces[l].ips ELSE {}
          /\ \A k \in DOMAIN interfaces : k # l => interfaces'[k] = interfaces[k]
      BY <2>2, <2>3, <2>6, Obeys
    <3>2. /\ DOMAIN interfaces' \subseteq DOMAIN told'.links
          /\ \A k \in groups' : k \in DOMAIN interfaces' \/ Gone(k)'
      BY <1>2, <1>4, <2>4, <3>1
    <3>3. ASSUME NEW k \in DOMAIN told'.links \ told'.wavers PROVE LinkFollows(k)'
      <4>1. CASE k = l
        BY <2>4, <2>6, <3>1, <4>1 DEF LinkFollows
      <4>2. CASE k # l
        <5>1. LinkFollows(k)
          BY <1>4, <2>4, <3>3, <4>2
        <5> QED BY <2>4, <3>1, <4>2, <5>1 DEF LinkFollows
      <4> QED BY <4>1, <4>2
    <3>4. ASSUME NEW k \in DOMAIN interfaces', NEW a \in interfaces'[k].ips
          PROVE  a \in told'.addrs /\ IfaceOf[a] = k
      <4>1. k \in DOMAIN interfaces /\ a \in interfaces[k].ips
        <5>1. CASE k = l
          BY <3>1, <3>4, <5>1
        <5>2. CASE k # l
          BY <3>1, <3>4, <5>2
        <5> QED BY <5>1, <5>2
      <4> QED BY <1>4, <2>4, <4>1
    <3>5. ASSUME told'.early = {}, NEW a \in told'.addrs PROVE AddrFollows(a)'
      <4>1. AddrFollows(a) /\ (IfaceOf[a] = l => l \in DOMAIN told.links)
        BY <1>4, <2>4, <2>5, <3>5
      <4>2. CASE Gone(IfaceOf[a])
        BY <1>2, <4>2 DEF AddrFollows
      <4>3. CASE ~Gone(IfaceOf[a])
        <5>1. /\ IfaceOf[a] \in DOMAIN told.links
              /\ a \in Inet /\ IfaceOf[a] \in DOMAIN interfaces \ told.wavers =>
                    a \in interfaces[IfaceOf[a]].ips
          BY <4>1, <4>3 DEF AddrFollows
        <5>2. ASSUME a \in Inet, IfaceOf[a] \in DOMAIN interfaces' \ told'.wavers
              PROVE  a \in interfaces'[IfaceOf[a]].ips
          <6>1. IfaceOf[a] \in DOMAIN interfaces \ told.wavers
            <7>1. IfaceOf[a] \notin told.wavers
              BY <2>4, <5>2
            <7>2. CASE IfaceOf[a] = l
              <8>1. "MULTICAST" \in told.links[l]
                BY <2>4, <2>6, <5>1, <5>2, <7>2
              <8> QED BY <1>4, <5>1, <7>1, <7>2, <8>1 DEF LinkFollows
            <7>3. CASE IfaceOf[a] # l
              BY <3>1, <5>2, <7>1, <7>3
            <7> QED BY <7>2, <7>3
          <6> QED BY <3>1, <5>1, <5>2, <6>1
        <5> QED BY <2>4, <5>1, <5>2 DEF AddrFollows
      <4> QED BY <4>2, <4>3
    <3> QED BY <3>2, <3>3, <3>4, <3>5 DEF EngineFollows
  <2>7. CASE "MULTICAST" \notin F
    <3>1. interfaces' = interfaces /\ groups' = groups
      BY <2>3, <2>7, Obeys
    <3>2. ASSUME NEW k \in DOMAIN told'.links \ told'.wavers PROVE LinkFollows(k)'
      <4>1. CASE k # l \/ l \in DOMAIN told.links
        <5>1. LinkFollows(k) /\ ("MULTICAST" \in told'.links[k] <=> "MULTICAST" \in told.links[k])
          BY <1>4, <2>4, <3>2, <4>1
        <5>2. k \in DOMAIN interfaces => told'.links[k] = told.links[k]
          BY <2>4, <2>7, <5>1 DEF LinkFollows
        <5> QED BY <3>1, <5>1, <5>2 DEF LinkFollows
      <4>2. CASE k = l /\ l \notin DOMAIN told.links
        <5>1. l \notin DOMAIN interfaces /\ "MULTICAST" \notin told'.links[k]
          BY <1>4, <2>4, <2>7, <4>2
        <5> QED BY <3>1, <4>2, <5>1 DEF LinkFollows
      <4> QED BY <4>1, <4>2
    <3>3. ASSUME told'.early = {}, NEW a \in told'.addrs PROVE AddrFollows(a)'
      <4>1. AddrFollows(a)
        BY <1>4, <2>4, <3>3
      <4> QED BY <1>2, <2>4, <3>1, <4>1 DEF AddrFollows
    <3> QED BY <1>2, <1>4, <2>4, <3>1, <3>2, <3>3 DEF EngineFollows
  <2> QED BY <2>6, <2>7
<1>6. ASSUME s = "link", NEW l \in Indexes, m = Dellink(l), e = DelLink(l)
      PROVE  EngineFollows'
  <2>1. Gone(l)' /\ told' = Recorded(DelLink(l)) /\ on_network_event(DelLink(l))
    BY <1>1, <1>2, <1>6
  <2> HIDE DEF m
  <2>2. /\ DOMAIN told'.links = DOMAIN told.links \ {l}
        /\ \A k \in DOMAIN told'.links : told'.links[k] = told.links[k]
        /\ told'.addrs = told.addrs /\ told'.early = told.early /\ told'.wavers = told.wavers
    BY <1>1, <2>1, AccountsDelLink
  <2>3. /\ DOMAIN interfaces' = DOMAIN interfaces \ {l}
        /\ groups' \subseteq groups
        /\ \A k \in DOMAIN interfaces' : interfaces'[k] = interfaces[k]
    BY <2>1, Obeys
  <2>4. /\ DOMAIN interfaces' \subseteq DOMAIN told'.links
        /\ \A k \in groups' : k \in DOMAIN interfaces' \/ Gone(k)'
    BY <1>2, <1>4, <2>1, <2>2, <2>3
  <2>5. ASSUME NEW k \in DOMAIN told'.links \ told'.wavers PROVE LinkFollows(k)'
    <3>1. LinkFollows(k) /\ k # l
      BY <1>4, <2>2, <2>5
    <3> QED BY <2>2, <2>3, <3>1 DEF LinkFollows
  <2>6. ASSUME NEW k \in DOMAIN interfaces', NEW a \in interfaces'[k].ips
        PROVE  a \in told'.addrs /\ IfaceOf[a] = k
    BY <1>4, <2>2, <2>3
  <2>7. ASSUME told'.early = {}, NEW a \in told'.addrs PROVE AddrFollows(a)'
    <3>1. CASE IfaceOf[a] = l
      BY <2>1, <3>1 DEF AddrFollows
    <3>2. CASE IfaceOf[a] # l
      <4>1. AddrFollows(a)
        BY <1>4, <2>2, <2>7
      <4> QED BY <1>2, <2>2, <2>3, <3>2, <4>1 DEF AddrFollows
    <3> QED BY <3>1, <3>2
  <2> QED BY <2>4, <2>5, <2>6, <2>7 DEF EngineFollows
<1>7. ASSUME NEW a \in Addresses, e = NewAddr(IfaceOf[a], a)
      PROVE  EngineFollows'
  <2> DEFINE l == IfaceOf[a]
  <2>1. ToldOK /\ told' = Recorded(NewAddr(l, a)) /\ on_network_event(NewAddr(l, a))
    BY <1>1, <1>7
  <2> HIDE DEF l, m
  <2>2. /\ told'.links = told.links /\ told'.addrs = told.addrs \cup {a}
        /\ told'.early = IF l \in DOMAIN told.links THEN told.early ELSE told.early \cup {a}
        /\ told'.wavers = told.wavers
    BY ONLY <2>1, AccountsNewAddr
  <2>3. /\ DOMAIN interfaces' = DOMAIN interfaces /\ groups' = groups
        /\ \A k \in DOMAIN interfaces :
              /\ k # l => interfaces'[k] = interfaces[k]
              /\ interfaces'[k].up = interfaces[k].up
        /\ l \in DOMAIN interfaces =>
              interfaces'[l].ips = interfaces[l].ips \cup ({a} \cap Ips)
    BY <2>1, Obeys
  <2>4. /\ DOMAIN interfaces' \subseteq DOMAIN told'.links
        /\ \A k \in groups' : k \in DOMAIN interfaces' \/ Gone(k)'
    BY <1>2, <1>4, <2>2, <2>3
  <2>5. ASSUME NEW k \in DOMAIN told'.links \ told'.wavers PROVE LinkFollows(k)'
    <3>1. LinkFollows(k)
      BY <1>4, <2>2, <2>5
    <3> QED BY <2>2, <2>3, <3>1 DEF LinkFollows
  <2>6. ASSUME NEW k \in DOMAIN interfaces', NEW b \in interfaces'[k].ips
        PROVE  b \in told'.addrs /\ IfaceOf[b] = k
    <3>1. CASE k = l
      BY <1>4, <2>2, <2>3, <2>6, <3>1 DEF l
    <3>2. CASE k # l
      BY <1>4, <2>2, <2>3, <2>6, <3>2
    <3> QED BY <3>1, <3>2
  <2>7. ASSUME told'.early = {}, NEW b \in told'.addrs PROVE AddrFollows(b)'
    <3>1. told.early = {} /\ l \in DOMAIN told.links
      BY <2>2, <2>7
    <3>2. CASE b = a
      <4>1. IfaceOf[b] = l
        BY <3>2 DEF l
      <4> QED BY <2>2, <2>3, <3>1, <3>2, <4>1, FeedAssumption DEF AddrFollows
    <3>3. CASE b # a
      <4>1. AddrFollows(b)
        BY <1>4, <2>2, <2>7, <3>1, <3>3
      <4> QED BY <1>2, <2>2, <2>3, <4>1 DEF AddrFollows
    <3> QED BY <3>2, <3>3
  <2> QED BY <2>4, <2>5, <2>6, <2>7 DEF EngineFollows
<1>8. ASSUME NEW a \in Addresses, e = DelAddr(IfaceOf[a], a)
      PROVE  EngineFollows'
  <2> DEFINE l == IfaceOf[a]
  <2>1. ToldOK /\ told' = Recorded(DelAddr(l, a)) /\ on_network_event(DelAddr(l, a))
    BY <1>1, <1>8
  <2> HIDE DEF l, m
  <2>2. /\ told'.links = told.links /\ told'.addrs = told.addrs \ {a}
        /\ told'.early = told.early /\ told'.wavers = told.wavers
    BY ONLY <2>1, AccountsDelAddr
  <2>3. /\ DOMAIN interfaces' = DOMAIN interfaces /\ groups' = groups
        /\ \A k \in DOMAIN interfaces :
              /\ k # l => interfaces'[k] = interfaces[k]
              /\ interfaces'[k].up = interfaces[k].up
        /\ l \in DOMAIN interfaces => interfaces'[l].ips = interfaces[l].ips \ {a}
    BY <2>1, Obeys
  <2>4. /\ DOMAIN interfaces' \subseteq DOMAIN told'.links
        /\ \A k \in groups' : k \in DOMAIN interfaces' \/ Gone(k)'
    BY <1>2, <1>4, <2>2, <2>3
  <2>5. ASSUME NEW k \in DOMAIN told'.links \ told'.wavers PROVE LinkFollows(k)'
    <3>1. LinkFollows(k)
      BY <1>4, <2>2, <2>5
    <3> QED BY <2>2, <2>3, <3>1 DEF LinkFollows
  <2>6. ASSUME NEW k \in DOMAIN interfaces', NEW b \in interfaces'[k].ips
        PROVE  b \in told'.addrs /\ IfaceOf[b] = k
    <3>1. CASE k = l
      BY <1>4, <2>2, <2>3, <2>6, <3>1
    <3>2. CASE k # l
      <4>1. b \in interfaces[k].ips /\ IfaceOf[b] = k /\ b # a
        BY <1>4, <2>3, <2>6, <3>2 DEF l
      <4> QED BY <1>4, <2>2, <2>3, <4>1
    <3> QED BY <3>1, <3>2
  <2>7. ASSUME told'.early = {}, NEW b \in told'.addrs PROVE AddrFollows(b)'
    <3>1. b # a /\ AddrFollows(b)
      BY <1>4, <2>2, <2>7
    <3> QED BY <1>2, <2>2, <2>3, <3>1 DEF AddrFollows
  <2> QED BY <2>4, <2>5, <2>6, <2>7 DEF EngineFollows
<1>9. EngineFollows'
  <2>1. \A f \in Families : Of(f) \subseteq Addresses
    BY DEF Of, Addresses
  <2> HIDE DEF m
  <2> QED BY <1>3, <1>5, <1>6, <1>7, <1>8, <2>1, MeansEvent DEF m
<1> QED BY <1>2, <1>9

(***************************************************************************)
(* Whose turn it is.                                                       *)
(***************************************************************************)
LEMMA TurnStep ==
  ASSUME StreamOK, NEW s \in Sockets, Turned(s)
  PROVE  inner_turn' \in Families
<1>1. s = "addr4" \/ s = "addr6" \/ s = "link"
  BY DEF Sockets
<1> QED BY <1>1 DEF Turned, StreamOK, Families, Other

(***************************************************************************)
(* The end of a dump is skipped.                                           *)
(***************************************************************************)
LEMMA SkipStep ==
  ASSUME FeedOK, TruthUnderWay, Follows, NEW s \in Sockets, Skip(s),
         UNCHANGED <<list, vars, source, told>>
  PROVE  FeedOK' /\ TruthUnderWay' /\ Follows'
<1>0. RecvMessage(s) /\ UNCHANGED stream /\ Translated(s, Head(buffer[s])) = {}
  BY DEF Skip
<1>1. /\ Head(buffer[s]) \in MessagesOf(s) /\ Tail(buffer[s]) \in Seq(MessagesOf(s))
      /\ buffer'[s] = Tail(buffer[s]) /\ DOMAIN buffer' = Sockets
      /\ \A t \in Sockets : t # s => buffer'[t] = buffer[t]
      /\ Joined(s)
      /\ links' = links /\ addrs' = addrs /\ retired' = retired /\ changes' = changes
      /\ groups_joined' = groups_joined /\ overrun' = overrun
  BY <1>0, Taken
<1>2. setup' = setup /\ polling' = polling /\ inner_turn' = inner_turn
  BY <1>0 DEF stream
<1>3. \A t \in Sockets : Joined(t)' <=> Joined(t)
  BY <1>2 DEF Joined
<1>4. FeedOK'
  <2>1. KernelOK' /\ ToldOK'
    BY <1>1 DEF FeedOK, KernelOK, ToldOK
  <2>2. SourceOK'
    BY <1>2 DEF FeedOK, SourceOK, Created, list
  <2>3. StreamOK'
    BY <1>1, <1>2, <1>3 DEF FeedOK, StreamOK, Created
  <2> QED BY <2>1, <2>2, <2>3 DEF FeedOK
<1>5. Head(buffer[s]) = Done
  BY <1>0, <1>1, MeansEvent
<1>6. \A x : ~Concerns(Done, x)
  BY Meaning
<1>7. /\ \A l : Done # LinkNews(l)
      /\ \A a : Done # AddrNews(a)
  BY Meaning DEF LinkNews, AddrNews
<1>8. /\ \A l : LinkKnown(l)' <=> LinkKnown(l)
      /\ \A a : AddrKnown(a)' <=> AddrKnown(a)
  BY <1>1 DEF LinkKnown, AddrKnown
<1>9. TruthUnderWay'
  BY <1>0, <1>2, <1>5, <1>6, <1>7, <1>8, TruthReceived
<1>10. Follows'
  <2> SUFFICES ASSUME source = "stream" PROVE DellinkIsLast' /\ EngineFollows'
    BY DEF Follows
  <2>1. DellinkIsLast /\ EngineFollows
    BY DEF Follows
  <2>2. DellinkIsLast' /\ \A l : Gone(l) => Gone(l)'
    BY <1>0, <2>1, GoneReceived
  <2>3. /\ interfaces' = interfaces /\ groups' = groups /\ told' = told
    BY DEF vars, engine
  <2>4. EngineFollows'
    BY <2>1, <2>2, <2>3 DEF EngineFollows, LinkFollows, AddrFollows
  <2> QED BY <2>2, <2>4
<1> QED BY <1>4, <1>9, <1>10

(***************************************************************************)
(* A poll begins, or finds nothing, or ends with an error: no message is   *)
(* taken.  After an error nothing is promised.                             *)
(***************************************************************************)
LEMMA NothingTaken ==
  ASSUME FeedOK, TruthUnderWay, Follows, UNCHANGED <<kernel, list, vars, source>>,
         setup' = setup, polling' \in Seq(Sockets), polling' # <<>> => Created,
         inner_turn' \in Families, groups_joined' = groups_joined, buffer' = buffer,
         \/ overrun' = overrun /\ told' = told
         \/ overrun' \subseteq Sockets /\ told' = [told EXCEPT !.lossy = TRUE]
  PROVE  FeedOK' /\ TruthUnderWay' /\ Follows'
<1>1. links' = links /\ addrs' = addrs /\ retired' = retired /\ changes' = changes
  BY DEF kernel
<1>2. /\ told'.links = told.links /\ told'.addrs = told.addrs /\ told'.early = told.early
      /\ told'.wavers = told.wavers
      /\ told'.lossy \/ (told'.lossy = told.lossy /\ overrun' = overrun)
      /\ ToldOK'
  <2>1. CASE told' = told /\ overrun' = overrun
    BY <2>1 DEF FeedOK, ToldOK
  <2>2. CASE told' = [told EXCEPT !.lossy = TRUE]
    <3>1. told \in [links : {told.links}, addrs : SUBSET Addresses,
                    early : SUBSET Addresses, wavers : SUBSET Indexes, lossy : BOOLEAN]
      BY DEF FeedOK, ToldOK
    <3>2. /\ told'.links = told.links /\ told'.addrs = told.addrs /\ told'.early = told.early
          /\ told'.wavers = told.wavers /\ told'.lossy = TRUE
          /\ told' \in [links : {told.links}, addrs : SUBSET Addresses,
                        early : SUBSET Addresses, wavers : SUBSET Indexes, lossy : BOOLEAN]
      BY <2>2, <3>1
    <3> QED BY <3>2 DEF FeedOK, ToldOK
  <2> QED BY <2>1, <2>2
<1>3. \A t \in Sockets : (Joined(t)' <=> Joined(t)) /\ (Dumped(t)' <=> Dumped(t))
  BY DEF Joined, Dumped
<1>4. FeedOK'
  <2>1. KernelOK'
    BY <1>1 DEF FeedOK, KernelOK
  <2>2. SourceOK'
    BY <1>2 DEF FeedOK, SourceOK, Created, list
  <2>3. overrun' \subseteq Sockets
    BY DEF FeedOK, StreamOK
  <2>4. StreamOK'
    BY <1>3, <2>3 DEF FeedOK, StreamOK, Created
  <2> QED BY <1>2, <2>1, <2>2, <2>4 DEF FeedOK
<1>5. TruthUnderWay'
  <2> SUFFICES ASSUME source = "stream", ~Lossy' PROVE LinksHeeded' /\ AddrsHeeded'
    BY DEF TruthUnderWay
  <2>1. LinksHeeded /\ AddrsHeeded
    BY <1>2 DEF TruthUnderWay, Lossy
  <2>2. /\ \A l : LinkNews(l)' = LinkNews(l) /\ (LinkKnown(l)' <=> LinkKnown(l))
        /\ \A a : AddrNews(a)' = AddrNews(a) /\ (AddrKnown(a)' <=> AddrKnown(a))
    BY <1>1, <1>2 DEF LinkNews, AddrNews, LinkKnown, AddrKnown
  <2>3. "link" \in Sockets /\ Families \subseteq Sockets
    BY DEF Sockets, Families
  <2> QED BY <1>1, <1>3, <2>1, <2>2, <2>3 DEF LinksHeeded, AddrsHeeded, Heeded
<1>6. Follows'
  BY <1>1, <1>2 DEF Follows, DellinkIsLast, EngineFollows, LinkFollows, AddrFollows, Gone,
                     vars, engine
<1> QED BY <1>4, <1>5, <1>6

(***************************************************************************)
(* A message is received and its event delivered.                          *)
(***************************************************************************)
LEMMA YieldStep ==
  ASSUME FeedOK, TypeOK, TruthUnderWay, Follows, Created, NEW s \in Sockets,
         NEW e, YieldEvent(s, e), Deliver(e), UNCHANGED <<list, source>>
  PROVE  FeedOK' /\ TruthUnderWay' /\ Follows'
<1>0. /\ RecvMessage(s) /\ e \in Translated(s, Head(buffer[s])) /\ told' = Recorded(e)
      /\ polling' = <<>> /\ Turned(s) /\ setup' = setup /\ source' = source
  BY DEF YieldEvent, Deliver
<1>1. /\ Tail(buffer[s]) \in Seq(MessagesOf(s))
      /\ buffer'[s] = Tail(buffer[s]) /\ DOMAIN buffer' = Sockets
      /\ \A t \in Sockets : t # s => buffer'[t] = buffer[t]
      /\ Joined(s)
      /\ links' = links /\ addrs' = addrs /\ retired' = retired /\ changes' = changes
      /\ groups_joined' = groups_joined /\ overrun' = overrun
  BY <1>0, Taken
<1>2. \A t \in Sockets : Joined(t)' <=> Joined(t)
  BY <1>0 DEF Joined
<1>3. TruthUnderWay' /\ ToldOK'
  BY <1>0, TruthDelivered
<1>4. Follows'
  BY <1>0, FollowsDelivered
<1>5. KernelOK'
  BY <1>1 DEF FeedOK, KernelOK
<1>6. SourceOK'
  BY <1>0 DEF FeedOK, SourceOK, Created, list
<1>7. StreamOK'
  <2>1. inner_turn' \in Families
    BY <1>0, TurnStep DEF FeedOK
  <2>2. \A t \in Sockets : buffer'[t] \in Seq(MessagesOf(t)) /\ (~Joined(t)' => buffer'[t] = <<>>)
    BY <1>1, <1>2 DEF FeedOK, StreamOK
  <2>3. polling' \in Seq(Sockets) /\ (polling' # <<>> => Created')
    BY <1>0
  <2>4. groups_joined' = {t \in Sockets : Joined(t)'}
    BY <1>1, <1>2 DEF FeedOK, StreamOK
  <2> QED BY <1>0, <1>1, <2>1, <2>2, <2>3, <2>4 DEF FeedOK, StreamOK
<1> QED BY <1>3, <1>4, <1>5, <1>6, <1>7 DEF FeedOK

(***************************************************************************)
(* A step of poll_next keeps the invariant.                                *)
(***************************************************************************)
LEMMA PollStep ==
  ASSUME FeedOK, TypeOK, TruthUnderWay, Follows, Lists, PollStream
  PROVE  FeedOK' /\ TruthUnderWay' /\ Follows' /\ Lists'
<1>1. UNCHANGED <<list, source>>
  BY DEF PollStream
<1>2. Created
  BY DEF PollStream, StartPoll, FeedOK, StreamOK
<1>3. source # "list"
  BY <1>2, CreatedAtSix DEF FeedOK, SourceOK
<1>4. Lists'
  BY <1>1, <1>3 DEF Lists
<1>5. polling \in Seq(Sockets) /\ inner_turn \in Families /\ overrun \subseteq Sockets
  BY DEF FeedOK, StreamOK
<1>6. CASE StartPoll /\ UNCHANGED <<vars, told>>
  <2>1. Inner \in Seq(Sockets) /\ <<"link">> \in Seq(Sockets)
    <3>1. inner_turn \in Sockets /\ Other(inner_turn, "addr4", "addr6") \in Sockets
      BY <1>5 DEF Families, Sockets, Other
    <3>2. "link" \in Sockets
      BY DEF Sockets
    <3> QED BY <3>1, <3>2 DEF Inner
  <2>2. /\ setup' = setup /\ inner_turn' = inner_turn /\ UNCHANGED <<kernel, sockets>>
        /\ polling' = <<"link">> \o Inner \/ polling' = Inner \o <<"link">>
    BY <1>6 DEF StartPoll
  <2>3. polling' \in Seq(Sockets)
    BY <2>1, <2>2, ConcatProperties
  <2> QED BY <1>1, <1>2, <1>4, <1>5, <1>6, <2>2, <2>3, NothingTaken DEF sockets
<1>7. CASE polling # <<>>
  <2> DEFINE s == Head(polling)
  <2>1. s \in Sockets /\ Tail(polling) \in Seq(Sockets) /\ <<>> \in Seq(Sockets)
    BY <1>5, <1>7
  <2> HIDE DEF s
  <2>2. CASE Skip(s) /\ UNCHANGED <<vars, told>>
    BY <1>1, <1>4, <2>1, <2>2, SkipStep
  <2>3. CASE PollPending(s) /\ UNCHANGED <<vars, told>>
    <3>1. /\ UNCHANGED <<kernel, sockets>> /\ polling' = Tail(polling) /\ Turned(s)
          /\ setup' = setup
      BY <2>3 DEF PollPending, RecvBlocks
    <3>2. inner_turn' \in Families
      BY <2>1, <3>1, TurnStep DEF FeedOK
    <3> QED BY <1>1, <1>2, <1>4, <2>1, <2>3, <3>1, <3>2, NothingTaken DEF sockets
  <2>4. CASE YieldError(s) /\ told' = [told EXCEPT !.lossy = TRUE] /\ UNCHANGED vars
    <3>1. /\ UNCHANGED <<kernel, groups_joined, buffer>> /\ overrun' = overrun \ {s}
          /\ polling' = <<>> /\ Turned(s) /\ setup' = setup
      BY <2>4 DEF YieldError, RecvError
    <3>2. inner_turn' \in Families /\ overrun' \subseteq Sockets
      BY <1>5, <2>1, <3>1, TurnStep DEF FeedOK
    <3> QED BY <1>1, <1>4, <2>1, <2>4, <3>1, <3>2, NothingTaken
  <2>5. CASE \E e \in Translated(s, Head(buffer[s])) : YieldEvent(s, e) /\ Deliver(e)
    BY <1>1, <1>2, <1>4, <2>1, <2>5, YieldStep
  <2>6. \/ StartPoll /\ UNCHANGED <<vars, told>>
        \/ Skip(s) /\ UNCHANGED <<vars, told>>
        \/ PollPending(s) /\ UNCHANGED <<vars, told>>
        \/ YieldError(s) /\ told' = [told EXCEPT !.lossy = TRUE] /\ UNCHANGED vars
        \/ \E e \in Translated(s, Head(buffer[s])) : YieldEvent(s, e) /\ Deliver(e)
    BY DEF PollStream, s
  <2> QED BY <1>6, <2>2, <2>3, <2>4, <2>5, <2>6
<1> QED BY <1>6, <1>7 DEF PollStream
-----------------------------------------------------------------------------
(* The list is read.                                                       *)

(***************************************************************************)
(* What a list of events has, after more, and without the first.           *)
(***************************************************************************)
LEMMA WithinParts ==
  ASSUME NEW M, NEW q \in Seq(M), NEW r \in Seq(M)
  PROVE  /\ \A x : Within(x, q \o r) <=> Within(x, q) \/ Within(x, r)
         /\ q # <<>> => \A x : Within(x, q) <=> x = Head(q) \/ Within(x, Tail(q))
<1>1. \A x : Within(x, q \o r) <=> Within(x, q) \/ Within(x, r)
  <2> DEFINE s == q \o r
  <2>1. /\ Len(s) = Len(q) + Len(r) /\ Len(q) \in Nat /\ Len(r) \in Nat
        /\ DOMAIN q = 1 .. Len(q) /\ DOMAIN r = 1 .. Len(r) /\ DOMAIN s = 1 .. Len(s)
        /\ \A i \in 1 .. Len(q) + Len(r) : s[i] = IF i <= Len(q) THEN q[i] ELSE r[i - Len(q)]
    BY ConcatProperties
  <2> HIDE DEF s
  <2>2. \A i \in DOMAIN q : i \in DOMAIN s /\ s[i] = q[i]
    BY <2>1
  <2>3. \A i \in DOMAIN r : i + Len(q) \in DOMAIN s /\ s[i + Len(q)] = r[i]
    BY <2>1
  <2>4. \A i \in DOMAIN s : \/ i \in DOMAIN q /\ s[i] = q[i]
                            \/ i - Len(q) \in DOMAIN r /\ s[i] = r[i - Len(q)]
    BY <2>1
  <2>5. ASSUME NEW x PROVE Within(x, s) <=> Within(x, q) \/ Within(x, r)
    BY <2>2, <2>3, <2>4 DEF Within
  <2> QED BY <2>5 DEF s
<1>2. ASSUME q # <<>>, NEW x PROVE Within(x, q) <=> x = Head(q) \/ Within(x, Tail(q))
  <2> DEFINE t == Tail(q)
  <2>1. /\ Len(t) = Len(q) - 1 /\ Len(q) \in Nat \ {0} /\ Head(q) = q[1]
        /\ DOMAIN q = 1 .. Len(q) /\ DOMAIN t = 1 .. Len(t)
        /\ \A i \in 1 .. Len(t) : t[i] = q[i + 1]
    BY <1>2, HeadTailProperties
  <2> HIDE DEF t
  <2>2. 1 \in DOMAIN q /\ \A i \in DOMAIN t : i + 1 \in DOMAIN q /\ t[i] = q[i + 1]
    BY <2>1
  <2>3. \A i \in DOMAIN q : i = 1 \/ (i - 1 \in DOMAIN t /\ q[i] = t[i - 1])
    BY <2>1
  <2> QED BY <2>1, <2>2, <2>3 DEF Within, t
<1> QED BY <1>1, <1>2

(***************************************************************************)
(* The fields of an entry.                                                 *)
(***************************************************************************)
LEMMA ListedFields ==
  ASSUME NEW entry \in ListedEntries
  PROVE  /\ entry.flags \in FlagSets /\ entry.name.prefix \in Indexes
         /\ \/ entry.ip = {}
            \/ \E a \in Addresses : entry.ip = {a} /\ IfaceOf[a] = entry.name.prefix
BY DEF ListedEntries

\* The events r of an entry for interface l.
Means(entry, l, link, r) ==
    /\ r \in Seq(ListedEvents) /\ DOMAIN r \subseteq {1, 2}
    /\ \A j \in DOMAIN r :
          \/ j = 1 /\ l \notin indexes /\ r[j] = link
          \/ /\ l \notin indexes => j = 2 /\ 1 \in DOMAIN r /\ r[1] = link
             /\ \E a \in entry.ip : r[j] = NewAddr(l, a)
    /\ l \notin indexes => Within(link, r)
    /\ \A a \in entry.ip : Within(NewAddr(l, a), r)

(***************************************************************************)
(* What an entry means: its interface, when that is new, and its address.  *)
(***************************************************************************)
LEMMA ListedAs ==
  ASSUME NEW entry \in ListedEntries, NEW l, l = entry.name.prefix,
         NEW link, link = NewLink(l, map_flags(entry.flags)),
         NEW r, r = EventsOf(entry, l)
  PROVE  Means(entry, l, link, r)
<1> USE DEF Means
<1>1. link \in ListedEvents
  BY ListedFields DEF ListedEvents
<1>2. entry.ip = {} \/ \E a \in Addresses : entry.ip = {a} /\ IfaceOf[a] = l
  BY ListedFields
<1>3. r = (IF l \in indexes THEN <<>> ELSE <<link>>) \o SetToSeq({NewAddr(l, a) : a \in entry.ip})
  BY DEF EventsOf, map_interface_flags
<1> DEFINE first == IF l \in indexes THEN <<>> ELSE <<link>>
<1>4. CASE entry.ip = {}
  <2>1. {NewAddr(l, a) : a \in entry.ip} = {}
    BY <1>4
  <2>2. SetToSeq({}) = <<>>
    BY OneMember
  <2>3. r = first
    <3>1. r = first \o <<>>
      BY <1>3, <2>1, <2>2
    <3> QED BY <3>1
  <2> QED BY <1>1, <1>4, <2>3 DEF Within
<1>5. ASSUME NEW a \in Addresses, entry.ip = {a}, IfaceOf[a] = l
      PROVE  /\ r \in Seq(ListedEvents) /\ DOMAIN r \subseteq {1, 2}
             /\ \A j \in DOMAIN r :
                   \/ j = 1 /\ l \notin indexes /\ r[j] = link
                   \/ /\ l \notin indexes => j = 2 /\ 1 \in DOMAIN r /\ r[1] = link
                      /\ r[j] = NewAddr(l, a)
             /\ l \notin indexes => Within(link, r)
             /\ Within(NewAddr(l, a), r)
  <2> DEFINE addr == NewAddr(l, a)
  <2>1. {NewAddr(l, b) : b \in entry.ip} = {addr}
    BY <1>5
  <2>2. SetToSeq({addr}) = <<addr>>
    BY OneMember
  <2>3. r = first \o <<addr>>
    BY <1>3, <2>1, <2>2
  <2>4. addr \in ListedEvents
    BY <1>5 DEF ListedEvents
  <2> HIDE DEF addr
  <2>5. CASE l \in indexes
    <3>1. r = <<addr>>
      BY <2>3, <2>5
    <3> QED BY <2>4, <2>5, <3>1 DEF Within, addr
  <2>6. CASE l \notin indexes
    <3> DEFINE p == <<link>>
               q == <<addr>>
    <3>1. r = p \o q
      BY <2>3, <2>6
    <3>2. /\ p \in Seq(ListedEvents) /\ Len(p) = 1 /\ p[1] = link
          /\ q \in Seq(ListedEvents) /\ Len(q) = 1 /\ q[1] = addr
      BY <1>1, <2>4
    <3> HIDE DEF p, q
    <3>3. r \in Seq(ListedEvents) /\ Len(r) = 2 /\ r[1] = link /\ r[2] = addr
      <4>1. /\ r \in Seq(ListedEvents) /\ Len(r) = Len(p) + Len(q)
            /\ \A i \in 1 .. Len(p) + Len(q) : r[i] = IF i <= Len(p) THEN p[i] ELSE q[i - Len(p)]
        BY ONLY <3>1, <3>2, ConcatProperties
      <4> QED BY <3>2, <4>1
    <3>4. DOMAIN r = {1, 2}
      BY <3>3
    <3> QED BY <2>6, <3>3, <3>4 DEF Within, addr
  <2> QED BY <2>5, <2>6
<1> QED BY <1>2, <1>4, <1>5

(***************************************************************************)
(* The entries there may be.                                               *)
(***************************************************************************)
LEMMA EntriesListed ==
  ASSUME KernelOK
  PROVE  /\ IsFiniteSet(Entries) /\ Entries \subseteq ListedEntries
         /\ \A entry \in Entries :
               /\ entry.name.prefix \in DOMAIN links
               /\ entry.flags = links[entry.name.prefix]
               /\ entry.ip \subseteq addrs
               /\ \A a \in entry.ip : IfaceOf[a] = entry.name.prefix
               /\ entry.ip = {} => entry = LinkEntry(entry.name.prefix)
               /\ \A a \in entry.ip : entry = AddrEntry(a)
<1>1. /\ DOMAIN links \subseteq Indexes /\ addrs \subseteq Addresses
      /\ \A l \in DOMAIN links : links[l] \in FlagSets
      /\ \A a \in addrs : IfaceOf[a] \in DOMAIN links
  BY DEF KernelOK
<1>2. Entries = {LinkEntry(l) : l \in DOMAIN links} \cup {AddrEntry(a) : a \in addrs}
  BY DEF Entries, LinkEntry, AddrEntry
<1>3. IsFiniteSet(Entries)
  <2>1. IsFiniteSet(DOMAIN links)
    BY <1>1, KernelAssumption, FS_Subset
  <2>2. IsFiniteSet(addrs)
    <3>1. IsFiniteSet(Addresses)
      BY KernelAssumption, FS_Union DEF Addresses
    <3> QED BY <1>1, <3>1, FS_Subset
  <2>3. IsFiniteSet({LinkEntry(l) : l \in DOMAIN links})
    <3> DEFINE f == [l \in DOMAIN links |-> LinkEntry(l)]
               S == {LinkEntry(l) : l \in DOMAIN links}
    <3>1. f \in Surjection(DOMAIN links, S)
      BY DEF Surjection
    <3> HIDE DEF f, S
    <3>2. IsFiniteSet(S)
      BY <2>1, <3>1, FS_Surjection
    <3> QED BY <3>2 DEF S
  <2>4. IsFiniteSet({AddrEntry(a) : a \in addrs})
    <3> DEFINE f == [a \in addrs |-> AddrEntry(a)]
               S == {AddrEntry(a) : a \in addrs}
    <3>1. f \in Surjection(addrs, S)
      BY DEF Surjection
    <3> HIDE DEF f, S
    <3>2. IsFiniteSet(S)
      BY <2>2, <3>1, FS_Surjection
    <3> QED BY <3>2 DEF S
  <2> QED BY <1>2, <2>3, <2>4, FS_Union
<1>4. ASSUME NEW l \in DOMAIN links
      PROVE  /\ LinkEntry(l) \in ListedEntries /\ LinkEntry(l).name.prefix = l
             /\ LinkEntry(l).flags = links[l] /\ LinkEntry(l).ip = {}
  <2>1. l \in Indexes /\ links[l] \in FlagSets
    BY <1>1
  <2>2. LinkEntry(l) \in ListedEntries
    BY <2>1 DEF LinkEntry, ListedEntries, Name
  <2> QED BY <2>2 DEF LinkEntry, Name
<1>5. ASSUME NEW a \in addrs
      PROVE  /\ AddrEntry(a) \in ListedEntries /\ AddrEntry(a).name.prefix = IfaceOf[a]
             /\ AddrEntry(a).flags = links[IfaceOf[a]] /\ AddrEntry(a).ip = {a}
  <2>1. links[IfaceOf[a]] \in FlagSets /\ (a \in Aliases) \in BOOLEAN
        /\ a \in Addresses /\ IfaceOf[a] \in Indexes
    BY <1>1
  <2>2. AddrEntry(a) \in ListedEntries
    BY <2>1 DEF AddrEntry, ListedEntries, Name
  <2> QED BY <2>2 DEF AddrEntry, Name
<1> QED BY <1>1, <1>2, <1>3, <1>4, <1>5

(***************************************************************************)
(* The list begins with all there is.                                      *)
(***************************************************************************)
LEMMA ListBegins ==
  ASSUME FeedOK, Lists, source = "list", getifaddrs, UNCHANGED <<kernel, told, source>>
  PROVE  Lists'
<1>1. ListOK /\ LinksListedFirst /\ KernelOK
  BY DEF Lists, FeedOK
<1>2. PICK order \in SetToSeqs(Entries) : ifaddrs' = order
  BY DEF getifaddrs
<1>3. /\ listing = "before" /\ listing' = "during" /\ indexes' = indexes /\ msgs' = msgs
      /\ links' = links /\ addrs' = addrs /\ told' = told /\ source' = source
  BY DEF getifaddrs, kernel
<1>4. msgs = <<>> /\ indexes = {} /\ told.links = Empty /\ told.addrs = {}
  BY <1>1, <1>3 DEF ListOK
<1>5. /\ order \in Seq(Entries) /\ \A i \in DOMAIN order : order[i] \in Entries
      /\ \A x \in Entries : Within(x, order)
  BY <1>1, EntriesListed, OrderMembers DEF Within
<1>6. order \in Seq(ListedEntries)
  BY <1>1, <1>5, EntriesListed
<1>7. ListOK'
  BY <1>1, <1>2, <1>3, <1>4, <1>6 DEF ListOK
<1>8. LinksListedFirst'
  BY <1>1, <1>3 DEF LinksListedFirst
<1>9. ListedAll'
  <2>1. Entries' = Entries
    BY <1>3 DEF Entries
  <2>2. /\ \A l : LinkEntry(l)' = LinkEntry(l)
        /\ \A a : AddrEntry(a)' = AddrEntry(a)
    BY <1>3 DEF LinkEntry, AddrEntry
  <2>3. /\ \A l \in DOMAIN links : LinkEntry(l) \in Entries
        /\ \A a \in addrs : AddrEntry(a) \in Entries
    BY DEF Entries, LinkEntry, AddrEntry
  <2>4. DOMAIN told.links = {} /\ DOMAIN msgs = {}
    BY <1>4 DEF Empty
  <2> QED BY <1>2, <1>3, <1>4, <1>5, <2>1, <2>2, <2>3, <2>4 DEF ListedAll
<1> QED BY <1>7, <1>8, <1>9 DEF Lists

(***************************************************************************)
(* An entry is looked at.                                                  *)
(***************************************************************************)
LEMMA ListGrows ==
  ASSUME FeedOK, Lists, source = "list", ListEntry, UNCHANGED <<kernel, told, source>>
  PROVE  Lists'
<1>1. ListOK /\ LinksListedFirst /\ KernelOK
  BY DEF Lists, FeedOK
<1> DEFINE entry == Head(ifaddrs)
           rest == Tail(ifaddrs)
           l == entry.name.prefix
           found == nametoindex(Unaliased(entry.name))
           link == NewLink(l, map_flags(entry.flags))
           r == EventsOf(entry, l)
<1>2. /\ listing = "during" /\ listing' = "during" /\ ifaddrs # <<>> /\ ifaddrs' = rest
      /\ indexes' = indexes \cup found
      /\ msgs' = IF found = {} THEN msgs ELSE msgs \o EventsOf(entry, CHOOSE ix \in found : TRUE)
      /\ links' = links /\ addrs' = addrs /\ changes' = changes /\ told' = told
      /\ source' = source
  BY DEF ListEntry, kernel
<1>3. /\ ifaddrs \in Seq(ListedEntries) /\ msgs \in Seq(ListedEvents) /\ indexes \subseteq Indexes
  BY <1>1 DEF ListOK
<1>4. entry \in ListedEntries /\ rest \in Seq(ListedEntries)
  BY <1>2, <1>3, HeadTailProperties
<1> HIDE DEF entry, rest
<1>5. found = {l} \cap DOMAIN links
  <2>1. entry.name \in [prefix : Indexes, alias : BOOLEAN]
    BY <1>4 DEF ListedEntries
  <2> DEFINE name == Unaliased(entry.name)
  <2>2. name.prefix = l /\ name.alias = FALSE
    BY <2>1 DEF Unaliased
  <2> HIDE DEF name
  <2>3. nametoindex(name) = {l} \cap DOMAIN links
    BY <2>2 DEF nametoindex
  <2> QED BY <2>3 DEF name
<1>6. l \in Indexes
  BY <1>4, ListedFields
<1>7. /\ r \in Seq(ListedEvents) /\ DOMAIN r \subseteq {1, 2}
      /\ \A j \in DOMAIN r :
            \/ j = 1 /\ l \notin indexes /\ r[j] = link
            \/ /\ l \notin indexes => j = 2 /\ 1 \in DOMAIN r /\ r[1] = link
               /\ \E a \in entry.ip : r[j] = NewAddr(l, a)
      /\ l \notin indexes => Within(link, r)
      /\ \A a \in entry.ip : Within(NewAddr(l, a), r)
  <2>1. l = entry.name.prefix /\ link = NewLink(l, map_flags(entry.flags)) /\ r = EventsOf(entry, l)
    OBVIOUS
  <2> HIDE DEF link, r, l
  <2>2. Means(entry, l, link, r)
    BY ONLY <1>4, <2>1, ListedAs
  <2> QED BY <2>2 DEF Means
<1>8. link.type = "NewLink" /\ link.ix = l /\ \A a : NewAddr(l, a).type = "NewAddr" /\ NewAddr(l, a).ix = l
  BY DEF NewLink, NewAddr
<1> HIDE DEF link, r, l, found
<1>9. \/ found = {} /\ msgs' = msgs /\ indexes' = indexes /\ l \notin DOMAIN links
      \/ found = {l} /\ l \in DOMAIN links /\ msgs' = msgs \o r /\ indexes' = indexes \cup {l}
  <2>1. CASE l \in DOMAIN links
    <3>1. found = {l} /\ (CHOOSE ix \in found : TRUE) = l
      BY <1>5, <2>1
    <3> QED BY <1>2, <2>1, <3>1 DEF r
  <2>2. CASE l \notin DOMAIN links
    BY <1>2, <1>5, <2>2
  <2> QED BY <2>1, <2>2
<1>10. ListOK'
  <2>1. msgs' \in Seq(ListedEvents)
    <3>1. CASE msgs' = msgs
      BY <1>3, <3>1
    <3>2. CASE msgs' = msgs \o r
      BY ONLY <1>3, <1>7, <3>2, ConcatProperties
    <3> QED BY <1>9, <3>1, <3>2
  <2> QED BY <1>1, <1>2, <1>3, <1>4, <1>6, <1>9, <2>1 DEF ListOK
<1>11. LinksListedFirst'
  <2>1. CASE msgs' = msgs /\ indexes' = indexes
    <3>1. told' = told /\ LinksListedFirst
      BY <1>1, <1>2
    <3> QED BY ONLY <2>1, <3>1 DEF LinksListedFirst
  <2>2. CASE msgs' = msgs \o r /\ indexes' = indexes \cup {l}
    <3> DEFINE p == msgs \o r
    <3>1. /\ Len(p) = Len(msgs) + Len(r) /\ Len(msgs) \in Nat /\ Len(r) \in Nat
          /\ DOMAIN msgs = 1 .. Len(msgs) /\ DOMAIN r = 1 .. Len(r) /\ DOMAIN p = 1 .. Len(p)
          /\ \A i \in 1 .. Len(msgs) + Len(r) :
                p[i] = IF i <= Len(msgs) THEN msgs[i] ELSE r[i - Len(msgs)]
      BY <1>3, <1>7, ConcatProperties
    <3>2. msgs' = p
      BY <2>2
    <3> HIDE DEF p
    <3>3. \A i \in DOMAIN msgs : i \in DOMAIN p /\ p[i] = msgs[i]
      BY <3>1
    <3>4. \A i \in DOMAIN r : i + Len(msgs) \in DOMAIN p /\ p[i + Len(msgs)] = r[i]
      BY <3>1
    <3>5. \A i \in DOMAIN p : \/ i \in DOMAIN msgs /\ p[i] = msgs[i]
                              \/ i - Len(msgs) \in DOMAIN r /\ p[i] = r[i - Len(msgs)]
      BY <3>1
    <3>6. /\ told.early = {}
          /\ \A k \in indexes : k \in DOMAIN told.links \/ \E i \in DOMAIN msgs :
                msgs[i].type = "NewLink" /\ msgs[i].ix = k
          /\ \A j \in DOMAIN msgs : msgs[j].type = "NewAddr" =>
                \/ msgs[j].ix \in DOMAIN told.links
                \/ \E i \in DOMAIN msgs : i < j /\ msgs[i].type = "NewLink" /\ msgs[i].ix = msgs[j].ix
      BY <1>1 DEF LinksListedFirst
    <3>7. ASSUME NEW k \in indexes'
          PROVE  k \in DOMAIN told.links \/ \E i \in DOMAIN p : p[i].type = "NewLink" /\ p[i].ix = k
      <4>1. CASE k \in indexes
        BY <3>3, <3>6, <4>1
      <4>2. CASE k \notin indexes
        <5>1. k = l /\ Within(link, r)
          BY <1>7, <2>2, <4>2
        <5>2. PICK i \in DOMAIN r : r[i] = link
          BY <5>1 DEF Within
        <5> QED BY <1>8, <3>4, <5>1, <5>2
      <4> QED BY <4>1, <4>2
    <3>8. ASSUME NEW j \in DOMAIN p, p[j].type = "NewAddr"
          PROVE  \/ p[j].ix \in DOMAIN told.links
                 \/ \E i \in DOMAIN p : i < j /\ p[i].type = "NewLink" /\ p[i].ix = p[j].ix
      <4>1. CASE j \in DOMAIN msgs /\ p[j] = msgs[j]
        BY <3>3, <3>6, <3>8, <4>1
      <4>2. CASE j \notin DOMAIN msgs
        <5> DEFINE n == j - Len(msgs)
        <5>1. n \in DOMAIN r /\ p[j] = r[n] /\ j = n + Len(msgs)
          BY <3>1, <3>5, <4>2
        <5> HIDE DEF n
        <5>2. /\ l \notin indexes => n = 2 /\ 1 \in DOMAIN r /\ r[1] = link
              /\ p[j].ix = l
          BY <1>7, <1>8, <3>8, <5>1
        <5>3. CASE l \notin indexes
          <6>1. 1 + Len(msgs) \in DOMAIN p /\ p[1 + Len(msgs)] = link /\ 1 + Len(msgs) < j
            BY <3>1, <3>4, <5>1, <5>2, <5>3
          <6> QED BY <1>8, <5>2, <6>1
        <5>4. CASE l \in indexes
          <6>1. l \in DOMAIN told.links \/ \E i \in DOMAIN msgs :
                   msgs[i].type = "NewLink" /\ msgs[i].ix = l
            BY <3>6, <5>4
          <6>2. \A i \in DOMAIN msgs : i < j
            BY <3>1, <4>2, <5>1
          <6> QED BY <3>3, <5>2, <6>1, <6>2
        <5> QED BY <5>3, <5>4
      <4> QED BY <3>5, <4>1, <4>2
    <3>9. told' = told
      BY <1>2
    <3> QED BY ONLY <3>2, <3>6, <3>7, <3>8, <3>9 DEF LinksListedFirst
  <2> QED BY <1>9, <2>1, <2>2
<1>12. ASSUME changes = 0 PROVE ListedAll'
  <2>1. ListedAll
    BY <1>2, <1>12 DEF Lists
  <2>2. /\ \A x : Within(x, ifaddrs) <=> x = entry \/ Within(x, rest)
    BY <1>2, <1>3, WithinParts DEF entry, rest
  <2>3. Within(entry, ifaddrs)
    BY <2>2
  <2>4. entry \in Entries
    BY <2>1, <2>3 DEF ListedAll, Within
  <2>5. /\ l \in DOMAIN links /\ entry.flags = links[l]
        /\ \A a \in entry.ip : a \in addrs /\ IfaceOf[a] = l
    BY <1>1, <2>4, EntriesListed DEF l
  <2>6. msgs' = msgs \o r /\ indexes' = indexes \cup {l} /\ link = NewLink(l, map_flags(links[l]))
    BY <1>9, <2>5 DEF link
  <2>7. \A x : Within(x, msgs') <=> Within(x, msgs) \/ Within(x, r)
    BY <1>3, <1>7, <2>6, WithinParts
  <2>8. /\ Entries' = Entries
        /\ \A k : LinkEntry(k)' = LinkEntry(k)
        /\ \A a : AddrEntry(a)' = AddrEntry(a)
    BY <1>2 DEF Entries, LinkEntry, AddrEntry
  <2>9. \A i \in DOMAIN rest : rest[i] \in Entries
    BY <2>1, <2>2 DEF ListedAll, Within
  <2>10. ASSUME NEW k \in indexes'
         PROVE  Within(NewLink(k, map_flags(links[k])), msgs') \/ k \in DOMAIN told.links
    <3>1. CASE k \in indexes
      BY <2>1, <2>7, <3>1 DEF ListedAll
    <3>2. CASE k \notin indexes
      BY <1>7, <2>6, <2>7, <3>2
    <3> QED BY <3>1, <3>2
  <2>11. ASSUME NEW k \in DOMAIN links
         PROVE  \/ Within(LinkEntry(k), rest)
                \/ Within(NewLink(k, map_flags(links[k])), msgs')
                \/ k \in DOMAIN told.links
    <3>1. CASE LinkEntry(k) = entry
      <4>1. k = l
        BY <3>1 DEF l, LinkEntry, Name
      <4> QED BY <2>6, <2>10, <4>1
    <3>2. CASE LinkEntry(k) # entry
      BY <2>1, <2>2, <2>7, <3>2 DEF ListedAll
    <3> QED BY <3>1, <3>2
  <2>12. ASSUME NEW a \in addrs
         PROVE  \/ Within(AddrEntry(a), rest) \/ Within(NewAddr(IfaceOf[a], a), msgs')
                \/ a \in told.addrs
    <3>1. CASE AddrEntry(a) = entry
      <4>1. a \in entry.ip
        BY <3>1 DEF AddrEntry
      <4> QED BY <1>7, <2>5, <2>7, <4>1
    <3>2. CASE AddrEntry(a) # entry
      BY <2>1, <2>2, <2>7, <3>2 DEF ListedAll
    <3> QED BY <3>1, <3>2
  <2>13. ASSUME NEW i \in DOMAIN msgs'
         PROVE  \/ \E k \in DOMAIN links : msgs'[i] = NewLink(k, map_flags(links[k]))
                \/ \E a \in addrs : msgs'[i] = NewAddr(IfaceOf[a], a)
    <3>1. Within(msgs'[i], msgs) \/ Within(msgs'[i], r)
      BY <2>7 DEF Within
    <3>2. CASE Within(msgs'[i], msgs)
      BY <2>1, <3>2 DEF ListedAll, Within
    <3>3. CASE Within(msgs'[i], r)
      BY <1>7, <2>5, <2>6, <3>3 DEF Within
    <3> QED BY <3>1, <3>2, <3>3
  <2>14. /\ \A k \in DOMAIN told.links :
               k \in DOMAIN links /\ told.links[k] = map_flags(links[k])
         /\ told.addrs \subseteq addrs
    BY <2>1 DEF ListedAll
  <2> HIDE DEF link, r, l, found
  <2> QED BY <1>2, <2>8, <2>9, <2>10, <2>11, <2>12, <2>13, <2>14 DEF ListedAll
<1> QED BY <1>2, <1>10, <1>11, <1>12 DEF Lists

(***************************************************************************)
(* The next event of the list is delivered.                                *)
(***************************************************************************)
LEMMA ListDelivered ==
  ASSUME FeedOK, Lists, source = "list", NextListed, told' = Recorded(Head(msgs)),
         UNCHANGED <<kernel, source>>
  PROVE  ToldOK' /\ Lists'
<1>1. ListOK /\ LinksListedFirst /\ KernelOK /\ ToldOK
  BY DEF Lists, FeedOK
<1> DEFINE e == Head(msgs)
           rest == Tail(msgs)
<1>2. /\ listing = "after" /\ listing' = "after" /\ msgs # <<>> /\ msgs' = rest
      /\ ifaddrs' = ifaddrs /\ indexes' = indexes
      /\ links' = links /\ addrs' = addrs /\ changes' = changes /\ source' = source
      /\ told' = Recorded(e)
  BY DEF NextListed, kernel
<1>3. msgs \in Seq(ListedEvents) /\ ifaddrs = <<>>
  BY <1>1, <1>2 DEF ListOK
<1>4. e \in ListedEvents /\ rest \in Seq(ListedEvents)
  BY <1>2, <1>3, HeadTailProperties
<1>5. /\ Len(rest) = Len(msgs) - 1 /\ Len(msgs) \in Nat \ {0} /\ e = msgs[1]
      /\ DOMAIN msgs = 1 .. Len(msgs) /\ DOMAIN rest = 1 .. Len(rest)
      /\ \A i \in 1 .. Len(rest) : rest[i] = msgs[i + 1]
  BY <1>2, <1>3, HeadTailProperties
<1>6. \A x : Within(x, msgs) <=> x = e \/ Within(x, rest)
  BY <1>2, <1>3, WithinParts
<1> HIDE DEF e, rest
<1>7. /\ told.early = {}
      /\ \A k \in indexes : k \in DOMAIN told.links \/ \E i \in DOMAIN msgs :
            msgs[i].type = "NewLink" /\ msgs[i].ix = k
      /\ \A j \in DOMAIN msgs : msgs[j].type = "NewAddr" =>
            \/ msgs[j].ix \in DOMAIN told.links
            \/ \E i \in DOMAIN msgs : i < j /\ msgs[i].type = "NewLink" /\ msgs[i].ix = msgs[j].ix
  BY <1>1 DEF LinksListedFirst
\* What has been told of includes what had been, and the interface of this event.
<1>8. ASSUME told'.early = {}, DOMAIN told.links \subseteq DOMAIN told'.links,
             e.type = "NewLink" => e.ix \in DOMAIN told'.links
      PROVE  LinksListedFirst'
  <2>1. \A i \in DOMAIN msgs : i = 1 \/ (i - 1 \in DOMAIN rest /\ msgs[i] = rest[i - 1])
    BY <1>5
  <2>2. ASSUME NEW k \in indexes
        PROVE  k \in DOMAIN told'.links \/ \E i \in DOMAIN rest : rest[i].type = "NewLink" /\ rest[i].ix = k
    <3>1. CASE k \in DOMAIN told.links
      BY <1>8, <3>1
    <3>2. CASE k \notin DOMAIN told.links
      <4>1. PICK i \in DOMAIN msgs : msgs[i].type = "NewLink" /\ msgs[i].ix = k
        BY <1>7, <3>2
      <4> QED BY <1>5, <1>8, <2>1, <4>1
    <3> QED BY <3>1, <3>2
  <2>3. ASSUME NEW j \in DOMAIN rest, rest[j].type = "NewAddr"
        PROVE  \/ rest[j].ix \in DOMAIN told'.links
               \/ \E i \in DOMAIN rest : i < j /\ rest[i].type = "NewLink" /\ rest[i].ix = rest[j].ix
    <3>1. j + 1 \in DOMAIN msgs /\ rest[j] = msgs[j + 1]
      BY <1>5
    <3>2. CASE rest[j].ix \in DOMAIN told.links
      BY <1>8, <3>2
    <3>3. CASE rest[j].ix \notin DOMAIN told.links
      <4>1. PICK i \in DOMAIN msgs :
               i < j + 1 /\ msgs[i].type = "NewLink" /\ msgs[i].ix = rest[j].ix
        BY <1>7, <2>3, <3>1, <3>3
      <4>2. CASE i = 1
        BY <1>5, <1>8, <4>1, <4>2
      <4>3. CASE i # 1
        <5>1. i - 1 \in DOMAIN rest /\ msgs[i] = rest[i - 1] /\ i - 1 < j
          BY <1>5, <2>1, <4>1, <4>3
        <5> QED BY <4>1, <5>1
      <4> QED BY <4>2, <4>3
    <3> QED BY <3>2, <3>3
  <2>4. msgs' = rest /\ indexes' = indexes
    BY <1>2
  <2> QED BY ONLY <1>8, <2>2, <2>3, <2>4 DEF LinksListedFirst
<1>9. ListOK'
  BY <1>1, <1>2, <1>3, <1>4 DEF ListOK
<1>10. /\ Entries' = Entries /\ DOMAIN ifaddrs = {}
       /\ \A k : LinkEntry(k)' = LinkEntry(k)
       /\ \A a : AddrEntry(a)' = AddrEntry(a)
  BY <1>2, <1>3 DEF Entries, LinkEntry, AddrEntry
\* If nothing has changed: what is left, and what has been told, is the truth.
<1>11. ASSUME changes = 0,
              DOMAIN told.links \subseteq DOMAIN told'.links, told.addrs \subseteq told'.addrs,
              \A k \in DOMAIN links : e = NewLink(k, map_flags(links[k])) => k \in DOMAIN told'.links,
              \A a \in addrs : e = NewAddr(IfaceOf[a], a) => a \in told'.addrs,
              \A k \in DOMAIN told'.links :
                 k \in DOMAIN links /\ told'.links[k] = map_flags(links[k]),
              told'.addrs \subseteq addrs
       PROVE  ListedAll'
  <2>1. ListedAll
    BY <1>2, <1>11 DEF Lists
  <2>2. \A x : ~Within(x, ifaddrs)
    BY <1>10 DEF Within
  <2>3. /\ indexes \subseteq DOMAIN links
           => \A k \in indexes :
                 \/ Within(NewLink(k, map_flags(links[k])), rest) \/ k \in DOMAIN told'.links
        /\ \A k \in DOMAIN links :
              \/ Within(NewLink(k, map_flags(links[k])), rest) \/ k \in DOMAIN told'.links
        /\ \A a \in addrs : Within(NewAddr(IfaceOf[a], a), rest) \/ a \in told'.addrs
    BY <1>6, <1>11, <2>1, <2>2 DEF ListedAll
  <2>4. ASSUME NEW k \in indexes PROVE k \in DOMAIN links
    <3>1. CASE k \in DOMAIN told.links
      BY <2>1, <3>1 DEF ListedAll
    <3>2. CASE Within(NewLink(k, map_flags(links[k])), msgs)
      <4> DEFINE x == NewLink(k, map_flags(links[k]))
      <4>1. x.type = "NewLink" /\ x.ix = k
        BY DEF NewLink
      <4>2. \/ \E n \in DOMAIN links : x = NewLink(n, map_flags(links[n]))
            \/ \E a \in addrs : x = NewAddr(IfaceOf[a], a)
        <5> HIDE DEF x
        <5>1. Within(x, msgs)
          BY <3>2 DEF x
        <5> QED BY <2>1, <5>1 DEF ListedAll, Within
      <4>3. /\ \A a : NewAddr(IfaceOf[a], a).type = "NewAddr"
            /\ \A n, f : NewLink(n, f).ix = n
        BY DEF NewAddr, NewLink
      <4> HIDE DEF x
      <4> QED BY <4>1, <4>2, <4>3
    <3> QED BY <2>1, <3>1, <3>2 DEF ListedAll
  <2>5. ASSUME NEW i \in DOMAIN rest
        PROVE  \/ \E k \in DOMAIN links : rest[i] = NewLink(k, map_flags(links[k]))
               \/ \E a \in addrs : rest[i] = NewAddr(IfaceOf[a], a)
    <3>1. i + 1 \in DOMAIN msgs /\ rest[i] = msgs[i + 1]
      BY <1>5
    <3> QED BY <2>1, <3>1 DEF ListedAll
  <2>6. /\ links' = links /\ addrs' = addrs /\ msgs' = rest /\ indexes' = indexes
        /\ ifaddrs' = ifaddrs
    BY <1>2
  <2> QED BY ONLY <1>10, <1>11, <2>3, <2>4, <2>5, <2>6 DEF ListedAll
<1>12. ASSUME ToldOK', LinksListedFirst', changes = 0 => ListedAll'
       PROVE  ToldOK' /\ Lists'
  BY <1>2, <1>9, <1>12 DEF Lists
<1>13. ASSUME NEW l \in Indexes, NEW f \in FlagSets, e = NewLink(l, map_flags(f))
       PROVE  ToldOK' /\ Lists'
  <2> DEFINE F == map_flags(f)
  <2>1. ToldOK /\ told' = Recorded(NewLink(l, F)) /\ F \subseteq Known
    BY <1>1, <1>2, <1>13 DEF map_flags
  <2>2. e = NewLink(l, F)
    BY <1>13
  <2> HIDE DEF F
  <2>3. /\ DOMAIN told'.links = DOMAIN told.links \cup {l}
        /\ \A k \in DOMAIN told'.links : told'.links[k] = IF k = l THEN F ELSE told.links[k]
        /\ told'.addrs = told.addrs /\ told'.early = told.early
        /\ F \subseteq Known => ToldOK'
    BY <2>1, AccountsNewLink
  <2>4. e.type = "NewLink" /\ e.ix = l /\ e.flags = F
    BY <2>2 DEF NewLink
  <2>5. LinksListedFirst'
    BY <1>7, <1>8, <2>3, <2>4
  <2>6. ASSUME changes = 0 PROVE ListedAll'
    <3>1. ListedAll /\ Within(e, msgs)
      BY <1>2, <1>6, <2>6 DEF Lists
    <3>2. \/ \E k \in DOMAIN links : e = NewLink(k, map_flags(links[k]))
          \/ \E a \in addrs : e = NewAddr(IfaceOf[a], a)
      BY <3>1 DEF ListedAll, Within
    <3>3. /\ \A k, g : NewLink(k, g).ix = k /\ NewLink(k, g).flags = g
          /\ \A a : NewAddr(IfaceOf[a], a).type = "NewAddr"
      BY DEF NewLink, NewAddr
    <3>4. l \in DOMAIN links /\ F = map_flags(links[l])
      BY <2>4, <3>2, <3>3
    <3>5. /\ \A k \in DOMAIN told.links :
                k \in DOMAIN links /\ told.links[k] = map_flags(links[k])
          /\ told.addrs \subseteq addrs
      BY <3>1 DEF ListedAll
    <3>6. /\ \A k \in DOMAIN links : e = NewLink(k, map_flags(links[k])) => k \in DOMAIN told'.links
          /\ \A a \in addrs : e = NewAddr(IfaceOf[a], a) => a \in told'.addrs
      BY <2>3, <2>4, <3>3
    <3>7. \A k \in DOMAIN told'.links :
             k \in DOMAIN links /\ told'.links[k] = map_flags(links[k])
      BY <2>3, <3>4, <3>5
    <3> QED BY <1>11, <2>3, <2>6, <3>5, <3>6, <3>7
  <2> QED BY <1>12, <2>1, <2>3, <2>5, <2>6
<1>14. ASSUME NEW a \in Addresses, e = NewAddr(IfaceOf[a], a)
       PROVE  ToldOK' /\ Lists'
  <2> DEFINE l == IfaceOf[a]
  <2>1. ToldOK /\ told' = Recorded(NewAddr(l, a)) /\ e = NewAddr(l, a)
    BY <1>1, <1>2, <1>14
  <2> HIDE DEF l
  <2>2. /\ told'.links = told.links /\ told'.addrs = told.addrs \cup {a}
        /\ told'.early = IF l \in DOMAIN told.links THEN told.early ELSE told.early \cup {a}
        /\ a \in Addresses => ToldOK'
    BY ONLY <2>1, AccountsNewAddr
  <2>3. e.type = "NewAddr" /\ e.ix = l /\ e.addr = a
    BY <2>1 DEF NewAddr
  <2>4. l \in DOMAIN told.links
    <3>1. 1 \in DOMAIN msgs /\ \A i \in DOMAIN msgs : ~(i < 1)
      BY <1>5
    <3> QED BY <1>5, <1>7, <2>3, <3>1
  <2>5. LinksListedFirst'
    BY <1>7, <1>8, <2>2, <2>3, <2>4
  <2>6. ASSUME changes = 0 PROVE ListedAll'
    <3>1. ListedAll /\ Within(e, msgs)
      BY <1>2, <1>6, <2>6 DEF Lists
    <3>2. \/ \E k \in DOMAIN links : e = NewLink(k, map_flags(links[k]))
          \/ \E b \in addrs : e = NewAddr(IfaceOf[b], b)
      BY <3>1 DEF ListedAll, Within
    <3>3. /\ \A k, g : NewLink(k, g).type = "NewLink"
          /\ \A k, b : NewAddr(k, b).addr = b
      BY DEF NewLink, NewAddr
    <3>4. a \in addrs
      BY <2>3, <3>2, <3>3
    <3>5. /\ \A k \in DOMAIN told.links :
                k \in DOMAIN links /\ told.links[k] = map_flags(links[k])
          /\ told.addrs \subseteq addrs
      BY <3>1 DEF ListedAll
    <3>6. /\ \A k \in DOMAIN links : e = NewLink(k, map_flags(links[k])) => k \in DOMAIN told'.links
          /\ \A b \in addrs : e = NewAddr(IfaceOf[b], b) => b \in told'.addrs
      BY <2>2, <2>3, <3>3
    <3> QED BY <1>11, <2>2, <2>6, <3>4, <3>5, <3>6
  <2> QED BY <1>12, <2>2, <2>5, <2>6
<1> QED BY <1>4, <1>13, <1>14 DEF ListedEvents

(***************************************************************************)
(* A step of reading the list keeps the invariant.                         *)
(***************************************************************************)
LEMMA ReadStep ==
  ASSUME FeedOK, TruthUnderWay, Follows, Lists, ReadList
  PROVE  FeedOK' /\ TruthUnderWay' /\ Follows' /\ Lists'
<1>1. source = "list" /\ source' = source /\ UNCHANGED <<kernel, sockets, stream>>
  BY DEF ReadList
<1>2. TruthUnderWay' /\ Follows'
  BY <1>1 DEF TruthUnderWay, Follows
<1>3. ToldOK' /\ Lists'
  <2>1. CASE getifaddrs /\ told' = told
    BY <1>1, <2>1, ListBegins DEF FeedOK, ToldOK
  <2>2. CASE ListEntry /\ told' = told
    BY <1>1, <2>2, ListGrows DEF FeedOK, ToldOK
  <2>3. CASE ListEnds /\ told' = told
    <3>1. ToldOK'
      BY <2>3 DEF FeedOK, ToldOK
    <3>2. /\ listing = "during" /\ listing' = "after" /\ ifaddrs = <<>>
          /\ ifaddrs' = ifaddrs /\ indexes' = indexes /\ msgs' = msgs
          /\ links' = links /\ addrs' = addrs /\ changes' = changes
      BY <1>1, <2>3 DEF ListEnds, kernel
    <3>3. ListOK' /\ LinksListedFirst'
      BY <1>1, <2>3, <3>2 DEF Lists, ListOK, LinksListedFirst
    <3>4. ListedAll => ListedAll'
      <4>1. /\ Entries' = Entries
            /\ \A l : LinkEntry(l)' = LinkEntry(l)
            /\ \A a : AddrEntry(a)' = AddrEntry(a)
        BY <3>2 DEF Entries, LinkEntry, AddrEntry
      <4>2. told' = told
        BY <2>3
      <4> QED BY ONLY <3>2, <4>1, <4>2 DEF ListedAll
    <3>5. listing # "before" /\ changes = 0 => ListedAll
      BY <1>1 DEF Lists
    <3> QED BY <1>1, <3>1, <3>2, <3>3, <3>4, <3>5 DEF Lists
  <2>4. CASE NextListed /\ Deliver(Head(msgs))
    BY <1>1, <2>4, ListDelivered DEF Deliver
  <2> QED BY <2>1, <2>2, <2>3, <2>4 DEF ReadList
<1>4. KernelOK'
  BY <1>1 DEF FeedOK, KernelOK, kernel
<1>5. StreamOK'
  BY <1>1 DEF FeedOK, StreamOK, sockets, stream, Created, Joined
<1>6. SourceOK'
  BY <1>1 DEF FeedOK, SourceOK, stream
<1> QED BY <1>2, <1>3, <1>4, <1>5, <1>6 DEF FeedOK
-----------------------------------------------------------------------------
(* The whole.                                                              *)

FeedInv == FeedOK /\ TypeOK /\ TruthUnderWay /\ Follows /\ Lists

(***************************************************************************)
(* An event of cotton-netif is one of the engine's, or is ignored.         *)
(***************************************************************************)
LEMMA EventHeard ==
  ASSUME TypeOK, NEW e, on_network_event(e), e.ix \in Indexes
  PROVE  Event \/ UNCHANGED vars
<1>1. CASE Ignored(e)
  BY <1>1 DEF on_network_event
<1>2. CASE ~Ignored(e)
  <2>1. e.ix \in Links
    BY FeedAssumption
  <2>2. CASE e.type = "NewLink" /\ on_new_link_event(e.ix, e.flags)
    BY <2>1, <2>2 DEF Event
  <2>3. CASE e.type = "DelLink" /\ on_del_link_event(e.ix)
    BY <2>1, <2>3 DEF Event
  <2>4. CASE e.type = "NewAddr" /\ on_new_addr_event(e.ix, e.addr)
    <3>1. e.addr \in Ips
      BY <1>2, <2>4 DEF Ignored
    <3> QED BY <2>1, <2>4, <3>1 DEF Event
  <2>5. CASE e.type = "DelAddr" /\ on_del_addr_event(e.ix, e.addr)
    <3>1. e.ix \in DOMAIN interfaces /\ e.addr \in interfaces[e.ix].ips
      BY <2>5 DEF on_del_addr_event
    <3>2. e.addr \in Ips
      BY <3>1 DEF TypeOK
    <3> QED BY <2>1, <2>5, <3>2 DEF Event
  <2> QED BY <1>2, <2>2, <2>3, <2>4, <2>5 DEF on_network_event
<1> QED BY <1>1, <1>2

(***************************************************************************)
(* What a step is to the engine.                                           *)
(***************************************************************************)
LEMMA EngineStep ==
  ASSUME FeedInv, FeedNext
  PROVE  Step \/ UNCHANGED vars
<1>0. \A a \in Addresses : IfaceOf[a] \in Indexes
  BY KernelAssumption DEF Addresses
<1>1. CASE KernelChanges \/ CreateStream
  BY <1>1 DEF KernelChanges, CreateStream
<1>2. CASE PollStream
  <2>1. ASSUME polling # <<>>, NEW e \in Translated(Head(polling), Head(buffer[Head(polling)])),
               YieldEvent(Head(polling), e), Deliver(e)
        PROVE  Event \/ UNCHANGED vars
    <3> DEFINE s == Head(polling)
               m == Head(buffer[s])
    <3>1. s \in Sockets
      BY <2>1 DEF FeedInv, FeedOK, StreamOK
    <3>2. RecvMessage(s) /\ e \in Translated(s, m) /\ on_network_event(e)
      BY <2>1 DEF YieldEvent, Deliver
    <3> HIDE DEF s
    <3>3. m \in MessagesOf(s)
      BY <3>1, <3>2, Taken DEF FeedInv
    <3> HIDE DEF m
    <3>4. \/ \E l \in Indexes : \E f : e = NewLink(l, f)
          \/ \E l \in Indexes : e = DelLink(l)
          \/ \E f \in Families : \E a \in Of(f) :
                e = NewAddr(IfaceOf[a], a) \/ e = DelAddr(IfaceOf[a], a)
      BY <3>1, <3>2, <3>3, MeansEvent
    <3>5. \A f \in Families : \A a \in Of(f) : IfaceOf[a] \in Indexes
      BY <1>0 DEF Of, Addresses
    <3>6. e.ix \in Indexes
      BY <3>4, <3>5 DEF NewLink, DelLink, NewAddr, DelAddr
    <3> QED BY <3>2, <3>6, EventHeard DEF FeedInv
  <2> QED BY <1>2, <2>1 DEF PollStream, Step, Call
<1>3. CASE ReadList
  <2>1. ASSUME NextListed, Deliver(Head(msgs)), source = "list"
        PROVE  Event \/ UNCHANGED vars
    <3> DEFINE e == Head(msgs)
    <3>1. msgs \in Seq(ListedEvents) /\ msgs # <<>>
      BY <2>1 DEF FeedInv, Lists, ListOK, NextListed
    <3>2. e \in ListedEvents
      BY <3>1, HeadTailProperties
    <3>3. on_network_event(e)
      BY <2>1 DEF Deliver
    <3> HIDE DEF e
    <3>4. e.ix \in Indexes
      BY <1>0, <3>2 DEF ListedEvents, NewLink, NewAddr
    <3> QED BY <3>3, <3>4, EventHeard DEF FeedInv
  <2> QED BY <1>3, <2>1 DEF ReadList, Step, Call
<1>4. CASE Advertise
  BY <1>4 DEF Advertise, Step, Call
<1> QED BY <1>1, <1>2, <1>3, <1>4 DEF FeedNext

(***************************************************************************)
(* The application's calls leave the engine's interfaces as they are.      *)
(***************************************************************************)
LEMMA AdvertiseStep ==
  ASSUME FeedOK, TruthUnderWay, Follows, Lists,
         UNCHANGED <<interfaces, groups, kernel, sockets, stream, list, source, told>>
  PROVE  FeedOK' /\ TruthUnderWay' /\ Follows' /\ Lists'
<1>1. /\ links' = links /\ addrs' = addrs /\ retired' = retired /\ changes' = changes
      /\ groups_joined' = groups_joined /\ buffer' = buffer /\ overrun' = overrun
      /\ setup' = setup /\ polling' = polling /\ inner_turn' = inner_turn
      /\ listing' = listing /\ ifaddrs' = ifaddrs /\ indexes' = indexes /\ msgs' = msgs
  BY DEF kernel, sockets, stream, list
<1>2. FeedOK'
  <2>1. KernelOK'
    BY <1>1 DEF FeedOK, KernelOK
  <2>2. StreamOK'
    BY <1>1 DEF FeedOK, StreamOK, Created, Joined
  <2>3. ToldOK'
    BY DEF FeedOK, ToldOK
  <2>4. SourceOK'
    BY <1>1 DEF FeedOK, SourceOK, Created
  <2> QED BY <2>1, <2>2, <2>3, <2>4 DEF FeedOK
<1>3. TruthUnderWay'
  BY <1>1 DEF TruthUnderWay, Lossy, LinksHeeded, AddrsHeeded, Heeded, LinkNews, AddrNews,
              LinkKnown, AddrKnown, Dumped
<1>4. Follows'
  BY <1>1 DEF Follows, DellinkIsLast, EngineFollows, LinkFollows, AddrFollows, Gone
<1>5. Lists'
  <2>1. ListedAll => ListedAll'
    <3>1. /\ Entries' = Entries
          /\ \A l : LinkEntry(l)' = LinkEntry(l)
          /\ \A a : AddrEntry(a)' = AddrEntry(a)
      BY <1>1 DEF Entries, LinkEntry, AddrEntry
    <3>2. told' = told
      OBVIOUS
    <3> QED BY ONLY <1>1, <3>1, <3>2 DEF ListedAll
  <2>2. /\ ListOK => ListOK'
        /\ LinksListedFirst => LinksListedFirst'
    BY <1>1 DEF ListOK, LinksListedFirst
  <2> QED BY <1>1, <2>1, <2>2 DEF Lists
<1> QED BY <1>2, <1>3, <1>4, <1>5

(***************************************************************************)
(* The initial states.                                                     *)
(***************************************************************************)
LEMMA FeedInitOK ==
  ASSUME FeedInit
  PROVE  FeedInv
<1>1. /\ retired = {} /\ changes = 0 /\ groups_joined = {} /\ overrun = {}
      /\ buffer = [s \in Sockets |-> <<>>]
      /\ setup = 0 /\ polling = <<>> /\ inner_turn = "addr4"
      /\ listing = "before" /\ ifaddrs = <<>> /\ indexes = {} /\ msgs = <<>>
      /\ source \in {"stream", "list"}
      /\ told = [links |-> Empty, addrs |-> {}, early |-> {}, wavers |-> {}, lossy |-> FALSE]
      /\ interfaces = Empty /\ groups = {}
  BY DEF FeedInit, KernelInit, NetlinkInit, GetIfAddrsInit, Init, InitWith, Empty
<1>2. /\ told.links = Empty /\ told.addrs = {} /\ told.early = {} /\ told.lossy = FALSE
      /\ DOMAIN Empty = {} /\ Empty \in [{} -> SUBSET Known]
  BY <1>1 DEF Empty
<1>3. /\ \A s \in Sockets : buffer[s] = <<>> /\ ~Joined(s) /\ ~Dumped(s)
      /\ "link" \in Sockets /\ Families \subseteq Sockets
  BY <1>1 DEF Joined, Dumped, Place, Sockets, Families
<1>4. TypeOK
  BY DEF FeedInit, Init, InitWith, Empty, new, TypeOK
<1>5. KernelOK
  BY <1>1 DEF FeedInit, KernelInit, KernelOK, Addresses
<1>6. StreamOK
  <2>1. ~Created
    BY <1>1, CreatedAtSix
  <2>2. inner_turn \in Families /\ DOMAIN buffer = Sockets
    BY <1>1 DEF Families
  <2>3. \A s \in Sockets : <<>> \in Seq(MessagesOf(s))
    OBVIOUS
  <2>4. groups_joined = {s \in Sockets : Joined(s)}
    BY <1>1, <1>3
  <2>5. setup \in 0 .. 6 /\ polling \in Seq(Sockets) /\ overrun \subseteq Sockets
    BY <1>1
  <2>6. \A s \in Sockets : buffer[s] \in Seq(MessagesOf(s)) /\ (~Joined(s) => buffer[s] = <<>>)
    BY <1>3, <2>3
  <2> QED BY ONLY <1>1, <2>1, <2>2, <2>4, <2>5, <2>6 DEF StreamOK
<1>7. ToldOK
  <2>1. told \in [links : {told.links}, addrs : SUBSET Addresses,
                  early : SUBSET Addresses, wavers : SUBSET Indexes, lossy : BOOLEAN]
    BY <1>1
  <2> QED BY <1>2, <2>1 DEF ToldOK
<1>8. SourceOK
  BY <1>1, <1>2 DEF SourceOK
<1>9. TruthUnderWay
  <2>1. \A x : Silent(<<>>, x)
    BY DEF Silent
  <2>2. LinksHeeded
    BY <1>2, <1>3, <2>1 DEF LinksHeeded, Heeded, LinkKnown
  <2>3. AddrsHeeded
    BY <1>2, <1>3, <2>1 DEF AddrsHeeded, Heeded, AddrKnown
  <2> QED BY <2>2, <2>3 DEF TruthUnderWay
<1>10. Follows
  BY <1>1, <1>2, <1>3 DEF Follows, DellinkIsLast, EngineFollows
<1>11. Lists
  BY <1>1, <1>2 DEF Lists, ListOK, LinksListedFirst
<1> QED BY <1>4, <1>5, <1>6, <1>7, <1>8, <1>9, <1>10, <1>11 DEF FeedInv, FeedOK

(***************************************************************************)
(* Every step keeps the invariant.                                         *)
(***************************************************************************)
LEMMA FeedStep ==
  ASSUME FeedInv, [FeedNext]_feedVars
  PROVE  FeedInv'
<1>0. FeedOK /\ TypeOK /\ TruthUnderWay /\ Follows /\ Lists
  BY DEF FeedInv
<1>1. TypeOK'
  <2>1. ASSUME UNCHANGED vars PROVE TypeOK'
    BY <1>0, <2>1 DEF vars, engine, timer, network, TypeOK
  <2>2. CASE FeedNext
    BY <1>0, <2>1, <2>2, EngineStep, TypingStep
  <2>3. CASE UNCHANGED feedVars
    BY <2>1, <2>3 DEF feedVars
  <2> QED BY <2>2, <2>3
<1>2. CASE KernelChanges
  BY <1>0, <1>1, <1>2, KernelStep DEF FeedInv
<1>3. CASE CreateStream
  BY <1>0, <1>1, <1>3, CreateStep DEF FeedInv
<1>4. CASE PollStream
  BY <1>0, <1>1, <1>4, PollStep DEF FeedInv
<1>5. CASE ReadList
  BY <1>0, <1>1, <1>5, ReadStep DEF FeedInv
<1>6. CASE Advertise \/ UNCHANGED feedVars
  <2>1. UNCHANGED <<interfaces, groups, kernel, sockets, stream, list, source, told>>
    BY <1>6 DEF Advertise, Application, subscribe, advertise, deadvertise, feedVars, vars, engine
  <2> QED BY <1>0, <1>1, <2>1, AdvertiseStep DEF FeedInv
<1> QED BY <1>2, <1>3, <1>4, <1>5, <1>6 DEF FeedNext

(***************************************************************************)
(* The invariant always holds.                                             *)
(***************************************************************************)
LEMMA FeedAlways == FeedSpec => []FeedInv
<1>1. FeedInit => FeedInv
  BY FeedInitOK
<1>2. FeedInv /\ [FeedNext]_feedVars => FeedInv'
  BY FeedStep
<1> QED BY <1>1, <1>2, PTL DEF FeedSpec

(***************************************************************************)
(* When the stream has caught up, what it has told is the truth.           *)
(***************************************************************************)
LEMMA TruthInTheEnd ==
  ASSUME FeedInv, Drained, ~Lossy
  PROVE  /\ source = "stream"
         /\ DOMAIN told.links = DOMAIN links
         /\ \A l \in DOMAIN links : told.links[l] = map_flags(links[l])
         /\ told.links = [l \in DOMAIN links |-> map_flags(links[l])]
         /\ told.addrs = addrs
<1>1. /\ setup = 6 /\ \A s \in Sockets : buffer[s] = <<>> /\ Dumped(s)
      /\ "link" \in Sockets /\ Families \subseteq Sockets
  BY CreatedAtSix DEF Drained, Dumped, Place, Sockets, Families
<1>2. source = "stream"
  BY <1>1 DEF FeedInv, FeedOK, SourceOK
<1>3. LinksHeeded /\ AddrsHeeded
  BY <1>2 DEF FeedInv, TruthUnderWay
<1>4. \A x, m : ~LastSays(<<>>, x, m)
  BY DEF LastSays
<1>5. \A l \in Indexes : LinkKnown(l)
  BY <1>1, <1>3, <1>4 DEF LinksHeeded, Heeded
<1>6. \A s \in Families : \A a \in Of(s) : AddrKnown(a)
  BY <1>1, <1>3, <1>4 DEF AddrsHeeded, Heeded
<1>7. \A a \in Addresses : a \in addrs <=> a \in told.addrs
  BY <1>6, FamilyOf DEF AddrKnown
<1>8. told.addrs = addrs
  <2>1. addrs \subseteq Addresses /\ told.addrs \subseteq Addresses
    BY DEF FeedInv, FeedOK, KernelOK, ToldOK
  <2> QED BY <1>7, <2>1
<1>9. /\ DOMAIN links \subseteq Indexes /\ DOMAIN told.links \subseteq Indexes
      /\ told.links \in [DOMAIN told.links -> SUBSET Known]
  BY DEF FeedInv, FeedOK, KernelOK, ToldOK
<1>10. /\ DOMAIN told.links = DOMAIN links
       /\ \A l \in DOMAIN links : told.links[l] = map_flags(links[l])
  BY <1>5, <1>9 DEF LinkKnown
<1>11. told.links = [l \in DOMAIN links |-> map_flags(links[l])]
  BY <1>9, <1>10
<1> QED BY <1>2, <1>8, <1>10, <1>11

(***************************************************************************)
(* The stream of get_interfaces_async tells the truth once it has caught   *)
(* up and has had no error, for any interfaces, addresses, flags and       *)
(* buffers, however the table changed while it was read.                   *)
(***************************************************************************)
THEOREM StreamTellsTheTruth == FeedSpec => []ToldTheTruth
<1>1. FeedInv => ToldTheTruth
  BY TruthInTheEnd DEF ToldTheTruth
<1> QED BY <1>1, FeedAlways, PTL

(***************************************************************************)
(* The list of get_interfaces names every interface before its addresses,  *)
(* in whatever order getifaddrs has them and whatever goes away meanwhile; *)
(* and it is complete if nothing changed.                                  *)
(***************************************************************************)
THEOREM ListTellsTheTruth == FeedSpec => []ListsInOrder
<1>1. FeedInv => ListsInOrder
  <2> SUFFICES ASSUME FeedInv, source = "list" PROVE ListsInOrder
    BY DEF ListsInOrder
  <2>1. told.early = {}
    BY DEF FeedInv, Lists, LinksListedFirst
  <2>2. ASSUME listing = "after", msgs = <<>>, changes = 0
        PROVE  /\ told.links = [l \in DOMAIN links |-> map_flags(links[l])]
               /\ told.addrs = addrs
    <3>1. ListedAll /\ ifaddrs = <<>>
      BY <2>2 DEF FeedInv, Lists, ListOK
    <3>2. \A x : ~Within(x, ifaddrs) /\ ~Within(x, msgs)
      BY <2>2, <3>1 DEF Within
    <3>3. /\ DOMAIN links \subseteq DOMAIN told.links /\ addrs \subseteq told.addrs
          /\ told.addrs \subseteq addrs
          /\ \A l \in DOMAIN told.links :
                l \in DOMAIN links /\ told.links[l] = map_flags(links[l])
      BY <3>1, <3>2 DEF ListedAll
    <3>4. told.links \in [DOMAIN told.links -> SUBSET Known]
      BY DEF FeedInv, FeedOK, ToldOK
    <3> QED BY <3>3, <3>4
  <2> QED BY <2>1, <2>2 DEF ListsInOrder
<1> QED BY <1>1, FeedAlways, PTL

(***************************************************************************)
(* What the engine has sent reaches the peers, whatever cotton-netif tells *)
(* it.                                                                     *)
(***************************************************************************)
LEMMA FeedAcquainted ==
  ASSUME PacketsFit
  PROVE  FeedSpec => []Acquainted
<1>1. FeedInit => Acquainted
  <2> SUFFICES ASSUME FeedInit PROVE Acquainted
    OBVIOUS
  <2>1. Init
    BY DEF FeedInit
  <2>2. UpIps(interfaces) = {}
    BY <2>1 DEF Init, InitWith, Empty, UpIps
  <2> QED BY <2>1, <2>2
          DEF Init, InitWith, Acquainted, PeersKnow, Understood, SearchedEverywhere
<1>2. FeedInv /\ FeedInv' /\ Acquainted /\ [FeedNext]_feedVars => Acquainted'
  <2> SUFFICES ASSUME FeedInv, FeedInv', Acquainted, [FeedNext]_feedVars PROVE Acquainted'
    OBVIOUS
  <2>1. ASSUME UNCHANGED vars PROVE Acquainted'
    BY <2>1 DEF vars, engine, network, Acquainted, PeersKnow, Understood, Meant, SearchedEverywhere
  <2>2. CASE FeedNext
    <3>1. Step \/ UNCHANGED vars
      BY <2>2, EngineStep
    <3>2. TypeOK /\ TypeOK'
      BY DEF FeedInv
    <3> QED BY <2>1, <3>1, <3>2, AcquaintedStep
  <2>3. CASE UNCHANGED feedVars
    BY <2>1, <2>3 DEF feedVars
  <2> QED BY <2>2, <2>3
<1> QED BY <1>1, <1>2, FeedAlways, PTL DEF FeedSpec

(***************************************************************************)
(* An engine that is fed by get_interfaces_async follows the kernel: when  *)
(* the stream has caught up, on_network_event has left it with no address  *)
(* that is gone, and none on an interface that is not up; all those are    *)
(* in use that are on interfaces which are up, if every interface was      *)
(* announced before its addresses; and peers reached from them know what   *)
(* is advertised, and where.  It holds for any network and any flags, of   *)
(* the interfaces whose MULTICAST flag has not changed while they were     *)
(* there, if the messages fit their buffer.                                *)
(***************************************************************************)
THEOREM EngineFollowsKernel ==
  PacketsFit => (FeedSpec => []PeersFollowKernel)
<1> SUFFICES ASSUME PacketsFit PROVE FeedSpec => []PeersFollowKernel
  OBVIOUS
<1>1. FeedInv /\ Acquainted => PeersFollowKernel
  <2> SUFFICES ASSUME FeedInv, Acquainted, Drained, ~Lossy
               PROVE  /\ UpIps(interfaces) \subseteq addrs
                      /\ UpIps(interfaces) \cap Steady \subseteq UpAddrs
                      /\ told.early = {} => UpAddrs \cap Steady \subseteq UpIps(interfaces)
                      /\ told.early = {} /\ losses = 0 =>
                            \A a \in UpAddrs \cap Steady, u \in DOMAIN advertisements :
                               heard[a][u] = Meant(u, a)
    BY DEF PeersFollowKernel
  <2>1. /\ source = "stream" /\ DOMAIN told.links = DOMAIN links /\ told.addrs = addrs
        /\ \A l \in DOMAIN links : told.links[l] = map_flags(links[l])
    BY TruthInTheEnd
  <2>2. /\ DOMAIN interfaces \subseteq DOMAIN told.links
        /\ \A l \in DOMAIN told.links \ told.wavers : LinkFollows(l)
        /\ \A l \in DOMAIN interfaces :
              \A a \in interfaces[l].ips : a \in told.addrs /\ IfaceOf[a] = l
        /\ told.early = {} => \A a \in told.addrs : AddrFollows(a)
    BY <2>1 DEF FeedInv, Follows, EngineFollows
  <2>3. TypeOK /\ Ips = Inet
    BY FeedAssumption DEF FeedInv
  <2>4. /\ \A l \in DOMAIN links : l \notin retired
        /\ \A a \in addrs : IfaceOf[a] \in DOMAIN links
    BY DEF FeedInv, FeedOK, KernelOK
  <2>5. ASSUME NEW l \in DOMAIN links \ told.wavers
        PROVE  /\ l \in DOMAIN interfaces <=> "MULTICAST" \in links[l]
               /\ l \in DOMAIN interfaces =>
                     (interfaces[l].up <=> "UP" \in links[l] /\ "RUNNING" \in links[l])
    <3>1. "UP" \in Known /\ "RUNNING" \in Known /\ "MULTICAST" \in Known
      BY DEF Known
    <3>2. told.links[l] = links[l] \cap Known
      BY <2>1 DEF map_flags
    <3>3. LinkFollows(l)
      BY <2>1, <2>2
    <3>4. l \in DOMAIN interfaces <=> "MULTICAST" \in links[l]
      BY <3>1, <3>2, <3>3 DEF LinkFollows
    <3>5. ASSUME l \in DOMAIN interfaces
          PROVE  interfaces[l].up <=> "UP" \in links[l] /\ "RUNNING" \in links[l]
      <4>1. interfaces[l].up = ({"UP", "RUNNING"} \subseteq links[l] \cap Known)
        BY <3>2, <3>3, <3>5 DEF LinkFollows
      <4> QED BY <3>1, <4>1
    <3> QED BY <3>4, <3>5
  <2>6. ASSUME NEW a \in UpIps(interfaces)
        PROVE  a \in addrs /\ (a \in Steady => a \in UpAddrs)
    <3>1. PICK l \in DOMAIN interfaces : interfaces[l].up /\ a \in interfaces[l].ips
      BY UpIpsMember
    <3>2. a \in addrs /\ IfaceOf[a] = l /\ l \in DOMAIN links
      BY <2>1, <2>2, <3>1
    <3>3. a \in Inet
      BY <2>3, UpIpsType
    <3> QED BY <2>5, <3>1, <3>2, <3>3 DEF UpAddrs, Steady
  <2>7. ASSUME told.early = {}, NEW a \in UpAddrs \cap Steady
        PROVE  a \in UpIps(interfaces)
    <3>1. /\ a \in Inet /\ a \in addrs /\ IfaceOf[a] \notin told.wavers
          /\ {"MULTICAST", "UP", "RUNNING"} \subseteq links[IfaceOf[a]]
      BY DEF UpAddrs, Steady
    <3>2. IfaceOf[a] \in DOMAIN links /\ ~Gone(IfaceOf[a])
      BY <2>4, <3>1 DEF Gone
    <3>3. IfaceOf[a] \in DOMAIN interfaces /\ interfaces[IfaceOf[a]].up
      BY <2>5, <3>1, <3>2
    <3>4. a \in interfaces[IfaceOf[a]].ips
      BY <2>1, <2>2, <2>7, <3>1, <3>2, <3>3 DEF AddrFollows
    <3> QED BY <3>3, <3>4, UpIpsMember
  <2>8. ASSUME told.early = {}, losses = 0,
               NEW a \in UpAddrs \cap Steady, NEW u \in DOMAIN advertisements
        PROVE  heard[a][u] = Meant(u, a)
    <3>1. a \in UpIps(interfaces)
      BY <2>7, <2>8
    <3>2. u \in Usns /\ a \in Ips
      BY <2>3 DEF TypeOK, UpAddrs
    <3> QED BY <2>8, <3>1, <3>2 DEF Acquainted, PeersKnow, Understood
  <2> QED BY <2>6, <2>7, <2>8
<1> QED BY <1>1, FeedAlways, FeedAcquainted, PTL
=============================================================================
