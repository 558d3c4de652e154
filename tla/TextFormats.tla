---- MODULE TextFormats ----
\* Texts that come in from clients and go out to them, and what the addresses
\* and chunks of a forwarded request mean.
EXTENDS Sample, Integers, Sequences
LOCAL INSTANCE SequencesExt
LOCAL INSTANCE FiniteSetsExt
LOCAL INSTANCE FiniteSets

----
\* The small formats of requests: percent coding, forms, cookies, the options
\* of a Connection field (http/HttpParser.cpp), the URL coding of OAuth2.cpp
\* and base64url of JwtAuth.cpp. A text is a sequence of bytes.

CONSTANTS TxBytes,     \* the bytes texts are made of
          TxMaxLen     \* their length

CH == [nul |-> 0, tab |-> 9, space |-> 32, pct |-> 37, amp |-> 38, plus |-> 43, comma |-> 44, slash |-> 47, semi |-> 59, eq |-> 61, back |-> 92]

\* std::string_view::find: the first c at or after from, or the end.
find(s, c, from) == Min({i \in from..Len(s) : s[i] = c} \cup {Len(s) + 1})

\* The pieces between separators, in order: what the loops over find(sep) visit.
RECURSIVE pieces(_, _)
pieces(s, sep) == LET i == find(s, sep, 1)
                  IN <<SubSeq(s, 1, i - 1)>> \o IF i > Len(s) THEN << >> ELSE pieces(SubSeq(s, i + 1, Len(s)), sep)

tolower(c) == IF c \in 65..90 THEN c + 32 ELSE c
lower(s) == [i \in DOMAIN s |-> tolower(s[i])]
trim(s) == LET text == {i \in DOMAIN s : s[i] \notin {CH.space, CH.tab}}
           IN IF text = {} THEN << >> ELSE SubSeq(s, Min(text), Max(text))
CaseInsensitiveEqual(s, t) == Len(s) = Len(t) /\ \A i \in DOMAIN s : tolower(s[i]) = tolower(t[i])

connection_option_present(field_value, option) ==
  \E i \in DOMAIN pieces(field_value, CH.comma) : lower(trim(pieces(field_value, CH.comma)[i])) = option

hexval(c) == IF c \in 48..57 THEN c - 48 ELSE IF c \in 97..102 THEN c - 87 ELSE IF c \in 65..70 THEN c - 55 ELSE -1
escaped(in, i) == i + 2 <= Len(in) /\ hexval(in[i + 1]) >= 0 /\ hexval(in[i + 2]) >= 0
escape_value(in, i) == hexval(in[i + 1]) * 16 + hexval(in[i + 2])

\* Mutant: separators pass in paths too.
percent_decode_AnyPath(in, plus_as_space, for_path) ==
  LET d[i \in 1..(Len(in) + 3)] ==
        IF i > Len(in) THEN {<< >>}
        ELSE IF in[i] = CH.pct
        THEN IF ~escaped(in, i) THEN {}
             ELSE {<<escape_value(in, i)>> \o t : t \in d[i + 3]}
        ELSE {<<IF in[i] = CH.plus /\ plus_as_space THEN CH.space ELSE in[i]>> \o t : t \in d[i + 1]}
  IN d[1]

\* The decoded text, as the set of it: empty where the code returns false.
percent_decode(in, plus_as_space, for_path) ==
  LET d[i \in 1..(Len(in) + 3)] ==
        IF i > Len(in) THEN {<< >>}
        ELSE IF in[i] = CH.pct
        THEN IF ~escaped(in, i) \/ (for_path /\ escape_value(in, i) \in {CH.slash, CH.back, CH.nul}) THEN {}
             ELSE {<<escape_value(in, i)>> \o t : t \in d[i + 3]}
        ELSE {<<IF in[i] = CH.plus /\ plus_as_space THEN CH.space ELSE in[i]>> \o t : t \in d[i + 1]}
  IN d[1]

\* Pairs written into an unordered_map one after the other: the last one stays.
written(pairs) == [n \in {pairs[i][1] : i \in DOMAIN pairs} |-> pairs[Max({i \in DOMAIN pairs : pairs[i][1] = n})][2]]

\* The map, as the set of it: empty where one pair does not decode.
parse_urlencoded(data) ==
  LET full == SelectSeq(pieces(data, CH.amp), LAMBDA p : p # << >>)
      half(p, h) == LET eq == find(p, CH.eq, 1) IN percent_decode(IF h = 1 THEN SubSeq(p, 1, eq - 1) ELSE SubSeq(p, eq + 1, Len(p)), TRUE, FALSE)
      ok == \A i \in DOMAIN full : half(full[i], 1) # {} /\ half(full[i], 2) # {}
  IN IF ~ok THEN {} ELSE {written([i \in DOMAIN full |-> <<CHOOSE n \in half(full[i], 1) : TRUE, CHOOSE v \in half(full[i], 2) : TRUE>>])}

\* media: the Content-Type, or << >> without one. All fields or none.
form_fields(media, body, form) ==
  IF ~CaseInsensitiveEqual(trim(pieces(media, CH.semi)[1]), form) \/ parse_urlencoded(body) = {} THEN written(<< >>)
  ELSE CHOOSE m \in parse_urlencoded(body) : TRUE

\* A name runs to the next '=', a value to the next ';' after that.
parse_cookie_header(s) ==
  LET from(p) == Min({i \in p..Len(s) : s[i] # CH.space} \cup {Len(s) + 1})
      f[p \in 1..(Len(s) + 2)] ==
        LET key == from(p)  eq == find(s, CH.eq, key)  semi == find(s, CH.semi, eq)
        IN IF p > Len(s) \/ eq > Len(s) THEN << >>
           ELSE <<<<SubSeq(s, key, eq - 1), SubSeq(s, eq + 1, semi - 1)>>>> \o f[semi + 1]
  IN written(f[1])

unreserved(c) == c \in 48..57 \/ c \in 65..90 \/ c \in 97..122 \/ c \in {45, 46, 95, 126}
hexdigit(v) == IF v < 10 THEN 48 + v ELSE 55 + v
url_encode(value) ==
  FlattenSeq([i \in DOMAIN value |-> IF unreserved(value[i]) THEN <<value[i]>>
                                     ELSE <<CH.pct, hexdigit(value[i] \div 16), hexdigit(value[i] % 16)>>])

\* What is not an escape is taken as it is.
url_decode(value) ==
  LET d[i \in 1..(Len(value) + 3)] ==
        IF i > Len(value) THEN << >>
        ELSE IF value[i] = CH.plus THEN <<CH.space>> \o d[i + 1]
        ELSE IF value[i] = CH.pct /\ escaped(value, i) THEN <<escape_value(value, i)>> \o d[i + 3]
        ELSE <<value[i]>> \o d[i + 1]
  IN d[1]

\* EVP_EncodeBlock and EVP_DecodeBlock over digits 0..63, 64 for '='.
EVP_EncodeBlock(in) ==
  LET byte(i) == IF i <= Len(in) THEN in[i] ELSE 0
      digit(j) == LET b == 3 * (j \div 4)
                  IN CASE j % 4 = 0 -> byte(b + 1) \div 4
                       [] j % 4 = 1 -> (byte(b + 1) % 4) * 16 + byte(b + 2) \div 16
                       [] j % 4 = 2 -> (byte(b + 2) % 16) * 4 + byte(b + 3) \div 64
                       [] j % 4 = 3 -> byte(b + 3) % 64
  IN [j \in 1..(4 * ((Len(in) + 2) \div 3)) |-> IF (j - 1) % 4 > Len(in) - 3 * ((j - 1) \div 4) THEN 64 ELSE digit(j - 1)]
EVP_DecodeBlock(in) ==
  LET v(j) == IF in[j] = 64 THEN 0 ELSE in[j]
  IN [i \in 1..(3 * (Len(in) \div 4)) |->
        LET g == 4 * ((i - 1) \div 3)
        IN CASE i % 3 = 1 -> v(g + 1) * 4 + v(g + 2) \div 16
             [] i % 3 = 2 -> (v(g + 2) % 16) * 16 + v(g + 3) \div 4
             [] i % 3 = 0 -> (v(g + 3) % 4) * 64 + v(g + 4)]

base64url_encode(input) == SelectSeq(EVP_EncodeBlock(input), LAMBDA c : c # 64)
base64url_decode(input) ==
  LET b64 == input \o [j \in 1..((4 - (Len(input) % 4)) % 4) |-> 64]
      padding == Cardinality({j \in {Len(b64) - 1, Len(b64)} : j > 0 /\ b64[j] = 64})
      out == EVP_DecodeBlock(b64)
  IN SubSeq(out, 1, Len(out) - padding)

----
TxTexts == UNION {[1..n -> TxBytes] : n \in 0..TxMaxLen}
TxNames == {<<97>>, <<CH.amp>>, <<CH.space, CH.eq>>}
TxSamples == {[kind |-> "text", text |-> t] : t \in TxTexts}
             \cup {[kind |-> "form", pairs |-> p] : p \in UNION {[1..n -> TxNames \X ({<< >>} \cup TxNames)] : n \in 0..2}}

form_of(pairs) == FlattenSeq([i \in DOMAIN pairs |-> (IF i > 1 THEN <<CH.amp>> ELSE << >>) \o url_encode(pairs[i][1])
      \o <<CH.eq>> \o url_encode(pairs[i][2])])
cookies_of(pairs) == FlattenSeq([i \in DOMAIN pairs |-> (IF i > 1 THEN <<CH.semi, CH.space>> ELSE << >>)
      \o url_encode(pairs[i][1]) \o <<CH.eq>> \o url_encode(pairs[i][2])])
encoded_pairs(pairs) == [i \in DOMAIN pairs |-> <<url_encode(pairs[i][1]), url_encode(pairs[i][2])>>]
slashes(s) == Cardinality({i \in DOMAIN s : s[i] \in {CH.slash, CH.back, CH.nul}})
options_of(s) == {lower(trim(pieces(s, CH.comma)[i])) : i \in DOMAIN pieces(s, CH.comma)}

\* Every text survives its coding: what url_encode and base64url_encode write
\* decodes to what was given, by each decoder; a form and a Cookie field made of
\* pairs parse back to the last value of each name; decoding a path adds no
\* separator to it, whatever it escapes; and a strict decoder that accepts a
\* text agrees with the lenient one.
TextsSurvive ==
  /\ sample.kind = "text" =>
       LET t == sample.text
       IN /\ url_decode(url_encode(t)) = t /\ percent_decode(url_encode(t), TRUE, FALSE) = {t}
          /\ base64url_decode(base64url_encode(t)) = t
          /\ \A d \in percent_decode(t, FALSE, TRUE) : slashes(d) = slashes(t)
          /\ \A d \in percent_decode(t, TRUE, FALSE) : d = url_decode(t)
          /\ \A o \in options_of(t) : connection_option_present(t, o)
          /\ Len(t) <= 2 => form_fields(<<97, CH.semi>> \o t, t, <<65>>) = form_fields(<<65>>, t, <<97>>)
  /\ sample.kind = "form" =>
       LET p == sample.pairs
       IN /\ parse_urlencoded(form_of(p)) = {written(p)}
          /\ parse_cookie_header(cookies_of(p)) = written(encoded_pairs(p))

----
\* What the reverse proxy sends upstream and takes back (middleware/Proxy.cpp
\* detail::), and how the server behind it finds the client
\* (middleware/TrustedProxies.cpp). An address is its 16 bytes, here fewer and
\* narrower ones.

CONSTANTS FwBytes, FwBits,     \* bytes of an address, bits of a byte
          FwV4Bytes,           \* those of an IPv4 address
          FwProxy,             \* the address of the proxy
          FwChunks             \* bodies of chunked responses

FwAddresses == [1..FwBytes -> 0..(2^FwBits - 1)]
Garbage == << >>     \* an entry that is no address: parse_ip fails

\* IPv4 is kept as ::ffff:a.b.c.d.
mapped(v4) == [i \in 1..FwBytes |-> IF i > FwBytes - FwV4Bytes THEN v4[i - (FwBytes - FwV4Bytes)]
      ELSE IF i > FwBytes - FwV4Bytes - 2 THEN 2^FwBits - 1 ELSE 0]

\* bits: the prefix length written, or -1 without one; {} for a malformed one.
IpNetworkParse(addr, is_v4, bits) ==
  LET most == IF is_v4 THEN FwV4Bytes * FwBits ELSE FwBytes * FwBits
      own == IF bits < 0 THEN most ELSE bits
  IN IF addr = Garbage \/ own > most THEN {}
     ELSE {[address |-> IF is_v4 THEN mapped(addr) ELSE addr, prefix_bits |-> IF is_v4 THEN own + (FwBytes - FwV4Bytes) * FwBits ELSE own]}

\* Byte by byte: the mask of byte i keeps its first bits.
contains(net, ip) ==
  /\ ip # Garbage
  /\ \A i \in 1..FwBytes :
       LET bits == net.prefix_bits - (i - 1) * FwBits
           kept == IF bits >= FwBits THEN FwBits ELSE bits
       IN bits > 0 => net.address[i] \div 2^(FwBits - kept) = ip[i] \div 2^(FwBits - kept)

\* Mutant: the first address of the chain is taken.
trusted_proxies_First(trusted, peer, chain) ==
  LET is_trusted(ip) == \E net \in trusted : contains(net, ip)
  IN IF ~is_trusted(peer) \/ chain = << >> THEN peer ELSE IF chain[1] = Garbage THEN peer ELSE chain[1]

\* The client of a request: right to left, each trusted hop vouches for the one
\* before.
trusted_proxies(trusted, peer, chain) ==
  LET is_trusted(ip) == \E net \in trusted : contains(net, ip)
      vouched == {i \in 1..Len(chain) : \A j \in i..Len(chain) : chain[j] # Garbage /\ (j > i => is_trusted(chain[j]))}
  IN IF ~is_trusted(peer) \/ vouched = {} THEN peer ELSE chain[Min(vouched)]

----
\* The request sent upstream. A request has its fields by lower-case name.

HopByHop == {"connection", "keep-alive", "proxy-connection", "transfer-encoding", "te", "trailer", "upgrade",
      "proxy-authorization", "proxy-authenticate", "host", "content-length"}
ForwardingFields == {"x-forwarded-for", "x-forwarded-host", "x-forwarded-proto", "x-real-ip", "forwarded"}

\* The copy the proxy works from; it sends the target as the client wrote it.
\* plain: the names of the fields without a part of their own here.
snapshot_request(req) == [req EXCEPT !.target = IF @ = << >> THEN req.uri ELSE @]

build_upstream_request(req, trust, strip_prefix) ==
  LET target == IF req.target = << >> THEN <<"/">> ELSE req.target
      stripped == strip_prefix # << >> /\ IsPrefix(strip_prefix, target)
      rest == SubSeq(target, Len(strip_prefix) + 1, Len(target))
      is_upgrade == req.upgrade /\ "upgrade" \in req.connection
      prior == trust /\ req.xff # << >>
  IN [method |-> req.method,
      target |-> IF ~stripped THEN target ELSE IF IsPrefix(<<"/">>, rest) THEN rest ELSE <<"/">> \o rest,
      plain |-> {n \in req.plain : n \notin HopByHop \cup req.connection \cup ForwardingFields},
      xff |-> IF prior THEN Append(req.xff, req.client_ip) ELSE <<req.client_ip>>,
      real_ip |-> IF trust /\ req.real_ip # Garbage THEN req.real_ip ELSE req.client_ip,
      fwd_host |-> IF trust /\ req.fwd_host # Garbage THEN req.fwd_host ELSE req.host,
      length |-> IF req.body > 0 \/ req.method \in {"POST", "PUT", "PATCH"} THEN req.body ELSE -1,
      connection |-> IF is_upgrade THEN {"upgrade"} ELSE {"keep-alive"},
      upgrade |-> is_upgrade,
      body |-> req.body]

----
\* ChunkedDecoder: a character is a hex digit 0..15 (data as well), CR, LF, a
\* semicolon or anything else.

CR == 16
LF == 17
SEMI == 18
OTHER_CHAR == 19
FreshDecoder == [state |-> "Size", line |-> << >>, remaining |-> 0, out |-> << >>]
unpadded(line) == SubSeq(line, 1, Max({0} \cup {i \in DOMAIN line : line[i] # CR}))
digits(line) == unpadded(SubSeq(line, 1, Min({i \in DOMAIN line : line[i] = SEMI} \cup {Len(line) + 1}) - 1))
TooLong(line, most) == Len(line) >= most
hex_value(ds) == FoldLeft(LAMBDA acc, d : acc * 16 + d, 0, ds)

\* One character; in Data the code takes as many as there are at once.
decode(d, c) ==
  CASE d.state \in {"Error", "Finished"} -> d
    [] d.state = "Size" /\ c # LF -> [d EXCEPT !.line = Append(@, c), !.state = IF TooLong(d.line, 1024) THEN "Error" ELSE @]
    [] d.state = "Size" /\ c = LF ->
         IF digits(d.line) = << >> \/ Len(digits(d.line)) > 15 \/ \E i \in DOMAIN digits(d.line) : digits(d.line)[i] > 15 THEN [d EXCEPT !.state = "Error"]
         ELSE LET n == hex_value(digits(d.line)) IN [d EXCEPT !.line = << >>, !.remaining = n, !.state = IF n = 0 THEN "Trailer" ELSE "Data"]
    [] d.state = "Data" -> [d EXCEPT !.out = Append(@, c), !.remaining = @ - 1, !.state = IF d.remaining = 1 THEN "DataEnd" ELSE "Data"]
    [] d.state = "DataEnd" -> [d EXCEPT !.state = IF c = LF THEN "Size" ELSE IF c = CR THEN @ ELSE "Error"]
    [] d.state = "Trailer" /\ c # LF -> [d EXCEPT !.line = Append(@, c), !.state = IF TooLong(d.line, 8192) THEN "Error" ELSE @]
    [] d.state = "Trailer" /\ c = LF -> [d EXCEPT !.line = << >>, !.state = IF unpadded(d.line) = << >> THEN "Finished" ELSE @]

\* Mutant: what is left of the last piece is forgotten.
feed_Carried(d, data) == FoldLeft(decode, [d EXCEPT !.remaining = 0, !.line = << >>], data)

feed(d, data) == FoldLeft(decode, d, data)

----
chunk_of(data) == <<Len(data)>> \o <<CR, LF>> \o data \o <<CR, LF>>
chunked(chunks, trailer) == FlattenSeq([i \in DOMAIN chunks |-> chunk_of(chunks[i])]) \o <<0, SEMI, OTHER_CHAR, CR, LF>> \o trailer \o <<CR, LF>>
FwNets == UNION {IpNetworkParse(FwProxy, FALSE, b) : b \in -1..(FwBytes * FwBits + 1)}
      \cup UNION {IpNetworkParse(SubSeq(FwProxy, 1, FwV4Bytes), TRUE, b) : b \in -1..(FwV4Bytes * FwBits + 1)}
FwRequests == {r \in [method : {"GET", "POST"}, uri : {<<"/", "a", "/", "x">>}, target : {<<"/", "a", "x">>, << >>},
      plain : {{"accept", "x-app", "te"}}, connection : SUBSET {"x-app", "upgrade"}, upgrade : BOOLEAN,
               xff : {<< >>, <<Garbage>>} \cup {<<a>> : a \in {FwProxy}}, real_ip : {Garbage, FwProxy}, client_ip : FwAddresses, body : {0, 2},
               host : {<<"us">>}, fwd_host : {Garbage, <<"them">>}] : r.upgrade => r.method = "GET" /\ r.body = 0}
FwSamples == {[kind |-> "net", net |-> n, ip |-> ip] : n \in FwNets, ip \in FwAddresses}
             \cup {[kind |-> "hops", req |-> r, trust |-> t] : r \in FwRequests, t \in BOOLEAN}
             \cup {[kind |-> "chunks", body |-> b, trailer |-> t, cut |-> c] : b \in FwChunks, t \in {<< >>, <<OTHER_CHAR, CR, LF>>}, c \in 0..24}
bit(a, i) == (a[((i - 1) \div FwBits) + 1] \div 2^(FwBits - 1 - ((i - 1) % FwBits))) % 2

\* A client behind the proxy cannot choose who the server takes it for: whatever
\* forwarding fields it sends, the server that trusts only the proxy finds the
\* client's own address (proxies inside a trusted network included); what the
\* client marked as meant for one hop does not get further, the rest does; the
\* upstream is asked for a path, however much of it the prefix took off; and a
\* network contains exactly the addresses that share its prefix, to the bit.
ClientNotSpoofed ==
  /\ sample.kind = "net" => (contains(sample.net, sample.ip) <=> \A i \in 1..sample.net.prefix_bits : bit(sample.net.address, i) = bit(sample.ip, i))
  /\ sample.kind = "hops" =>
       LET up == build_upstream_request(snapshot_request(sample.req), sample.trust, <<"/", "a">>)
           only_proxy == IpNetworkParse(FwProxy, FALSE, -1)
       IN /\ trusted_proxies(only_proxy, FwProxy, up.xff) = sample.req.client_ip \/ (sample.trust /\ sample.req.client_ip = FwProxy)
          /\ trusted_proxies(only_proxy, sample.req.client_ip, sample.req.xff) # sample.req.client_ip => sample.req.client_ip = FwProxy
          /\ ~sample.trust => up.real_ip = sample.req.client_ip /\ up.fwd_host = sample.req.host
          /\ up.plain = (sample.req.plain \ HopByHop) \ sample.req.connection
          /\ IsPrefix(<<"/">>, up.target)
          /\ up.length \in {sample.req.body, -1} /\ (up.length = -1 => sample.req.body = 0)

\* A chunked response decodes to its body wherever the reads cut it, is done
\* with its last line and not before, and takes nothing of what follows.
ChunksWhole ==
  sample.kind = "chunks" =>
    LET all == chunked(sample.body, sample.trailer)
        cut == Min({sample.cut, Len(all)})
        first == feed(FreshDecoder, SubSeq(all, 1, cut))
        both == feed(first, SubSeq(all, cut + 1, Len(all)) \o <<OTHER_CHAR>>)
    IN /\ both.state = "Finished" /\ both.out = FlattenSeq(sample.body)
       /\ first.state = "Finished" => cut = Len(all)
       /\ first.state # "Error" /\ IsPrefix(first.out, both.out)
====
